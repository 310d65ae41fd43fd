--------------------------- MODULE WorkerJob_proofs ---------------------------
(***************************************************************************)
(* A job and the workers that run it, for any number of workers, attempts    *)
(* and ticks, over a network that loses, delays and reorders: what a success *)
(* that the server recorded says of the run.                                 *)
(***************************************************************************)
EXTENDS WorkerJob, TLAPS

(***************************************************************************)
(* The inductive invariant                                                  *)
(***************************************************************************)
Places == {"idle", "poll", "prepare", "run", "join", "claim"} \cup Waiting

\* Where a runner has nothing left to do for its attempt but to report it.
Over == {"idle", "poll", "succeeded", "failed"}

\* A job that can be leased has an attempt left.
AttemptsLeft == job.state = "queued" => job.attempt < MaxAttempts

\* An attempt is run by the worker it was leased to, and by nobody else.
RunnerOwns ==
  \A w \in Workers : /\ att[w] # 0 => owner[att[w]] = w
                     /\ pc[w] \notin {"idle", "poll"} => att[w] # 0

\* An attempt produces one output, of one run of the scanner.
Fresh == \A w \in Workers : pc[w] \in {"prepare", "run"} => att[w] \notin owed /\ att[w] \notin cut

\* The answer a runner waits for is the answer to its own request.
OutputAnswered ==
  \A w \in Workers : pc[w] = "output" => att[w] \notin cut /\ (reply[w] = "ok" => att[w] \in accepted)

\* The output of the attempt, if it has one, is stored, and its scanner was not cut short.
Earned(a) == (a \in owed => a \in accepted) /\ a \notin cut

OutcomeEarned ==
  \A w \in Workers : (pc[w] = "join" /\ ok[w]) \/ pc[w] = "claim" => Earned(att[w])

EarlySeen == early \subseteq quarantined

\* What a claim of success on its way stands for, and keeps standing for: its runner is past
\* everything that could still cut the attempt short or quarantine it early.
Past(a) == \A w \in Workers : att[w] = a => pc[w] \in Over
Won(a) == Earned(a) /\ a \notin early /\ Past(a)

ClaimsWon == \A m \in net : m.kind = "succeeded" => Won(m.attempt)

DecidedWon == job.state = "succeeded" => by # 0 /\ Won(by)

WorkerInv ==
  /\ TypeOK /\ AttemptsLeft /\ RunnerOwns /\ Fresh /\ OutputAnswered /\ OutcomeEarned
  /\ EarlySeen /\ DecidedByHolder /\ ClaimsWon /\ DecidedWon

\* The invariant implies what the run checks.
LEMMA WorkerImplied == WorkerInv => ResultsSound
BY DEF WorkerInv, ResultsSound, SucceededIsStored, CutNeverSucceeds, QuarantinedNeverSucceeds,
       DecidedWon, Won, Earned

\* It holds before the first lease.
LEMMA WorkerInitial == Init => WorkerInv
<1> SUFFICES ASSUME Init
             PROVE  WorkerInv
  OBVIOUS
<1>1. TypeOK
  <2>1. job.attempt = 0 /\ job \in [state : {"queued", "leased"} \cup Decided,
                attempt : 0..MaxAttempts, left : -1..LeaseTime]
    BY BoundsAssumption DEF Init
  <2>2. 1 .. job.attempt = {} /\ 0 .. job.attempt = {0}
    BY <2>1
  <2>3. owner \in [1 .. job.attempt -> Workers]
    BY <2>2 DEF Init
  <2> QED
    BY <2>1, <2>2, <2>3 DEF Init, TypeOK
<1>2. AttemptsLeft /\ DecidedByHolder /\ DecidedWon /\ ClaimsWon /\ EarlySeen
  BY BoundsAssumption DEF Init, AttemptsLeft, DecidedByHolder, DecidedWon, ClaimsWon, EarlySeen
<1>3. RunnerOwns /\ Fresh /\ OutputAnswered /\ OutcomeEarned
  BY DEF Init, RunnerOwns, Fresh, OutputAnswered, OutcomeEarned
<1> QED
  BY <1>1, <1>2, <1>3 DEF WorkerInv

(***************************************************************************)
(* The runner                                                               *)
(***************************************************************************)
\* What a step of w's runner may do: it goes to a place, sends the request it then waits
\* for or none, and produces an output or is cut short before it has done either.
RunnerStep(w, p) ==
  /\ pc' = [pc EXCEPT ![w] = p] /\ p \in Places
  /\ UNCHANGED <<server, att, early, quarantined, stopping>>
  /\ ok' \in [Workers -> BOOLEAN] /\ reply' \in [Workers -> {"none", "ok", "refused"}]
  /\ \A v \in Workers \ {w} : ok'[v] = ok[v] /\ reply'[v] = reply[v]
  /\ net' = net \/ (p \in Waiting /\ net' = net \cup {[kind |-> p, attempt |-> att[w]]})
  /\ owed' = owed \/ (pc[w] \in {"prepare", "run"} /\ owed' = owed \cup {att[w]})
  /\ cut' = cut \/ (pc[w] \in {"prepare", "run"} /\ cut' = cut \cup {att[w]})

\* What it has to bring along to the place it goes to.
Arrives(w, p) ==
  /\ p \notin {"idle", "poll"} => pc[w] \notin {"idle", "poll"}
  /\ pc[w] \in Over => p \in Over
  /\ p \in {"prepare", "run"} => att[w] \notin owed' /\ att[w] \notin cut'
  /\ p = "output" => att[w] \notin cut' /\ reply'[w] = "none"
  /\ (p = "join" /\ ok'[w]) \/ p \in {"claim", "succeeded"} => Earned(att[w])'
  /\ p = "succeeded" => att[w] \notin early

\* A step of a runner that brings along what its next place asks for keeps the invariant.
LEMMA RunnerKeeps ==
  ASSUME WorkerInv, NEW w \in Workers, NEW p, RunnerStep(w, p), Arrives(w, p)
  PROVE  WorkerInv'
<1> USE DEF WorkerInv
<1>1. /\ job' = job /\ by' = by /\ owner' = owner /\ accepted' = accepted /\ att' = att
      /\ early' = early /\ quarantined' = quarantined /\ stopping' = stopping
  BY DEF RunnerStep, server
<1>2. /\ pc' \in [Workers -> Places] /\ pc'[w] = p /\ \A v \in Workers : v # w => pc'[v] = pc[v]
  BY DEF RunnerStep, TypeOK, Places
<1>3. pc[w] \notin {"idle", "poll"} => att[w] \in 1 .. job.attempt
  BY DEF TypeOK, RunnerOwns
<1>4. TypeOK'
  <2>1. owed' \in SUBSET (1 .. job.attempt) /\ cut' \in SUBSET (1 .. job.attempt)
    BY <1>3 DEF TypeOK, RunnerStep
  <2>2. net' \subseteq [kind : Kinds, attempt : 1 .. job.attempt]
    BY <1>3 DEF TypeOK, RunnerStep, Arrives, Kinds, Waiting
  <2> QED
    BY <1>1, <1>2, <2>1, <2>2 DEF TypeOK, RunnerStep, Places
<1>5. AttemptsLeft' /\ DecidedByHolder' /\ EarlySeen'
  BY <1>1 DEF AttemptsLeft, DecidedByHolder, EarlySeen
<1>6. RunnerOwns'
  BY <1>1, <1>2, <1>3 DEF RunnerOwns, Arrives
<1>7. ASSUME NEW v \in Workers, v # w, pc[v] \notin {"idle", "poll"}
      PROVE  att[v] # att[w] \/ pc[w] \in {"idle", "poll"}
  BY <1>7 DEF RunnerOwns
<1>8. \A v \in Workers : v # w /\ pc[v] \notin {"idle", "poll"} =>
        /\ att[v] \in owed' <=> att[v] \in owed
        /\ att[v] \in cut' <=> att[v] \in cut
  BY <1>7 DEF RunnerStep
<1>9. Fresh'
  BY <1>1, <1>2, <1>8 DEF Fresh, Arrives
<1>10. OutputAnswered'
  BY <1>1, <1>2, <1>8 DEF OutputAnswered, Arrives, RunnerStep
<1>11. OutcomeEarned'
  <2> SUFFICES ASSUME NEW v \in Workers, (pc'[v] = "join" /\ ok'[v]) \/ pc'[v] = "claim"
               PROVE  Earned(att[v])'
    BY DEF OutcomeEarned
  <2>1. CASE v = w
    BY <1>1, <1>2, <2>1 DEF Arrives, Earned
  <2>2. CASE v # w
    <3>1. Earned(att[v]) /\ pc[v] \notin {"idle", "poll"}
      BY <1>2, <2>2 DEF OutcomeEarned, RunnerStep
    <3> QED
      BY <1>1, <1>8, <2>2, <3>1 DEF Earned
  <2> QED
    BY <2>1, <2>2
<1>12. ASSUME NEW a, Won(a)
       PROVE  Won(a)'
  <2>1. att[w] = a => pc[w] \in Over
    BY <1>12 DEF Won, Past
  <2>2. Earned(a)'
    <3>1. (a \in owed' <=> a \in owed) /\ (a \in cut' <=> a \in cut)
      BY <2>1 DEF RunnerStep, Over
    <3> QED
      BY <1>1, <1>12, <3>1 DEF Won, Earned
  <2>3. Past(a)'
    BY <1>1, <1>2, <1>12, <2>1 DEF Won, Past, Arrives
  <2> QED
    BY <1>1, <1>12, <2>2, <2>3 DEF Won
<1>13. ASSUME NEW a, a = att[w], p = "succeeded"
       PROVE  Won(a)'
  <2>1. pc[w] \notin {"idle", "poll"} /\ att[w] # 0
    BY <1>13 DEF Arrives, RunnerOwns
  <2>2. Past(a)'
    BY <1>1, <1>2, <1>13, <2>1 DEF Past, Over, RunnerOwns
  <2> QED
    BY <1>1, <1>13, <2>2 DEF Won, Arrives, Earned
<1>14. ClaimsWon'
  <2> SUFFICES ASSUME NEW m \in net', m.kind = "succeeded"
               PROVE  Won(m.attempt)'
    BY DEF ClaimsWon
  <2>1. CASE m \in net
    BY <1>12, <2>1 DEF ClaimsWon
  <2>2. CASE m \notin net
    <3>1. m = [kind |-> p, attempt |-> att[w]]
      BY <2>2 DEF RunnerStep
    <3>2. p = "succeeded" /\ m.attempt = att[w]
      BY <3>1
    <3> QED
      BY <1>13, <3>2
  <2> QED
    BY <2>1, <2>2
<1>15. DecidedWon'
  BY <1>1, <1>12 DEF DecidedWon
<1> QED
  BY <1>4, <1>5, <1>6, <1>9, <1>10, <1>11, <1>14, <1>15
\* The runner asks for work, or reports and goes on.
LEMMA QuietRunner ==
  ASSUME WorkerInv, NEW w \in Workers, Poll(w) \/ PollEmpty(w) \/ GaveUp(w) \/ Claim(w) \/ Claimed(w)
  PROVE  WorkerInv'
<1> USE DEF WorkerInv
<1>1. ok \in [Workers -> BOOLEAN] /\ reply \in [Workers -> {"none", "ok", "refused"}]
  BY DEF TypeOK
<1>2. CASE Poll(w) \/ PollEmpty(w)
  <2>1. PICK p \in {"idle", "poll"} : RunnerStep(w, p) /\ Arrives(w, p)
    BY <1>1, <1>2 DEF Poll, PollEmpty, Go, RunnerStep, Arrives, Places, Over, history
  <2> QED
    BY <2>1, RunnerKeeps
<1>3. CASE GaveUp(w)
  <2>1. RunnerStep(w, "idle") /\ Arrives(w, "idle")
    BY <1>1, <1>3 DEF GaveUp, Go, RunnerStep, Arrives, Places, Over, history
  <2> QED
    BY <2>1, RunnerKeeps
<1>4. CASE Claim(w)
  <2>1. PICK p \in {"failed", "succeeded"} :
          /\ p = IF Quarantined(w) THEN "failed" ELSE "succeeded"
          /\ Send(w, p)
    BY <1>4 DEF Claim
  <2>2. pc[w] = "claim" /\ Earned(att[w]) /\ UNCHANGED <<server, att, ok, stopping, quarantined, history>>
    BY <1>4 DEF Claim, OutcomeEarned
  <2>3. p = "succeeded" => att[w] \notin early
    BY <2>1 DEF EarlySeen, Quarantined
  <2>4. RunnerStep(w, p)
    BY <1>1, <2>1, <2>2 DEF Send, Go, RunnerStep, Places, Waiting, history
  <2>5. Earned(att[w])'
    BY <2>2 DEF Earned, history, server
  <2>6. Arrives(w, p)
    BY <2>2, <2>3, <2>5 DEF Arrives, Over
  <2> QED
    BY <2>4, <2>6, RunnerKeeps
<1>5. CASE Claimed(w)
  <2>1. PICK p \in {"failed", "idle"} : RunnerStep(w, p) /\ Arrives(w, p)
    <3>1. CASE Quarantined(w)
      <4>1. RunnerStep(w, "failed") /\ Arrives(w, "failed")
        BY <1>1, <1>5, <3>1 DEF Claimed, Send, Go, RunnerStep, Arrives, Places, Waiting, Over, history
      <4> QED
        BY <4>1
    <3>2. CASE ~ Quarantined(w)
      <4>1. RunnerStep(w, "idle") /\ Arrives(w, "idle")
        BY <1>1, <1>5, <3>2 DEF Claimed, Go, RunnerStep, Arrives, Places, Waiting, Over, history
      <4> QED
        BY <4>1
    <3> QED
      BY <3>1, <3>2
  <2> QED
    BY <2>1, RunnerKeeps
<1> QED
  BY <1>2, <1>3, <1>4, <1>5

\* The checkout and the scanner, with or without an output.
LEMMA RunningSteps ==
  ASSUME WorkerInv, NEW w \in Workers, Prepare(w) \/ Scanned(w)
  PROVE  WorkerInv'
<1> USE DEF WorkerInv
<1>1. ok \in [Workers -> BOOLEAN] /\ reply \in [Workers -> {"none", "ok", "refused"}]
  BY DEF TypeOK
<1>2. /\ pc[w] \in {"prepare", "run"} /\ att[w] \notin owed /\ att[w] \notin cut
      /\ UNCHANGED <<server, att, stopping, quarantined, early>>
      /\ cut' = cut \/ cut' = cut \cup {att[w]}
      /\ ~ Cancelled(w) => cut' = cut
  BY DEF Prepare, Scanned, Fresh, Cancelled
<1>3. \/ Go(w, "join") /\ ok' = [ok EXCEPT ![w] = FALSE] /\ UNCHANGED <<net, reply, owed>>
      \/ pc[w] = "prepare" /\ ~ Cancelled(w) /\ Go(w, "run") /\ UNCHANGED <<net, ok, reply, owed>>
      \/ ~ Cancelled(w) /\ Go(w, "join") /\ ok' = [ok EXCEPT ![w] = TRUE] /\ UNCHANGED <<net, reply, owed>>
      \/ ~ Cancelled(w) /\ Send(w, "output") /\ owed' = owed \cup {att[w]} /\ UNCHANGED ok
  BY DEF Prepare, Scanned
<1>4. CASE Go(w, "join") /\ ok' = [ok EXCEPT ![w] = FALSE] /\ UNCHANGED <<net, reply, owed>>
  <2>1. RunnerStep(w, "join") /\ Arrives(w, "join")
    <3>1. /\ ok' \in [Workers -> BOOLEAN] /\ ~ ok'[w] /\ \A v \in Workers \ {w} : ok'[v] = ok[v]
      BY <1>1, <1>4
    <3> QED
      BY <1>1, <1>2, <1>4, <3>1 DEF Go, RunnerStep, Arrives, Places, Over
  <2> QED
    BY <2>1, RunnerKeeps
<1>5. CASE pc[w] = "prepare" /\ ~ Cancelled(w) /\ Go(w, "run") /\ UNCHANGED <<net, ok, reply, owed>>
  <2>1. RunnerStep(w, "run") /\ Arrives(w, "run")
    BY <1>1, <1>2, <1>5 DEF Go, RunnerStep, Arrives, Places, Over
  <2> QED
    BY <2>1, RunnerKeeps
<1>6. CASE ~ Cancelled(w) /\ Go(w, "join") /\ ok' = [ok EXCEPT ![w] = TRUE] /\ UNCHANGED <<net, reply, owed>>
  <2>1. RunnerStep(w, "join") /\ Arrives(w, "join")
    <3>1. /\ ok' \in [Workers -> BOOLEAN] /\ \A v \in Workers \ {w} : ok'[v] = ok[v]
      BY <1>1, <1>6
    <3>2. Earned(att[w])'
      BY <1>2, <1>6 DEF Earned
    <3> QED
      BY <1>1, <1>2, <1>6, <3>1, <3>2 DEF Go, RunnerStep, Arrives, Places, Over
  <2> QED
    BY <2>1, RunnerKeeps
<1>7. CASE ~ Cancelled(w) /\ Send(w, "output") /\ owed' = owed \cup {att[w]} /\ UNCHANGED ok
  <2>1. RunnerStep(w, "output") /\ Arrives(w, "output")
    BY <1>1, <1>2, <1>7 DEF Send, Go, RunnerStep, Arrives, Places, Waiting, Over
  <2> QED
    BY <2>1, RunnerKeeps
<1> QED
  BY <1>3, <1>4, <1>5, <1>6, <1>7

\* The submission is over, and the outcome is looked at.
LEMMA OutcomeSteps ==
  ASSUME WorkerInv, NEW w \in Workers, OutputDone(w) \/ Join(w)
  PROVE  WorkerInv'
<1> USE DEF WorkerInv
<1>1. ok \in [Workers -> BOOLEAN] /\ reply \in [Workers -> {"none", "ok", "refused"}]
  BY DEF TypeOK
<1>2. CASE OutputDone(w)
  <2>1. /\ pc[w] = "output" /\ Go(w, "join") /\ att[w] \notin cut
        /\ UNCHANGED <<server, net, att, reply, stopping, quarantined, history>>
    BY <1>2 DEF OutputDone, OutputAnswered
  <2>2. /\ ok' \in [Workers -> BOOLEAN] /\ \A v \in Workers \ {w} : ok'[v] = ok[v]
        /\ ok'[w] => reply[w] = "ok"
    BY <1>1, <1>2 DEF OutputDone
  <2>3. ok'[w] => Earned(att[w])'
    BY <2>1, <2>2 DEF OutputAnswered, Earned, history, server
  <2>4. RunnerStep(w, "join") /\ Arrives(w, "join")
    BY <1>1, <2>1, <2>2, <2>3 DEF Go, RunnerStep, Arrives, Places, Over, history
  <2> QED
    BY <2>4, RunnerKeeps
<1>3. CASE Join(w)
  <2>1. /\ pc[w] = "join" /\ UNCHANGED <<server, att, stopping, quarantined, history>>
        /\ ok' \in [Workers -> BOOLEAN] /\ \A v \in Workers \ {w} : ok'[v] = ok[v]
    BY <1>1, <1>3 DEF Join
  <2>2. CASE ok[w] /\ ~ Cancelled(w)
    <3>1. Go(w, "claim") /\ UNCHANGED <<net, reply>>
      BY <1>3, <2>2 DEF Join
    <3>2. Earned(att[w])'
      BY <2>1, <2>2 DEF OutcomeEarned, Earned, history, server
    <3>3. RunnerStep(w, "claim") /\ Arrives(w, "claim")
      BY <1>1, <2>1, <3>1, <3>2 DEF Go, RunnerStep, Arrives, Places, Over, history
    <3> QED
      BY <3>3, RunnerKeeps
  <2>3. CASE ~ (ok[w] /\ ~ Cancelled(w))
    <3>1. Send(w, "failed")
      BY <1>3, <2>3 DEF Join
    <3>2. RunnerStep(w, "failed") /\ Arrives(w, "failed")
      BY <1>1, <2>1, <3>1 DEF Send, Go, RunnerStep, Arrives, Places, Waiting, Over, history
    <3> QED
      BY <3>2, RunnerKeeps
  <2> QED
    BY <2>2, <2>3
<1> QED
  BY <1>2, <1>3

(***************************************************************************)
(* What happens to a runner                                                 *)
(***************************************************************************)
\* A heartbeat leaves, or the process is told to stop.
LEMMA SmallSteps ==
  ASSUME WorkerInv, NEW w \in Workers, Heartbeat(w) \/ Stop(w)
  PROVE  WorkerInv'
<1> USE DEF WorkerInv
<1>1. UNCHANGED <<server, pc, att, ok, reply, quarantined, history>>
  BY DEF Heartbeat, Stop, worker
<1>2. /\ net' \subseteq [kind : Kinds, attempt : 1 .. job.attempt]
      /\ \A m \in net' : m.kind = "succeeded" => m \in net
      /\ stopping' \in [Workers -> BOOLEAN]
  <2>1. CASE Heartbeat(w)
    <3>1. att[w] \in 1 .. job.attempt
      BY <2>1 DEF Heartbeat, Beating, TypeOK, RunnerOwns
    <3> QED
      BY <2>1, <3>1 DEF Heartbeat, TypeOK, worker, Kinds
  <2>2. CASE Stop(w)
    BY <2>2 DEF Stop, TypeOK
  <2> QED
    BY <2>1, <2>2
<1>3. TypeOK'
  BY <1>1, <1>2 DEF TypeOK, server, history
<1>4. AttemptsLeft' /\ RunnerOwns' /\ Fresh' /\ OutputAnswered' /\ EarlySeen' /\ DecidedByHolder'
  BY <1>1 DEF AttemptsLeft, RunnerOwns, Fresh, OutputAnswered, EarlySeen, DecidedByHolder, server, history
<1>5. OutcomeEarned' /\ \A a : Won(a)' <=> Won(a)
  BY <1>1 DEF OutcomeEarned, Won, Earned, Past, server, history
<1>6. ClaimsWon' /\ DecidedWon'
  BY <1>1, <1>2, <1>5 DEF ClaimsWon, DecidedWon, server
<1> QED
  BY <1>3, <1>4, <1>5, <1>6

\* A watched value is seen: it counts as early only while nothing was claimed.
LEMMA HitStep ==
  ASSUME WorkerInv, NEW w \in Workers, Hit(w)
  PROVE  WorkerInv'
<1> USE DEF WorkerInv
<1>1. /\ UNCHANGED <<server, net, pc, att, ok, reply, stopping, owed, cut>>
      /\ pc[w] \notin {"idle", "poll"}
      /\ quarantined' = quarantined \cup {att[w]}
      /\ early' = early \/ (pc[w] \notin Over /\ early' = early \cup {att[w]})
  BY DEF Hit, Waiting, Over
<1>2. att[w] \in 1 .. job.attempt
  BY <1>1 DEF TypeOK, RunnerOwns
<1>3. TypeOK'
  BY <1>1, <1>2 DEF TypeOK, server
<1>4. AttemptsLeft' /\ RunnerOwns' /\ Fresh' /\ OutputAnswered' /\ EarlySeen' /\ DecidedByHolder'
      /\ OutcomeEarned'
  BY <1>1 DEF AttemptsLeft, RunnerOwns, Fresh, OutputAnswered, EarlySeen, DecidedByHolder, OutcomeEarned,
              Earned, server
<1>5. \A a : Won(a) => Won(a)'
  BY <1>1 DEF Won, Earned, Past, server
<1>6. ClaimsWon' /\ DecidedWon'
  BY <1>1, <1>5 DEF ClaimsWon, DecidedWon, server
<1> QED
  BY <1>3, <1>4, <1>5, <1>6

\* The process starts again and knows of no attempt.
LEMMA RestartStep ==
  ASSUME WorkerInv, NEW w \in Workers, Restart(w)
  PROVE  WorkerInv'
<1> USE DEF WorkerInv
<1>1. /\ UNCHANGED <<server, net, quarantined, history>>
      /\ pc' \in [Workers -> Places] /\ att' \in [Workers -> 0 .. job.attempt]
      /\ ok' \in [Workers -> BOOLEAN] /\ stopping' \in [Workers -> BOOLEAN]
      /\ reply' \in [Workers -> {"none", "ok", "refused"}]
      /\ pc'[w] = "idle" /\ att'[w] = 0
      /\ \A v \in Workers : v # w =>
           pc'[v] = pc[v] /\ att'[v] = att[v] /\ ok'[v] = ok[v] /\ reply'[v] = reply[v]
  <2>1. 0 \in 0 .. job.attempt
    BY DEF TypeOK
  <2> QED
    BY <2>1 DEF Restart, TypeOK, Places
<1>2. TypeOK'
  BY <1>1 DEF TypeOK, Places, server, history
<1>3. AttemptsLeft' /\ RunnerOwns' /\ Fresh' /\ OutputAnswered' /\ EarlySeen' /\ DecidedByHolder'
  BY <1>1 DEF AttemptsLeft, RunnerOwns, Fresh, OutputAnswered, EarlySeen, DecidedByHolder, server, history
<1>4. OutcomeEarned'
  BY <1>1 DEF OutcomeEarned, Earned, server, history
<1>5. \A a : Won(a) => Won(a)'
  BY <1>1 DEF Won, Earned, Past, Over, server, history
<1>6. ClaimsWon' /\ DecidedWon'
  BY <1>1, <1>5 DEF ClaimsWon, DecidedWon, server
<1> QED
  BY <1>2, <1>3, <1>4, <1>6

(***************************************************************************)
(* The server                                                               *)
(***************************************************************************)
\* A lease is an attempt nobody has heard of.
LEMMA LeaseStep ==
  ASSUME WorkerInv, NEW w \in Workers, Lease(w)
  PROVE  WorkerInv'
<1> USE DEF WorkerInv
<1>1. PICK a : a = job.attempt + 1
  OBVIOUS
<1>2. job.attempt \in Nat /\ a \in Nat /\ a \in 1 .. MaxAttempts /\ MaxAttempts \in Nat /\ LeaseTime \in Nat
  BY <1>1, BoundsAssumption DEF Lease, AttemptsLeft, TypeOK
<1>3. /\ 1 .. job.attempt \subseteq 1 .. a /\ 0 .. job.attempt \subseteq 0 .. a
      /\ a \notin 0 .. job.attempt /\ a \in 1 .. a /\ a # 0
  BY <1>1, <1>2
<1>4. /\ pc[w] = "poll" /\ job.state = "queued"
      /\ job' = [state |-> "leased", attempt |-> a, left |-> LeaseTime]
      /\ owner' = [i \in 1 .. a |-> IF i = a THEN w ELSE owner[i]]
      /\ \/ Go(w, "prepare") /\ att' = [att EXCEPT ![w] = a]
         \/ Go(w, "idle") /\ att' = att
      /\ UNCHANGED <<by, accepted, net, ok, reply, stopping, quarantined, history>>
  BY <1>1 DEF Lease
<1>5. /\ job'.attempt = a /\ job'.state = "leased"
      /\ job' \in [state : {"queued", "leased"} \cup Decided, attempt : 0 .. MaxAttempts, left : -1 .. LeaseTime]
  BY <1>2, <1>4
<1>6. /\ owner' \in [1 .. a -> Workers] /\ owner'[a] = w /\ \A i \in 1 .. job.attempt : owner'[i] = owner[i]
  <2>1. \A i \in 1 .. a : i = a \/ i \in 1 .. job.attempt
    BY <1>1, <1>2
  <2>2. owner \in [1 .. job.attempt -> Workers]
    BY DEF TypeOK
  <2> QED
    BY <1>3, <1>4, <2>1, <2>2
<1>7. /\ pc' \in [Workers -> Places] /\ att' \in [Workers -> 0 .. a]
      /\ \A v \in Workers : v # w => pc'[v] = pc[v] /\ att'[v] = att[v]
      /\ \/ pc'[w] = "prepare" /\ att'[w] = a
         \/ pc'[w] = "idle" /\ att'[w] = att[w]
      /\ \A v \in Workers : att[v] \in 0 .. job.attempt
  <2>1. pc \in [Workers -> Places] /\ att \in [Workers -> 0 .. job.attempt]
    BY DEF TypeOK, Places
  <2>2. att \in [Workers -> 0 .. a]
    BY <1>3, <2>1
  <2>3. a \in 0 .. a /\ \A v \in Workers : att[v] \in 0 .. job.attempt
    BY <1>2, <2>1
  <2>4. CASE Go(w, "prepare") /\ att' = [att EXCEPT ![w] = a]
    BY <2>1, <2>2, <2>3, <2>4 DEF Go, Places
  <2>5. CASE Go(w, "idle") /\ att' = att
    BY <2>1, <2>2, <2>3, <2>5 DEF Go, Places
  <2> QED
    BY <1>4, <2>4, <2>5
<1>8. by = 0
  BY <1>4 DEF DecidedByHolder, Decided
<1>9. TypeOK'
  <2>1. {quarantined, accepted, owed, cut, early} \subseteq SUBSET (1 .. a)
    BY <1>3 DEF TypeOK
  <2>2. net \subseteq [kind : Kinds, attempt : 1 .. a]
    BY <1>3 DEF TypeOK
  <2>3. by \in 0 .. a
    BY <1>2, <1>8
  <2> QED
    BY <1>4, <1>5, <1>6, <1>7, <2>1, <2>2, <2>3 DEF TypeOK, Places, history
<1>10. a \notin owed /\ a \notin cut /\ a \notin early /\ \A m \in net : m.attempt # a
  BY <1>3 DEF TypeOK
<1>11. AttemptsLeft' /\ EarlySeen' /\ DecidedByHolder' /\ DecidedWon'
  BY <1>4, <1>5, <1>8 DEF AttemptsLeft, EarlySeen, DecidedByHolder, DecidedWon, history
<1>12. RunnerOwns'
  BY <1>3, <1>4, <1>6, <1>7 DEF RunnerOwns
<1>13. Fresh' /\ OutputAnswered'
  BY <1>4, <1>7, <1>10 DEF Fresh, OutputAnswered, history
<1>14. OutcomeEarned'
  BY <1>4, <1>7 DEF OutcomeEarned, Earned, history
<1>15. ClaimsWon'
  <2> SUFFICES ASSUME NEW m \in net, m.kind = "succeeded"
               PROVE  Won(m.attempt)'
    BY <1>4 DEF ClaimsWon
  <2>1. Won(m.attempt) /\ m.attempt # a
    BY <1>10 DEF ClaimsWon
  <2> QED
    BY <1>4, <1>7, <2>1 DEF Won, Earned, Past, Over, history
<1> QED
  BY <1>9, <1>11, <1>12, <1>13, <1>14, <1>15

\* A request arrives, late or not: only the holder of a live lease changes anything.
LEMMA ArriveStep ==
  ASSUME WorkerInv, NEW m \in net, Arrive(m)
  PROVE  WorkerInv'
<1> USE DEF WorkerInv
<1>1. PICK w : w = owner[m.attempt]
  OBVIOUS
<1>2. m.kind \in Kinds /\ m.attempt \in 1 .. job.attempt /\ w \in Workers /\ m.attempt # 0
  BY <1>1 DEF TypeOK
<1>3. /\ net' = net \ {m} /\ UNCHANGED <<owner, pc, att, ok, stopping, quarantined, history>>
      /\ reply' \in [Workers -> {"none", "ok", "refused"}]
      /\ accepted \subseteq accepted' /\ accepted' \subseteq accepted \cup {m.attempt}
  BY <1>1, <1>2 DEF Arrive, TypeOK
<1>4. \A v \in Workers : pc[v] = "output" /\ reply'[v] = "ok" =>
        reply[v] = "ok" \/ att[v] \in accepted'
  <2> SUFFICES ASSUME NEW v \in Workers, pc[v] = "output", reply'[v] = "ok", reply[v] # "ok"
               PROVE  att[v] \in accepted'
    OBVIOUS
  <2>1. v = w /\ att[w] = m.attempt /\ pc[w] = m.kind /\ Authorised(m.attempt)
    BY <1>1, <1>2 DEF Arrive, TypeOK
  <2> QED
    BY <2>1 DEF Arrive
<1>5. \/ job' = job /\ by' = by
      \/ job.state = "leased" /\ job' = [job EXCEPT !.left = LeaseTime] /\ by' = by
      \/ /\ job.state = "leased" /\ m.attempt = job.attempt /\ m.kind \in Decided
         /\ job' = [job EXCEPT !.state = m.kind, !.left = -1] /\ by' = m.attempt
  BY <1>2 DEF Arrive, Authorised, Kinds, Decided
<1>6. /\ job'.attempt = job.attempt
      /\ job' \in [state : {"queued", "leased"} \cup Decided, attempt : 0 .. MaxAttempts, left : -1 .. LeaseTime]
      /\ \/ job'.state = job.state /\ by' = by
         \/ job.state = "leased" /\ m.attempt = job.attempt /\ m.kind \in Decided /\ job'.state = m.kind /\ by' = m.attempt
  <2>1. job \in [state : {"queued", "leased"} \cup Decided, attempt : 0 .. MaxAttempts, left : -1 .. LeaseTime]
        /\ LeaseTime \in -1 .. LeaseTime /\ -1 \in -1 .. LeaseTime
    BY BoundsAssumption DEF TypeOK
  <2> QED
    BY <1>5, <2>1
<1>7. TypeOK'
  <2>1. by' \in 0 .. job.attempt
    BY <1>2, <1>6 DEF TypeOK
  <2>2. accepted' \in SUBSET (1 .. job.attempt)
    BY <1>2, <1>3 DEF TypeOK
  <2> QED
    BY <1>3, <1>6, <2>1, <2>2 DEF TypeOK, history
<1>8. AttemptsLeft' /\ RunnerOwns' /\ Fresh' /\ EarlySeen'
  BY <1>3, <1>6 DEF AttemptsLeft, RunnerOwns, Fresh, EarlySeen, history, Decided
<1>9. OutputAnswered'
  BY <1>3, <1>4 DEF OutputAnswered, history
<1>10. OutcomeEarned' /\ \A a : Won(a) => Won(a)'
  BY <1>3 DEF OutcomeEarned, Won, Earned, Past, history
<1>11. ClaimsWon'
  BY <1>3, <1>10 DEF ClaimsWon
<1>12. DecidedByHolder'
  BY <1>6 DEF DecidedByHolder
<1>13. DecidedWon'
  BY <1>2, <1>6, <1>10 DEF DecidedWon, ClaimsWon
<1> QED
  BY <1>7, <1>8, <1>9, <1>10, <1>11, <1>12, <1>13

\* The clock and the reaper: an attempt that was reaped decides nothing any more.
LEMMA ServerSteps ==
  ASSUME WorkerInv, Tick \/ Reap
  PROVE  WorkerInv'
<1> USE DEF WorkerInv
<1>1. UNCHANGED <<by, owner, accepted, net, worker, history>> /\ job.state = "leased"
  BY DEF Tick, Reap
<1>2. /\ job \in [state : {"queued", "leased"} \cup Decided, attempt : 0 .. MaxAttempts, left : -1 .. LeaseTime]
      /\ LeaseTime \in Nat /\ MaxAttempts \in Nat
  BY BoundsAssumption DEF TypeOK
<1>3. /\ job'.attempt = job.attempt /\ job'.state \in {"leased", "queued", "failed"}
      /\ job'.state = "queued" => job.attempt < MaxAttempts
      /\ job' \in [state : {"queued", "leased"} \cup Decided, attempt : 0 .. MaxAttempts, left : -1 .. LeaseTime]
  <2>1. CASE Tick
    <3>1. job.left - 1 \in -1 .. LeaseTime
      BY <1>2, <2>1 DEF Tick
    <3> QED
      BY <1>1, <1>2, <2>1, <3>1 DEF Tick
  <2>2. CASE Reap
    BY <1>2, <2>2 DEF Reap, Decided
  <2> QED
    BY <2>1, <2>2
<1>4. by = 0
  BY <1>1 DEF DecidedByHolder, Decided
<1>5. TypeOK'
  BY <1>1, <1>3 DEF TypeOK, worker, history
<1>6. AttemptsLeft' /\ DecidedByHolder' /\ DecidedWon'
  BY <1>1, <1>3, <1>4 DEF AttemptsLeft, DecidedByHolder, DecidedWon
<1>7. RunnerOwns' /\ Fresh' /\ OutputAnswered' /\ EarlySeen' /\ OutcomeEarned'
  BY <1>1 DEF RunnerOwns, Fresh, OutputAnswered, EarlySeen, OutcomeEarned, Earned, worker, history
<1>8. ClaimsWon'
  BY <1>1 DEF ClaimsWon, Won, Earned, Past, worker, history
<1> QED
  BY <1>5, <1>6, <1>7, <1>8

(***************************************************************************)
(* The theorem                                                              *)
(***************************************************************************)
\* A job is decided by the attempt that holds it, and a recorded success means stored output of a
\* run that was neither cut short nor quarantined before it claimed success, whatever the
\* network loses, delays or delivers late and however often workers die (runner.rs).
THEOREM ResultsAreSound == Spec => []ResultsSound
<1>1. WorkerInv /\ [Next]_vars => WorkerInv'
  <2> SUFFICES ASSUME WorkerInv, [Next]_vars
               PROVE  WorkerInv'
    OBVIOUS
  <2>1. ASSUME NEW w \in Workers,
               \/ Progress(w) \/ Poll(w) \/ Lease(w) \/ Heartbeat(w) \/ Hit(w) \/ Stop(w) \/ Restart(w)
        PROVE  WorkerInv'
    <3>1. CASE Poll(w) \/ PollEmpty(w) \/ GaveUp(w) \/ Claim(w) \/ Claimed(w)
      BY <3>1, QuietRunner
    <3>2. CASE Prepare(w) \/ Scanned(w)
      BY <3>2, RunningSteps
    <3>3. CASE OutputDone(w) \/ Join(w)
      BY <3>3, OutcomeSteps
    <3>4. CASE Heartbeat(w) \/ Stop(w)
      BY <3>4, SmallSteps
    <3>5. CASE Hit(w)
      BY <3>5, HitStep
    <3>6. CASE Restart(w)
      BY <3>6, RestartStep
    <3>7. CASE Lease(w)
      BY <3>7, LeaseStep
    <3> QED
      BY <2>1, <3>1, <3>2, <3>3, <3>4, <3>5, <3>6, <3>7 DEF Progress
  <2>2. CASE \E m \in net : Arrive(m)
    BY <2>2, ArriveStep
  <2>3. CASE Tick \/ Reap
    BY <2>3, ServerSteps
  <2>4. CASE UNCHANGED vars
    <3>1. UNCHANGED <<job, by, owner, accepted, net, pc, att, ok, reply, stopping, quarantined, owed, cut, early>>
      BY <2>4 DEF vars, server, worker, history
    <3>2. TypeOK' /\ AttemptsLeft' /\ RunnerOwns' /\ Fresh' /\ OutputAnswered' /\ EarlySeen' /\ DecidedByHolder'
      BY <3>1 DEF WorkerInv, TypeOK, AttemptsLeft, RunnerOwns, Fresh, OutputAnswered, EarlySeen, DecidedByHolder
    <3>3. OutcomeEarned' /\ ClaimsWon' /\ DecidedWon'
      BY <3>1 DEF WorkerInv, OutcomeEarned, ClaimsWon, DecidedWon, Won, Earned, Past
    <3> QED
      BY <3>2, <3>3 DEF WorkerInv
  <2> QED
    BY <2>1, <2>2, <2>3, <2>4 DEF Next
<1> QED
  BY <1>1, WorkerInitial, WorkerImplied, PTL DEF Spec
===============================================================================
