---------------------------- MODULE AgentSession ----------------------------
(***************************************************************************)
(* One invocation of an agent by a worker (ClaudeCliBackend and             *)
(* CodexCliBackend `run`, which agree line for line): the sandboxed child,  *)
(* the MCP broker that serves its tool calls on the host, the buffer of a   *)
(* verify session and its flush, and the order in which the worker kills,   *)
(* drains and gives up.  The broker is a task of its own: it goes on while  *)
(* the worker waits for the child.  A record the sandbox wrote stays in the *)
(* socket after the child is dead.  Model requests are ModelBroker's.       *)
(***************************************************************************)
EXTENDS Naturals, Sequences

CONSTANTS Findings, Patches, GoodPatches, None

VARIABLES
  mode,     \* "verify" or "scan": the request has a finding id or has none
  child,    \* the sandboxed process
  stream,   \* its connection to the broker: one per invocation
  record,   \* what the sandbox wrote and the broker has not read
  broker,   \* the broker's task and, at its end, why it ended
  call,     \* the tool call the broker is in
  buffer,   \* VerifySessionInner
  hit,      \* the job is quarantined (JobSecurity)
  main,     \* the worker's own steps
  shutdown, \* finish has told the broker to stop listening
  result,   \* what `run` returns
  server,   \* what the server stored: verdicts in the order of their arrival, findings
  acked     \* what the broker told the agent it has accepted

vars == <<mode, child, stream, record, broker, call, buffer, hit, main, shutdown, result,
          server, acked>>

taskVars == <<broker, call, buffer, server, acked>>

Verdicts == {"confirmed", "dismissed", "inconclusive"}

ConstantsOK ==
  /\ None \notin Findings \cup Patches \cup Verdicts
  /\ GoodPatches \subseteq Patches

Tools == [tool : {"verdict"}, arg : Verdicts] \cup [tool : {"patch"}, arg : Patches]
           \cup [tool : {"finding"}, arg : Findings]

NoCall == [tool |-> "none", arg |-> None]
Empty == [verdict |-> None, patch |-> None]

\* Where the broker's task can be between two awaits, and where it stays.
Serving == {"listening", "reading", "validating", "submitting", "flushing"}
Ended == {"done", "refused", "unanswered", "no_verdict", "quarantined", "aborted"}

Init ==
  /\ mode \in {"verify", "scan"}
  /\ child = "running"
  /\ stream = "none"
  /\ record = NoCall
  /\ broker = "listening"
  /\ call = NoCall
  /\ buffer = Empty
  /\ hit = FALSE
  /\ main = "driving"
  /\ shutdown = FALSE
  /\ result = "none"
  /\ server = [verdicts |-> <<>>, findings |-> {}]
  /\ acked = [verdict |-> None, patch |-> None, findings |-> {}]

(***************************************************************************)
(* The sandbox                                                              *)
(***************************************************************************)
Alive == child \in {"running", "unkillable"}

Connect ==
  /\ Alive
  /\ stream = "none"
  /\ broker = "listening"
  /\ stream' = "open"
  /\ UNCHANGED <<mode, child, record, hit, main, shutdown, result, taskVars>>

Write(request) ==
  /\ Alive
  /\ stream = "open"
  /\ record = NoCall
  /\ record' = request
  /\ UNCHANGED <<mode, child, stream, hit, main, shutdown, result, taskVars>>

\* The proxy closes its end; it does at the latest with the death of the sandbox.
Close ==
  /\ stream = "open"
  /\ stream' = "closed"
  /\ UNCHANGED <<mode, child, record, hit, main, shutdown, result, taskVars>>

Exit(status) ==
  /\ child = "running"
  /\ child' = status
  /\ UNCHANGED <<mode, stream, record, hit, main, shutdown, result, taskVars>>

\* A credential is seen in a request of any session of the job.
Quarantine ==
  /\ ~ hit
  /\ hit' = TRUE
  /\ UNCHANGED <<mode, child, stream, record, main, shutdown, result, taskVars>>

(***************************************************************************)
(* The broker's task.  Every await runs under JobSecurity::run: a hit ends  *)
(* it, here at its next step.                                               *)
(***************************************************************************)
Answer(next, a) == broker' = next /\ call' = NoCall /\ acked' = a

\* accept is preferred to the shutdown signal.
Accept ==
  /\ broker = "listening"
  /\ stream # "none"
  /\ broker' = "reading"
  /\ UNCHANGED <<call, buffer, server, acked, record>>

Unclaimed ==
  /\ broker = "listening"
  /\ stream = "none"
  /\ shutdown
  /\ broker' = "done"
  /\ UNCHANGED <<call, buffer, server, acked, record>>

\* Reads one record.  The record may itself show a credential (Quarantine before it).
Read ==
  /\ broker = "reading"
  /\ record # NoCall
  /\ call' = record
  /\ record' = NoCall
  /\ broker' = "validating"
  /\ UNCHANGED <<buffer, server, acked>>

SubmitVerdict ==
  /\ broker = "validating"
  /\ call.tool = "verdict"
  /\ IF mode = "verify" /\ buffer.verdict = None
     THEN /\ buffer' = [buffer EXCEPT !.verdict = call.arg]
          /\ Answer("reading", [acked EXCEPT !.verdict = call.arg])
     ELSE Answer("reading", acked) /\ UNCHANGED buffer
  /\ UNCHANGED <<server, record>>

PatchAllowed == mode = "verify" /\ buffer.verdict = "confirmed" /\ buffer.patch = None

\* The slot is checked before and after the finding is fetched and the diff is tried; no
\* other call of the session runs in between.  A patch that does not apply, or whose
\* report would be too long, leaves the slot free; so does a failed fetch.
SubmitPatch ==
  /\ broker = "validating"
  /\ call.tool = "patch"
  /\ \/ /\ PatchAllowed /\ call.arg \in GoodPatches
        /\ buffer' = [buffer EXCEPT !.patch = call.arg]
        /\ Answer("reading", [acked EXCEPT !.patch = call.arg])
     \/ Answer("reading", acked) /\ UNCHANGED buffer
  /\ UNCHANGED <<server, record>>

\* The citation and the PoC are checked against the checkout, then the finding is sent.
SubmitFinding ==
  /\ broker = "validating"
  /\ call.tool = "finding"
  /\ \/ broker' = "submitting" /\ UNCHANGED <<call, acked>>
     \/ Answer("reading", acked)
  /\ UNCHANGED <<buffer, server, record>>

\* The request reaches the server; its answer may yet be lost.
FindingStored ==
  /\ broker = "submitting"
  /\ server' = [server EXCEPT !.findings = @ \cup {call.arg}]
  /\ UNCHANGED <<broker, call, buffer, acked, record>>

FindingAnswered ==
  /\ broker = "submitting"
  /\ \/ /\ call.arg \in server.findings
        /\ Answer("reading", [acked EXCEPT !.findings = @ \cup {call.arg}])
     \/ Answer("reading", acked)
  /\ UNCHANGED <<buffer, server, record>>

\* The stream has ended and every record of it was read.
EndOfStream ==
  /\ broker = "reading"
  /\ record = NoCall
  /\ stream = "closed"
  /\ broker' = IF mode = "scan" THEN "done"
               ELSE IF buffer.verdict = None THEN "no_verdict" ELSE "flushing"
  /\ UNCHANGED <<call, buffer, server, acked, record>>

\* flush_verify_session: one request with the verdict and, if confirmed, its patch.
VerdictStored ==
  /\ broker = "flushing"
  /\ server.verdicts = <<>>
  /\ server' = [server EXCEPT !.verdicts = Append(@, buffer)]
  /\ UNCHANGED <<broker, call, buffer, acked, record>>

VerdictAnswered ==
  /\ broker = "flushing"
  /\ broker' \in (IF server.verdicts # <<>> THEN {"done", "unanswered"} ELSE {"refused"})
  /\ UNCHANGED <<call, buffer, server, acked, record>>

\* A broken record, a failed write or read ends the session without a flush.
StreamFails ==
  /\ broker \in {"reading", "validating"}
  /\ broker' = "refused"
  /\ UNCHANGED <<call, buffer, server, acked, record>>

SeesHit ==
  /\ broker \in Serving \ {"listening"}
  /\ hit
  /\ broker' = "quarantined"
  /\ UNCHANGED <<call, buffer, server, acked, record>>

\* What needs the hit to be unpublished: admission is checked right before each of these.
Admitted ==
  \/ Read \/ SubmitVerdict \/ SubmitPatch \/ SubmitFinding \/ FindingAnswered \/ EndOfStream
  \/ VerdictAnswered

Task ==
  /\ \/ ~ hit /\ Admitted
     \/ Accept \/ Unclaimed \/ FindingStored \/ VerdictStored \/ StreamFails \/ SeesHit
  /\ UNCHANGED <<mode, child, stream, hit, main, shutdown, result>>

\* Aborted without being awaited, the task may be in the middle of a step on another
\* thread: it takes one step at most.
LastStep ==
  /\ main = "returned"
  /\ broker \in Serving
  /\ broker' = "aborted"
  /\ \/ UNCHANGED server
     \/ broker = "submitting" /\ server' = [server EXCEPT !.findings = @ \cup {call.arg}]
     \/ /\ broker = "flushing" /\ server.verdicts = <<>>
        /\ server' = [server EXCEPT !.verdicts = Append(@, buffer)]
  /\ UNCHANGED <<mode, child, stream, record, call, buffer, hit, main, shutdown, result, acked>>

(***************************************************************************)
(* The worker                                                               *)
(***************************************************************************)
\* drive ends with the child: its status and its output are collected.
ChildEnds ==
  /\ main = "driving"
  /\ child \in {"succeeded", "failed"}
  /\ main' = "draining"
  /\ shutdown' = TRUE
  /\ result' = IF child = "succeeded" THEN "ok" ELSE "failed"
  /\ UNCHANGED <<mode, child, stream, record, hit, taskVars>>

\* Fault: an agent that had to be killed takes its broker with it.
CutShortDropping ==
  /\ main = "driving"
  /\ child' = IF child = "running" THEN "killed" ELSE child
  /\ broker' = IF broker \in Serving THEN "aborted" ELSE broker
  /\ main' = "returned"
  /\ result' = "failed"
  /\ UNCHANGED <<mode, stream, record, call, buffer, hit, shutdown, server, acked>>

\* The deadline of the request, a cancellation, the quarantine or a failed pipe: the child
\* is killed and reaped before anything else.
CutShort ==
  /\ main = "driving"
  /\ child' = IF child = "running" THEN "killed" ELSE child
  /\ main' = "draining"
  /\ shutdown' = TRUE
  /\ result' = "failed"
  /\ UNCHANGED <<mode, stream, record, hit, taskVars>>

\* The kill fails: the brokers are dropped, which aborts their tasks.
KillFails ==
  /\ main = "driving"
  /\ child' = IF child = "running" THEN "unkillable" ELSE child
  /\ main' = "returned"
  /\ result' = "abandoned"
  /\ UNCHANGED <<mode, stream, record, hit, shutdown, taskVars>>

Returns(ended) ==
  /\ main' = "returned"
  /\ result' \in {IF hit \/ ended # "done" THEN "failed" ELSE result, "failed"}

\* finish: the task has ended.  The model broker, the output's length and its encoding
\* may still fail the run.
Drained ==
  /\ main = "draining"
  /\ broker \in Ended
  /\ Returns(broker)
  /\ UNCHANGED <<mode, child, stream, record, hit, shutdown, taskVars>>

\* Fault: the task is left running when its time is up.
DrainTimeoutDetached ==
  /\ main = "draining"
  /\ broker \in Serving
  /\ Returns("aborted")
  /\ UNCHANGED <<mode, child, stream, record, hit, shutdown, taskVars>>

\* The shutdown timeout: the task is aborted and awaited.
DrainTimeout ==
  /\ main = "draining"
  /\ broker \in Serving
  /\ broker' = "aborted"
  /\ Returns("aborted")
  /\ UNCHANGED <<mode, child, stream, record, hit, shutdown, call, buffer, server, acked>>

Worker == ChildEnds \/ CutShort \/ KillFails \/ Drained \/ DrainTimeout

\* Nothing is left to happen.
Finished ==
  /\ main = "returned"
  /\ broker \in Ended
  /\ UNCHANGED vars

Next ==
  \/ Connect \/ Close \/ Quarantine
  \/ \E status \in {"succeeded", "failed"} : Exit(status)
  \/ \E request \in Tools : Write(request)
  \/ main # "returned" /\ Task
  \/ LastStep
  \/ Worker
  \/ Finished

Spec == Init /\ [][Next]_vars

\* The request's deadline, the reaping of the child and the drain's timeout come.
FairSpec == Spec /\ WF_vars(Worker)

(***************************************************************************)
(* Properties                                                               *)
(***************************************************************************)
\* The session keeps its types; a patch is buffered for a confirmed verdict only.
TypeOK ==
  /\ mode \in {"verify", "scan"}
  /\ child \in {"running", "succeeded", "failed", "killed", "unkillable"}
  /\ stream \in {"none", "open", "closed"}
  /\ record \in Tools \cup {NoCall}
  /\ broker \in Serving \cup Ended
  /\ call \in Tools \cup {NoCall}
  /\ buffer \in [verdict : Verdicts \cup {None}, patch : GoodPatches \cup {None}]
  /\ buffer.patch # None => buffer.verdict = "confirmed"
  /\ hit \in BOOLEAN /\ shutdown \in BOOLEAN
  /\ main \in {"driving", "draining", "returned"}
  /\ result \in {"none", "ok", "failed", "abandoned"}

\* A run that succeeds has delivered what its agent was told is accepted: the verdict
\* and the patch of a verify session, every finding of a scan.
SuccessDelivered ==
  main = "returned" /\ result = "ok" =>
    /\ acked.verdict # None => server.verdicts # <<>>
    /\ acked.findings \subseteq server.findings
    /\ mode = "verify" /\ stream # "none" => acked.verdict # None

\* The verdict that reaches the server is the first one the agent gave, with the patch
\* the agent was told is buffered, and there is one only.
FirstVerdictStands ==
  /\ Len(server.verdicts) <= 1
  /\ \A i \in DOMAIN server.verdicts :
       server.verdicts[i] = [verdict |-> acked.verdict, patch |-> acked.patch]

\* An agent that fails, is cancelled or runs out of time does not take its verdict along:
\* an accepted verdict that the server does not have was lost to the quarantine, to a
\* broken stream or a refused request, to the drain's timeout, or to a kill that failed.
VerdictSurvives ==
  main = "returned" /\ acked.verdict # None /\ server.verdicts = <<>> =>
    \/ hit
    \/ broker = "refused"
    \/ result = "abandoned"
    \/ shutdown /\ broker = "aborted"

\* What the agent was told is accepted is what the server gets, however the agent ends
\* (mcp.rs flush, claude_cli.rs run).
VerdictsDelivered == TypeOK /\ SuccessDelivered /\ FirstVerdictStands /\ VerdictSurvives

\* What one step keeps of NothingAfterReturn.
NothingAfterReturnStep ==
  main = "returned" /\ result # "abandoned" => UNCHANGED <<server, broker>>

\* When the run has returned nothing reaches the server any more in its name, unless the
\* child could not be killed.
NothingAfterReturn == [][NothingAfterReturnStep]_vars

\* Every invocation returns, whatever the agent, the broker and the server do.
RunReturns == <>(main = "returned")

=============================================================================
