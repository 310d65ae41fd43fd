---------------------------- MODULE ModelBroker ----------------------------
(***************************************************************************)
(* One model broker session of a worker job (loupe-worker,                 *)
(* llm/model_broker.rs, with the job's security decision in canary.rs).    *)
(*                                                                         *)
(* The sandboxed command talks to the session over a Unix socket; every    *)
(* connection is a task of its own, all of them share three atomic usage   *)
(* counters, the job's quarantine flag and its cancellation token.  A step *)
(* of a connection is what it does between two accesses to that shared     *)
(* state, so counters are read and written the way the atomics are: a      *)
(* load, then a compare-and-exchange that may find another value.          *)
(*                                                                         *)
(* Requests answered without touching shared state (the HEAD preflight, a  *)
(* path that is not the endpoint) leave the state alone and have no step.  *)
(* A body is clean or tainted: what observe() looks for is in it or not.   *)
(***************************************************************************)
EXTENDS Integers, FiniteSets

CONSTANTS
    Conns,          \* the connection tasks MAX_ADAPTER_CONNECTIONS allows
    RequestCeiling, \* ModelBrokerLimits.request_ceiling
    OutputCeiling,  \* ModelBrokerLimits.output_ceiling_bytes
    TokenCeiling,   \* ModelBrokerLimits.token_ceiling
    MaxChunk,       \* bound: bytes of one chunk of a provider's answer
    MaxTokens       \* bound: tokens one complete answer reports

\* validate(): every ceiling is greater than zero.
ConstantsOK ==
    /\ {RequestCeiling, OutputCeiling, TokenCeiling} \subseteq Nat \ {0}
    /\ MaxChunk \in Nat \ {0} /\ MaxTokens \in Nat
    /\ IsFiniteSet(Conns)

VARIABLES
    pc,          \* where each connection task stands
    tainted,     \* the body the connection holds contains a watched value
    seen,        \* the counter value the connection loaded last
    chunk,       \* the length of the chunk being forwarded
    requests, output, tokens,   \* UsageCounters
    quarantined, cancelled,     \* JobSecurity: the flag and the token
    elsewhere,   \* the job's other observer: "quiet", "hit" or "done"
    shutdown, aborting,         \* the session's token; abort_all was called
    fin,         \* the owner of the session: finish() or Drop
    sent,        \* history: requests that left for the provider
    leaked,      \* history: a tainted body left for the provider
    forwarded,   \* history: bytes written back to the sandbox
    late         \* history: sends and frames after the job or session ended

counters == <<requests, output, tokens>>
security == <<quarantined, cancelled, elsewhere>>
session  == <<shutdown, aborting, fin>>
history  == <<sent, leaked, forwarded, late>>
vars == <<pc, tainted, seen, chunk, counters, security, session, history>>

Places ==
    {"idle", "open", "collect", "body", "publish", "admit", "tokens", "output",
     "count", "send", "poll", "sending", "next", "overflow", "wait",
     "reserve", "ended"}

Over == {"done", "timed_out", "dropped"}

\* The type invariant: no counter that a compare-and-exchange guards ever
\* holds more than its ceiling.
TypeOK ==
    /\ pc \in [Conns -> Places]
    /\ tainted \in [Conns -> BOOLEAN]
    /\ seen \in [Conns -> Nat] /\ chunk \in [Conns -> 0..MaxChunk]
    /\ requests \in 0..RequestCeiling /\ output \in 0..OutputCeiling
    /\ {tokens, sent, forwarded} \subseteq Nat
    /\ {quarantined, cancelled, shutdown, aborting, leaked} \subseteq BOOLEAN
    /\ elsewhere \in {"quiet", "hit", "done"}
    /\ fin \in {"running", "finishing"} \cup Over
    /\ late \in [Conns -> Nat]

Init ==
    /\ pc = [c \in Conns |-> "idle"]
    /\ tainted = [c \in Conns |-> FALSE]
    /\ seen = [c \in Conns |-> 0] /\ chunk = [c \in Conns |-> 0]
    /\ requests = 0 /\ output = 0 /\ tokens = 0
    /\ quarantined = FALSE /\ cancelled = FALSE /\ elsewhere = "quiet"
    /\ shutdown = FALSE /\ aborting = FALSE /\ fin = "running"
    /\ sent = 0 /\ leaked = FALSE /\ forwarded = 0 /\ late = [c \in Conns |-> 0]

\* is_quarantined(): the flag, not the token, which follows it.
IsQuarantined == quarantined

FaultAwaits(c) == pc[c] \in {"open", "collect", "sending"}

\* The places where a connection task is suspended and may be dropped; all
\* other places are inside one poll, which nothing interrupts.
Awaits(c) == pc[c] \in {"open", "collect", "sending", "wait"}

\* A suspended connection runs on unless the session has aborted its tasks.
Resumes(c, place) == /\ pc[c] = place
                     /\ (Awaits(c) => ~aborting)

Go(c, place) == pc' = [pc EXCEPT ![c] = place]

\* The sandbox or the provider sees something of connection c.
Visible(c) ==
    late' = [late EXCEPT ![c] = @ + (IF quarantined \/ fin \in Over THEN 1 ELSE 0)]

-----------------------------------------------------------------------------
(* handle_request, up to the request that leaves for the provider.         *)

\* listener.accept() of serve_session; a slot that is taken drops the stream.
Accept(c) ==
    /\ pc[c] = "idle" /\ ~shutdown /\ ~aborting
    /\ Go(c, "open")
    /\ UNCHANGED <<tainted, seen, chunk, counters, security, session, history>>

\* The endpoint is the provider's: admitted, the body is being collected.
Request(c) ==
    /\ Resumes(c, "open") /\ ~IsQuarantined
    /\ \E t \in BOOLEAN : tainted' = [tainted EXCEPT ![c] = t]
    /\ Go(c, "collect")
    /\ UNCHANGED <<seen, chunk, counters, security, session, history>>

\* security.run over the collection: cancelled, too large, or collected and
\* admitted once more.
Collect(c) ==
    /\ Resumes(c, "collect")
    /\ \/ Go(c, "open")
       \/ ~cancelled /\ ~IsQuarantined /\ Go(c, "body")
    /\ UNCHANGED <<tainted, seen, chunk, counters, security, session, history>>

\* security.observe(&body): a hit swaps the flag; whoever sets it first
\* publishes the cancellation before going on.
Observe(c) ==
    /\ pc[c] = "body"
    /\ quarantined' = (quarantined \/ tainted[c])
    /\ Go(c, IF tainted[c] /\ ~quarantined THEN "publish" ELSE "admit")
    /\ UNCHANGED <<tainted, seen, chunk, counters, cancelled, elsewhere, session, history>>

Publish(c) ==
    /\ pc[c] = "publish"
    /\ cancelled' = TRUE
    /\ Go(c, "admit")
    /\ UNCHANGED <<tainted, seen, chunk, counters, quarantined, elsewhere, session, history>>

\* admit, then the request policy, which may refuse the body.
AdmitBody(c) ==
    /\ pc[c] = "admit"
    /\ \/ Go(c, "open")
       \/ ~IsQuarantined /\ Go(c, "tokens")
    /\ UNCHANGED <<tainted, seen, chunk, counters, security, session, history>>

\* start_request: the token counter is only loaded.
LoadTokens(c) ==
    /\ pc[c] = "tokens"
    /\ Go(c, IF tokens >= TokenCeiling THEN "open" ELSE "output")
    /\ UNCHANGED <<tainted, seen, chunk, counters, security, session, history>>

\* start_request: the output counter, then the first load of the requests.
LoadOutput(c) ==
    /\ pc[c] = "output"
    /\ seen' = [seen EXCEPT ![c] = requests]
    /\ Go(c, IF output >= OutputCeiling THEN "open" ELSE "count")
    /\ UNCHANGED <<tainted, chunk, counters, security, session, history>>

\* start_request: the compare-and-exchange loop.
CountRequest(c) ==
    /\ pc[c] = "count"
    /\ \/ /\ seen[c] >= RequestCeiling
          /\ Go(c, "open") /\ UNCHANGED <<seen, requests>>
       \/ /\ seen[c] < RequestCeiling /\ seen[c] = requests
          /\ requests' = requests + 1 /\ Go(c, "send") /\ UNCHANGED seen
       \/ /\ seen[c] < RequestCeiling /\ seen[c] # requests
          /\ seen' = [seen EXCEPT ![c] = requests] /\ UNCHANGED <<pc, requests>>
    /\ UNCHANGED <<tainted, chunk, output, tokens, security, session, history>>

\* UpstreamRequest::send through security.run: admission ...
AdmitSend(c) ==
    /\ pc[c] = "send"
    /\ Go(c, IF IsQuarantined THEN "open" ELSE "poll")
    /\ UNCHANGED <<tainted, seen, chunk, counters, security, session, history>>

\* ... and the first poll, in which a cancelled token wins.
PollSend(c) ==
    /\ pc[c] = "poll"
    /\ IF cancelled
       THEN Go(c, "open") /\ UNCHANGED history
       ELSE /\ Go(c, "sending") /\ Visible(c)
            /\ sent' = sent + 1 /\ leaked' = (leaked \/ tainted[c])
            /\ UNCHANGED forwarded
    /\ UNCHANGED <<tainted, seen, chunk, counters, security, session>>

\* The answer's head: an error, a redirect or a quarantine is answered
\* locally, anything else is streamed.
Response(c) ==
    /\ Resumes(c, "sending")
    /\ \/ Go(c, "open")
       \/ ~cancelled /\ ~IsQuarantined /\ Go(c, "next")
    /\ UNCHANGED <<tainted, seen, chunk, counters, security, session, history>>

-----------------------------------------------------------------------------
(* stream_upstream_response: the unfold step and ToSandbox.                *)

\* The head of the unfold step; after an overflow it ends with a trailer.
NextFrame(c) ==
    /\ pc[c] \in {"next", "overflow"}
    /\ Go(c, IF IsQuarantined \/ pc[c] = "overflow" THEN "open" ELSE "wait")
    /\ UNCHANGED <<tainted, seen, chunk, counters, security, session, history>>

\* A chunk of the answer arrives and no quarantine stops it.
Chunk(c) ==
    /\ Resumes(c, "wait") /\ ~cancelled /\ ~IsQuarantined
    /\ \E n \in 1..MaxChunk : chunk' = [chunk EXCEPT ![c] = n]
    /\ seen' = [seen EXCEPT ![c] = output]
    /\ Go(c, "reserve")
    /\ UNCHANGED <<tainted, counters, security, session, history>>

\* The end of the stream: only now its reported tokens are counted.
StreamEnd(c) ==
    /\ Resumes(c, "wait") /\ ~cancelled /\ ~IsQuarantined
    /\ \E t \in 0..MaxTokens : tokens' = tokens + t
    /\ Go(c, "open")
    /\ UNCHANGED <<tainted, seen, chunk, requests, output, security, session, history>>

\* A transport error, or the quarantine, ends the stream without counting.
StreamBroken(c) ==
    /\ Resumes(c, "wait")
    /\ Go(c, "open")
    /\ UNCHANGED <<tainted, seen, chunk, counters, security, session, history>>

Allowed(c) ==
    LET remaining == IF seen[c] >= OutputCeiling THEN 0 ELSE OutputCeiling - seen[c]
    IN IF remaining < chunk[c] THEN remaining ELSE chunk[c]

FaultReserve(c) ==
    /\ pc[c] = "reserve" /\ Visible(c)
    /\ output' = seen[c] + Allowed(c) /\ forwarded' = forwarded + Allowed(c)
    /\ Go(c, IF Allowed(c) < chunk[c] THEN "overflow" ELSE "next")
    /\ UNCHANGED <<tainted, seen, chunk, requests, tokens, security, session, sent, leaked>>

\* reserve_output's compare-and-exchange loop, and the frame it lets through.
Reserve(c) ==
    /\ pc[c] = "reserve"
    /\ \/ /\ Allowed(c) = 0
          /\ Go(c, "open") /\ UNCHANGED <<seen, output, history>>
       \/ /\ Allowed(c) > 0 /\ seen[c] = output
          /\ output' = output + Allowed(c) /\ forwarded' = forwarded + Allowed(c)
          /\ Go(c, IF Allowed(c) < chunk[c] THEN "overflow" ELSE "next")
          /\ Visible(c) /\ UNCHANGED <<seen, sent, leaked>>
       \/ /\ Allowed(c) > 0 /\ seen[c] # output
          /\ seen' = [seen EXCEPT ![c] = output]
          /\ UNCHANGED <<pc, output, history>>
    /\ UNCHANGED <<tainted, chunk, requests, tokens, security, session>>

-----------------------------------------------------------------------------
(* The session's life, and the observer of the job's other brokers.        *)

\* The sandbox closes the connection, the task's own select sees the
\* session's token, or abort_all drops the task: only where it is suspended.
EndConnection(c) ==
    /\ Awaits(c)
    /\ Go(c, "ended")
    /\ UNCHANGED <<tainted, seen, chunk, counters, security, session, history>>

\* join_next reaps a finished task.
Reap(c) ==
    /\ pc[c] = "ended"
    /\ Go(c, "idle")
    /\ UNCHANGED <<tainted, seen, chunk, counters, security, session, history>>

\* finish() revokes the session and waits for its task.
Finish ==
    /\ fin = "running"
    /\ fin' = "finishing" /\ shutdown' = TRUE
    /\ UNCHANGED <<pc, tainted, seen, chunk, counters, security, aborting, history>>

\* serve_session leaves its loop, or is aborted itself, and aborts its tasks.
AbortAll ==
    /\ shutdown /\ ~aborting
    /\ aborting' = TRUE
    /\ UNCHANGED <<pc, tainted, seen, chunk, counters, security, shutdown, fin, history>>

\* Every task has been joined: finish() returns the usage.
Finished ==
    /\ fin = "finishing" /\ aborting
    /\ \A c \in Conns : pc[c] = "idle"
    /\ fin' = "done"
    /\ UNCHANGED <<pc, tainted, seen, chunk, counters, security, shutdown, aborting, history>>

\* BROKER_SHUTDOWN_TIMEOUT expires first, or the session is dropped instead
\* of finished: the tasks are aborted and nobody waits for them.
GiveUp ==
    /\ fin' = IF fin = "finishing" THEN "timed_out" ELSE "dropped"
    /\ fin \in {"running", "finishing"}
    /\ shutdown' = TRUE /\ aborting' = TRUE
    /\ UNCHANGED <<pc, tainted, seen, chunk, counters, security, history>>

\* Another broker of the job (tools, egress, git) observes a watched value.
ObserveElsewhere ==
    /\ \/ elsewhere = "quiet" /\ ~quarantined
          /\ elsewhere' = "hit" /\ quarantined' = TRUE /\ UNCHANGED cancelled
       \/ elsewhere = "hit"
          /\ elsewhere' = "done" /\ cancelled' = TRUE /\ UNCHANGED quarantined
    /\ UNCHANGED <<pc, tainted, seen, chunk, counters, session, history>>

-----------------------------------------------------------------------------
\* What a task does on its own once it is running: no input is waited for.
InPoll(c) ==
    \/ Observe(c) \/ Publish(c) \/ AdmitBody(c) \/ LoadTokens(c) \/ LoadOutput(c)
    \/ CountRequest(c) \/ AdmitSend(c) \/ PollSend(c) \/ NextFrame(c) \/ Reserve(c)

Connection(c) ==
    \/ Accept(c) \/ Request(c) \/ Collect(c) \/ Response(c)
    \/ Chunk(c) \/ StreamEnd(c) \/ StreamBroken(c)
    \/ InPoll(c) \/ EndConnection(c) \/ Reap(c)

Next ==
    \/ \E c \in Conns : Connection(c)
    \/ Finish \/ AbortAll \/ Finished \/ GiveUp \/ ObserveElsewhere

Spec == Init /\ [][Next]_vars

\* The runtime keeps polling what can run, and an aborted task is dropped at
\* its next suspension.  Neither the sandbox nor the provider owes a step.
FairSpec ==
    /\ Spec
    /\ WF_vars(AbortAll)
    /\ \A c \in Conns : WF_vars(InPoll(c))
                        /\ WF_vars(aborting /\ EndConnection(c))
                        /\ WF_vars(Reap(c))

-----------------------------------------------------------------------------
\* However the connections interleave, no more requests leave for the
\* provider than request_ceiling (start_request's compare-and-exchange).
RequestsWithinCeiling == sent <= RequestCeiling

\* The bytes all the streams together write back to the sandbox stay within
\* output_ceiling_bytes (reserve_output), and the counter tells them exactly.
OutputWithinCeiling == forwarded <= OutputCeiling /\ forwarded = output

\* Tokens are counted when an answer ends and checked when a request starts,
\* so the ceiling can be overrun, but by the open connections' answers only.
TokensBounded == tokens < TokenCeiling + Cardinality(Conns) * MaxTokens

\* A body in which observe() finds a watched value never leaves for the
\* provider, whatever the other connections were allowed a moment before.
SecretStays == ~leaked

\* Once the job is quarantined, or the session finished, timed out or was
\* dropped, a connection completes at most the one send or frame it was in
\* the middle of: every other send and frame is stopped.
LateBounded == \A c \in Conns : late[c] <= 1

\* Concurrent connections keep the session's ceilings and its secret, and stop with it
\* (model_broker.rs, canary.rs).
CeilingsHold ==
  /\ TypeOK /\ RequestsWithinCeiling /\ OutputWithinCeiling /\ TokensBounded /\ SecretStays
  /\ LateBounded

\* A revoked session stops every connection, also one that waits for a
\* provider that never answers, without the help of the shutdown timeout.
SessionStops == shutdown ~> (\A c \in Conns : pc[c] \in {"idle", "ended"})
=============================================================================
