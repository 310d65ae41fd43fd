----------------------------- MODULE Enrolment -----------------------------
(***************************************************************************)
(* The workers table as authority: certificates are issued, requests are     *)
(* authenticated by their certificate once, at the door, and run later       *)
(* (their body is read under the request budget first, and a lease request   *)
(* may wait for work); meanwhile the operator revokes.  A claim and the      *)
(* routes of campaign jobs look at the worker's row again in their own       *)
(* transaction, the routes of the older jobs at their lease alone.           *)
(***************************************************************************)
EXTENDS Naturals

CONSTANTS
  Names,      \* names workers are registered under
  Certs,      \* certificates the CA may come to issue, each with a fingerprint of its own
  Requests,   \* requests that may be in flight
  Jobs,       \* leasable jobs
  Phased,     \* those of campaigns
  LeaseTime   \* how long a claim or a heartbeat lasts

ConstantsOK == Phased \subseteq Jobs /\ LeaseTime \in Nat

VARIABLES
  workers,    \* the rows, by certificate: the name, whether it is revoked
  held,       \* certificates whose bundle reached a worker
  request,    \* each request: its step, its certificate, what it asks for
  job,        \* each job: its state, the certificate of the worker that leases it, its expiry
  late        \* certificates some request of which was sent after its revocation and served

vars == <<workers, held, request, job, late>>

Nobody == "none"
NoRow == [name |-> Nobody, revoked |-> FALSE]
NoRequest == [pc |-> "none", cert |-> Nobody, op |-> Nobody, job |-> Nobody, late |-> FALSE]

Init ==
  /\ workers = [c \in Certs |-> NoRow]
  /\ held = {}
  /\ request = [r \in Requests |-> NoRequest]
  /\ job = [j \in Jobs |-> [state |-> "queued", cert |-> Nobody, left |-> 0, stray |-> FALSE]]
  /\ late = {}

Registered(c) == workers[c] # NoRow
Active(c) == Registered(c) /\ ~ workers[c].revoked

(***************************************************************************)
(* The operator                                                             *)
(***************************************************************************)
\* A name is taken for good, its worker revoked or not.  The bundle is sent once, and its
\* answer can be lost.
Register(c, name, arrives) ==
  /\ ~ Registered(c)
  /\ \A d \in Certs : workers[d].name # name
  /\ workers' = [workers EXCEPT ![c] = [name |-> name, revoked |-> FALSE]]
  /\ held' = IF arrives THEN held \cup {c} ELSE held
  /\ UNCHANGED <<request, job, late>>

Revoke(c) ==
  /\ Active(c)
  /\ workers' = [workers EXCEPT ![c].revoked = TRUE]
  /\ UNCHANGED <<held, request, job, late>>

(***************************************************************************)
(* A worker's requests                                                      *)
(***************************************************************************)
Send(r, c, op, j) ==
  /\ request[r].pc = "none"
  /\ c \in held
  /\ request' = [request EXCEPT ![r] =
       [pc |-> "sent", cert |-> c, op |-> op, job |-> j, late |-> workers[c].revoked]]
  /\ UNCHANGED <<workers, held, job, late>>

\* mtls_auth finds the active row of the certificate's fingerprint, or answers 401.
Authenticate(r) ==
  /\ request[r].pc = "sent"
  /\ request' = [request EXCEPT
       ![r] = IF Active(request[r].cert) THEN [@ EXCEPT !.pc = "authed"] ELSE NoRequest]
  /\ UNCHANGED <<workers, held, job, late>>

\* The body is late, too long, or the connection ends while the request waits.
Abandon(r) ==
  /\ request[r].pc = "authed"
  /\ request' = [request EXCEPT ![r] = NoRequest]
  /\ UNCHANGED <<workers, held, job, late>>

Served(r) ==
  /\ request' = [request EXCEPT ![r] = NoRequest]
  /\ late' = IF request[r].late THEN late \cup {request[r].cert} ELSE late

\* Fault: the claim of a waiting poll relies on what the door found.
ClaimUnchecked(r) ==
  LET c == request[r].cert
      j == request[r].job
  IN  /\ request[r].pc = "authed" /\ request[r].op = "claim"
      /\ job[j].state = "queued"
      /\ job' = [job EXCEPT ![j] = [state |-> "leased", cert |-> c, left |-> LeaseTime,
                                    stray |-> workers[c].revoked]]
      /\ Served(r)
      /\ UNCHANGED <<workers, held>>

\* claim_in_transaction, whenever the poll that waits comes to it.
Claim(r) ==
  LET c == request[r].cert
      j == request[r].job
  IN  /\ request[r].pc = "authed" /\ request[r].op = "claim"
      /\ Active(c)
      /\ job[j].state = "queued"
      /\ job' = [job EXCEPT ![j] = [state |-> "leased", cert |-> c, left |-> LeaseTime,
                                    stray |-> workers[c].revoked]]
      /\ Served(r)
      /\ UNCHANGED <<workers, held>>

\* The lease has not expired.
Holds(c, j) == job[j].state = "leased" /\ job[j].cert = c /\ job[j].left > 0

\* with_active_lease for the older jobs, ReviewTransaction::authorize for campaign jobs.
MayUse(c, j) == Holds(c, j) /\ (j \in Phased => Active(c))

Heartbeat(r) ==
  LET j == request[r].job
  IN  /\ request[r].pc = "authed" /\ request[r].op = "heartbeat"
      /\ MayUse(request[r].cert, j)
      /\ job' = [job EXCEPT ![j].left = LeaseTime]
      /\ Served(r)
      /\ UNCHANGED <<workers, held>>

Complete(r) ==
  LET j == request[r].job
  IN  /\ request[r].pc = "authed" /\ request[r].op = "complete"
      /\ MayUse(request[r].cert, j)
      /\ job' = [job EXCEPT ![j].state = "done",
                            ![j].stray = j \in Phased /\ workers[request[r].cert].revoked]
      /\ Served(r)
      /\ UNCHANGED <<workers, held>>

(***************************************************************************)
(* Time and the reaper                                                      *)
(***************************************************************************)
Tick ==
  /\ \E j \in Jobs : job[j].state = "leased" /\ job[j].left > 0
  /\ job' = [j \in Jobs |->
       IF job[j].state = "leased" /\ job[j].left > 0
       THEN [job[j] EXCEPT !.left = @ - 1] ELSE job[j]]
  /\ UNCHANGED <<workers, held, request, late>>

Reap(j) ==
  /\ job[j].state = "leased" /\ job[j].left = 0
  /\ job' = [job EXCEPT ![j].state = "queued", ![j].cert = Nobody]
  /\ UNCHANGED <<workers, held, request, late>>

Serve(r) == Authenticate(r) \/ Abandon(r) \/ Claim(r) \/ Heartbeat(r) \/ Complete(r)

Next ==
  \/ \E c \in Certs : Revoke(c) \/ \E name \in Names, arrives \in BOOLEAN : Register(c, name, arrives)
  \/ \E r \in Requests :
       \/ \E c \in Certs, op \in {"claim", "heartbeat", "complete"}, j \in Jobs : Send(r, c, op, j)
       \/ Serve(r)
  \/ Tick
  \/ \E j \in Jobs : Reap(j)

Spec == Init /\ [][Next]_vars

\* The clock runs and the reaper comes round; nothing is asked of a worker or the operator.
FairSpec == Spec /\ WF_vars(Tick) /\ \A j \in Jobs : WF_vars(Reap(j))

(***************************************************************************)
(* Properties                                                               *)
(***************************************************************************)
\* The rows, requests and jobs keep their types; a name has one row.
TypeOK ==
  /\ workers \in [Certs -> [name : Names \cup {Nobody}, revoked : BOOLEAN]]
  /\ \A c, d \in Certs : Registered(c) /\ Registered(d) /\ workers[c].name = workers[d].name => c = d
  /\ held \subseteq {c \in Certs : Registered(c)}
  /\ \A r \in Requests :
       /\ request[r].pc \in {"none", "sent", "authed"}
       /\ request[r].pc # "none" => request[r].cert \in held
  /\ \A j \in Jobs :
       /\ job[j].state \in {"queued", "leased", "done"}
       /\ job[j].left \in 0..LeaseTime
       /\ job[j].state = "leased" => job[j].cert \in held

\* Nothing a worker sends after its revocation is served.
RevokedIsRefused == late = {}

\* Nor does a request that was let in before it and is served after it start a lease, or
\* decide a campaign's job: an older job's lease is the most a revoked worker still uses.
NothingStray == \A j \in Jobs : ~ job[j].stray

\* From its revocation on a worker is refused at the door, and what was let in before it
\* starts no lease and decides no campaign's job (auth.rs, admission_claim.rs).
RevocationHolds == TypeOK /\ RevokedIsRefused /\ NothingStray

\* A job that a revoked worker holds does not stay with it: it is taken back, though the
\* worker's last requests may still be served and no word of the revocation reaches the job.
RevokedLeasesEnd ==
  \A c \in Certs, j \in Jobs :
    (workers[c].revoked /\ job[j].state = "leased" /\ job[j].cert = c)
      ~> ~ (job[j].state = "leased" /\ job[j].cert = c)
=============================================================================
