------------------------- MODULE NetworkSupervisor -------------------------
(***************************************************************************)
(* The `sandbox-exec` process that gives a sandboxed agent its network      *)
(* (run_networked_sandbox): it starts Bubblewrap blocked on a pipe, attaches *)
(* slirp4netns to its namespace, loads the packet filter there and only     *)
(* then lets the command run.  Either helper can die at any time and every  *)
(* step can fail.  The filter is modelled as its rules in order; a packet   *)
(* gets the verdict of the first rule that matches it.                      *)
(***************************************************************************)
EXTENDS SequencesExt

VARIABLES
  mode,       \* "public" or "allowlist"
  allow,      \* the operator names hosts of its own
  pc,         \* the supervisor's next step
  bwrap,      \* the sandbox: blocked until it is released
  slirp,      \* the process that carries its packets
  filter,     \* the rules in its network namespace
  pending,    \* the policy file, written before anything is started
  result      \* what the supervisor tells the worker: the sandbox's status or an error

vars == <<mode, allow, pc, bwrap, slirp, filter, pending, result>>
input == <<mode, allow>>

(***************************************************************************)
(* The packet filter                                                        *)
(***************************************************************************)
\* Where a packet goes: the namespace's own loopback, slirp's name server at port 53, an
\* IPv4 address or an IPv6 one.  An address may be that of a required host, that of a
\* host the operator allows, and inside the ranges and addresses a public sandbox may not
\* reach (the fixed list, the host's connected routes and its own addresses), in any mix.
Packets ==
  [to : {"lo", "dns", "v4", "v6"}, required : BOOLEAN, extra : BOOLEAN, private : BOOLEAN,
   reply : BOOLEAN]

Rule(matches, verdict) == [matches |-> matches, verdict |-> verdict]

To(kind) == {p \in Packets : p.to = kind}
V4(field) == {p \in To("v4") : p[field]}

Local == <<Rule(To("lo"), "accept"), Rule(To("dns"), "accept"),
           Rule({p \in Packets : p.reply}, "accept")>>

\* render_network_policy with its addresses; the last rule is the chain's own policy.
Rules(m, a) ==
  IF m = "public"
  THEN Local \o <<Rule(V4("required"), "accept"), Rule(V4("private"), "reject"),
                  Rule(To("v6"), "reject"), Rule(Packets, "accept")>>
  ELSE Local \o <<Rule(V4("required") \cup (IF a THEN V4("extra") ELSE {}), "accept"), Rule(Packets, "reject")>>

\* An empty namespace has no rules and no way out.
Decision(rules, p) ==
  LET first == SelectInSeq(rules, LAMBDA r : p \in r.matches)
  IN  IF first = 0 THEN "accept" ELSE rules[first].verdict

(***************************************************************************)
(* The supervisor                                                           *)
(***************************************************************************)
Init ==
  /\ mode \in {"public", "allowlist"}
  /\ allow \in BOOLEAN
  /\ pc = "resolve"
  /\ bwrap = "none"
  /\ slirp = "none"
  /\ filter = <<>>
  /\ pending = <<>>
  /\ result = "none"

Alive(process) == process \notin {"none", "dead"}

\* terminate kills and reaps; a process that was never started is none.
Terminated(process) == IF process = "none" THEN "none" ELSE "dead"

\* Hosts of the operator's own are refused in public mode.  The others are resolved, and
\* the policy is written, before any process exists.
Resolve ==
  /\ pc = "resolve"
  /\ ~ (mode = "public" /\ allow)
  /\ pc' = "start"
  /\ pending' = Rules(mode, allow)
  /\ UNCHANGED <<input, bwrap, slirp, filter, result>>

StartBwrap ==
  /\ pc = "start"
  /\ bwrap' = "blocked"
  /\ pc' = "pid"
  /\ UNCHANGED <<input, slirp, filter, pending, result>>

\* The sandbox tells its process id, which is read though it may have died since; then
\* its user namespace is mapped.
ReadPid ==
  /\ pc = "pid"
  /\ pc' = "userns"
  /\ UNCHANGED <<input, bwrap, slirp, filter, pending, result>>

UsernsReady ==
  /\ pc = "userns"
  /\ Alive(bwrap)
  /\ pc' = "slirp"
  /\ UNCHANGED <<input, bwrap, slirp, filter, pending, result>>

StartSlirp ==
  /\ pc = "slirp"
  /\ slirp' = "starting"
  /\ pc' = "ready"
  /\ UNCHANGED <<input, bwrap, filter, pending, result>>

\* The byte that says slirp is ready is read before its death is looked for, too.
SlirpReady ==
  /\ pc = "ready"
  /\ slirp' = IF slirp = "starting" THEN "ready" ELSE slirp
  /\ pc' = "policy"
  /\ UNCHANGED <<input, bwrap, filter, pending, result>>

\* Fault: the sandbox is released while the filter is being loaded.
ApplyPolicyLate ==
  /\ pc = "policy"
  /\ bwrap' = IF bwrap = "blocked" THEN "running" ELSE bwrap
  /\ pc' = "release"
  /\ UNCHANGED <<input, slirp, filter, pending, result>>

\* nft runs in the sandbox's namespace; it fails if that is gone.
ApplyPolicy ==
  /\ pc = "policy"
  /\ Alive(bwrap)
  /\ filter' = pending
  /\ pc' = "release"
  /\ UNCHANGED <<input, bwrap, slirp, pending, result>>

Release ==
  /\ pc = "release"
  /\ bwrap' = IF bwrap = "blocked" THEN "running" ELSE bwrap
  /\ pc' = "wait"
  /\ UNCHANGED <<input, slirp, filter, pending, result>>

\* Any step before the wait fails or, where it waits for a helper, finds it dead or out of
\* time.
Fail ==
  /\ pc \notin {"wait", "slirp_left", "unwind_slirp", "unwind_bwrap", "killed", "returned"}
  /\ pc' = IF slirp = "none" THEN "unwind_bwrap" ELSE "unwind_slirp"
  /\ result' = "error"
  /\ UNCHANGED <<input, bwrap, slirp, filter, pending>>

\* The setup that fails terminates slirp, its caller the sandbox.
UnwindSlirp ==
  /\ pc = "unwind_slirp"
  /\ slirp' = Terminated(slirp)
  /\ pc' = "unwind_bwrap"
  /\ UNCHANGED <<input, bwrap, filter, pending, result>>

UnwindBwrap ==
  /\ pc = "unwind_bwrap"
  /\ bwrap' = Terminated(bwrap)
  /\ pc' = "returned"
  /\ UNCHANGED <<input, slirp, filter, pending, result>>

\* The sandbox has ended; then slirp is told through its exit pipe and terminated.
Wait ==
  /\ pc = "wait"
  /\ ~ Alive(bwrap)
  /\ result' = "status"
  /\ pc' = "slirp_left"
  /\ UNCHANGED <<input, bwrap, slirp, filter, pending>>

StopSlirp ==
  /\ pc = "slirp_left"
  /\ slirp' = Terminated(slirp)
  /\ pc' = "returned"
  /\ UNCHANGED <<input, bwrap, filter, pending, result>>

\* The worker kills the supervisor.
Killed ==
  /\ pc \notin {"killed", "returned"}
  /\ pc' = "killed"
  /\ result' = "none"
  /\ UNCHANGED <<input, bwrap, slirp, filter, pending>>

\* External: the kernel closes the pipes of a dead supervisor, and a blocked Bubblewrap
\* whose pipe ends goes on ...
BlockPipeCloses ==
  /\ pc = "killed"
  /\ bwrap = "blocked"
  /\ bwrap' = "running"
  /\ UNCHANGED <<input, pc, slirp, filter, pending, result>>

\* ... until its signal comes: Bubblewrap was told to die with its parent, slirp when its
\* exit pipe closes.
OrphansDie ==
  /\ pc = "killed"
  /\ bwrap' = Terminated(bwrap)
  /\ slirp' = Terminated(slirp)
  /\ pc' = "returned"
  /\ UNCHANGED <<input, filter, pending, result>>

BwrapDies ==
  /\ Alive(bwrap)
  /\ bwrap' = "dead"
  /\ UNCHANGED <<input, pc, slirp, filter, pending, result>>

SlirpDies ==
  /\ Alive(slirp)
  /\ slirp' = "dead"
  /\ UNCHANGED <<input, pc, bwrap, filter, pending, result>>

Supervisor ==
  \/ Resolve \/ StartBwrap \/ ReadPid \/ UsernsReady \/ StartSlirp \/ SlirpReady
  \/ ApplyPolicy \/ Release \/ Fail \/ UnwindSlirp \/ UnwindBwrap \/ Wait \/ StopSlirp

Returned == pc = "returned" /\ UNCHANGED vars

Next ==
  Supervisor \/ Killed \/ BlockPipeCloses \/ OrphansDie \/ BwrapDies \/ SlirpDies \/ Returned

Spec == Init /\ [][Next]_vars

\* The supervisor runs, and its three waits for a helper end at STARTUP_TIMEOUT; the
\* kernel ends the children of one that was killed.
FairSpec == Spec /\ WF_vars(Supervisor) /\ WF_vars(OrphansDie)

(***************************************************************************)
(* Properties                                                               *)
(***************************************************************************)
\* The steps and processes keep their types, and a namespace has no rules or all of them.
TypeOK ==
  /\ pc \in {"resolve", "start", "pid", "userns", "slirp", "ready", "policy", "release", "wait",
             "slirp_left", "unwind_slirp", "unwind_bwrap", "killed", "returned"}
  /\ bwrap \in {"none", "blocked", "running", "dead"}
  /\ slirp \in {"none", "starting", "ready", "dead"}
  /\ filter \in {<<>>, pending}
  /\ result \in {"none", "status", "error"}

\* What a sandbox may send: to itself, to the name server, answers, and to the hosts it
\* needs; beside these, in allowlist mode to the hosts the operator names, in public mode
\* to any IPv4 address that is not private.
Permitted(m, a, p) ==
  \/ p.to \in {"lo", "dns"}
  \/ p.reply
  \/ p.to = "v4" /\ (p.required \/ (IF m = "public" THEN ~ p.private ELSE a /\ p.extra))

\* The command runs behind the whole filter from its first instruction on, and the
\* filter's rules in their order let through what is permitted and nothing else.  The
\* moment between a killed supervisor's pipes and its parent-death signal is excepted.
RunsFiltered ==
  bwrap = "running" /\ pc # "killed" =>
    /\ filter # <<>>
    /\ \A p \in Packets : Decision(filter, p) = "accept" <=> Permitted(mode, allow, p)

\* When the supervisor returns, or is killed, no helper it started is left.
NoHelperLeft == pc = "returned" => ~ Alive(bwrap) /\ ~ Alive(slirp)

\* The sandboxed command runs behind the whole filter only, and no helper is left behind
\* (sandbox_network.rs).
NetworkSound == TypeOK /\ RunsFiltered /\ NoHelperLeft

\* The start ends: the sandbox is released or everything is taken down, though a helper
\* dies or never becomes ready.
StartEnds == pc = "resolve" ~> pc \in {"wait", "returned"}
=============================================================================
