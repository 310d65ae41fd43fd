---------------------------- MODULE Generations ----------------------------
(***************************************************************************)
(* The campaigns of one repository, one after the other, and the review    *)
(* generations they pin: opening, coalescing, pinning, the generation a     *)
(* bootstrap activates, and the successors no recipe reviews yet.           *)
(*                                                                          *)
(* A campaign is seen through its preparation job.  What its jobs do to     *)
(* each other is the matter of Campaign.                                    *)
(***************************************************************************)
EXTENDS Naturals, FiniteSets

CONSTANTS Campaigns, Gens, Commits, Contracts, None

ConstantsOK ==
  /\ Campaigns \subseteq Nat /\ Gens \subseteq Nat
  /\ Commits # {} /\ Contracts # {}
  /\ None \notin Campaigns \cup Gens \cup Commits \cup Contracts

VARIABLES
  campaigns,   \* state, recipe, pinned generation and preparation job of each campaign
  gens,        \* state, commit, contract, predecessor, owner of the sealed manifest
  contract     \* WORKFLOW_CONTRACT_VERSION of the running server

vars == <<campaigns, gens, contract>>

NoCampaign == [state |-> "absent", recipe |-> "bootstrap", gen |-> None, job |-> "absent", prepared |-> FALSE]

NoGen ==
  [state |-> "absent", commit |-> None, contract |-> None, pred |-> None, sealed |-> None, followUp |-> FALSE]

Init ==
  /\ campaigns = [c \in Campaigns |-> NoCampaign]
  /\ gens = [g \in Gens |-> NoGen]
  /\ contract \in Contracts

\* Row ids are given out in ascending order.
IsNewRow(table, id) ==
  table[id].state = "absent" /\ \A k \in DOMAIN table : k < id => table[k].state # "absent"

ActiveCampaigns == {c \in Campaigns : campaigns[c].state = "active"}
ActiveGens == {g \in Gens : gens[g].state = "active"}

\* The active generation, None before the first.
Baseline == IF ActiveGens = {} THEN None ELSE CHOOSE g \in ActiveGens : TRUE

\* Fault: a successor that is being built is not looked for.
BaselineOnly(sha) == IF Baseline # None /\ gens[Baseline].commit = sha THEN {Baseline} ELSE {}

\* The generations a campaign that reviews sha can join.
Existing(sha) ==
  IF Baseline = None THEN {}
  ELSE IF gens[Baseline].commit = sha
       THEN IF gens[Baseline].contract = contract THEN {Baseline} ELSE {}
       ELSE {g \in Gens : /\ gens[g].state = "building" /\ gens[g].commit = sha
                          /\ gens[g].contract = contract /\ gens[g].pred = Baseline}

\* A new generation; without a baseline it supersedes the bootstraps that never became one.
Created(g, sha) ==
  [h \in Gens |->
     IF h = g THEN [NoGen EXCEPT !.state = "building", !.commit = sha, !.contract = contract, !.pred = Baseline]
     ELSE IF Baseline = None /\ gens[h].state = "building" THEN [gens[h] EXCEPT !.state = "retired"]
     ELSE gens[h]]

\* The table once a campaign that reviews sha has generation g.
Pinned(g, sha) == IF Existing(sha) # {} THEN gens ELSE Created(g, sha)
Pinnable(g, sha) == IF Existing(sha) # {} THEN g \in Existing(sha) ELSE IsNewRow(gens, g)

(***************************************************************************)
(* Opening                                                                  *)
(***************************************************************************)
\* A request made while a campaign runs is noted on the campaign's generation; before the
\* campaign has one it is answered as pending and nothing is kept.
OpenCoalesced ==
  /\ \E c \in ActiveCampaigns :
       LET g == campaigns[c].gen
       IN  /\ g # None /\ gens[g].state \in {"building", "active"}
           /\ gens' = [gens EXCEPT ![g].followUp = TRUE]
  /\ UNCHANGED <<campaigns, contract>>

\* A full review of a repository that has a baseline, or a commit that is not the
\* baseline's, has no recipe.
Supported(full, sha) ==
  Baseline # None => ~ full /\ (sha # None => gens[Baseline].commit = sha)

Opened(supported) ==
  [NoCampaign EXCEPT !.recipe = IF Baseline = None THEN "bootstrap" ELSE "incremental",
                     !.state = IF supported THEN "active" ELSE "finished",
                     !.job = IF supported THEN "queued" ELSE "absent"]

\* A request that names a branch, or one no recipe serves.
Open(c, full, sha) ==
  /\ IsNewRow(campaigns, c)
  /\ ActiveCampaigns = {}
  /\ Supported(full, sha) => sha = None
  /\ campaigns' = [campaigns EXCEPT ![c] = Opened(Supported(full, sha))]
  /\ UNCHANGED <<gens, contract>>

\* A request that names a commit pins it at once.
OpenPinned(c, full, g, sha) ==
  /\ IsNewRow(campaigns, c)
  /\ ActiveCampaigns = {}
  /\ Supported(full, sha)
  /\ Pinnable(g, sha)
  /\ campaigns' = [campaigns EXCEPT ![c] = [Opened(TRUE) EXCEPT !.gen = g]]
  /\ gens' = Pinned(g, sha)
  /\ UNCHANGED contract

(***************************************************************************)
(* The checkout pins the commit                                             *)
(***************************************************************************)
Current(c) == campaigns[c].state = "active" /\ campaigns[c].job = "leased"

\* The first checkout joins or creates the generation; a successor of the baseline ends
\* the job and the campaign, and leaves a follow-up on it.
PinFirst(c, g, sha) ==
  LET after == Pinned(g, sha)
      successor == after[g].state = "building" /\ after[g].pred # None
  IN  /\ Current(c)
      /\ campaigns[c].gen = None
      /\ Pinnable(g, sha)
      /\ campaigns' = [campaigns EXCEPT ![c].gen = g, ![c].prepared = ~ successor,
                                        ![c].job = IF successor THEN "ended" ELSE @,
                                        ![c].state = IF successor THEN "finished" ELSE @]
      /\ gens' = IF successor THEN [after EXCEPT ![g].followUp = TRUE] ELSE after
      /\ UNCHANGED contract

\* A generation that the campaign's recipe can review.
Reviewable(c) ==
  LET g == campaigns[c].gen
  IN  gens[g].state = "active" \/ (campaigns[c].recipe = "bootstrap" /\ gens[g].state = "building" /\ gens[g].pred = None)

\* A later checkout confirms the pinned commit.
PinAgain(c) ==
  /\ Current(c)
  /\ campaigns[c].gen # None /\ ~ campaigns[c].prepared
  /\ Reviewable(c)
  /\ campaigns' = [campaigns EXCEPT ![c].prepared = TRUE]
  /\ UNCHANGED <<gens, contract>>

\* The inventory manifest of a bootstrap generation is declared and sealed by its job.
Seal(c) ==
  LET g == campaigns[c].gen
  IN  /\ Current(c) /\ campaigns[c].prepared
      /\ campaigns[c].recipe = "bootstrap"
      /\ gens[g].state = "building" /\ gens[g].pred = None /\ gens[g].sealed \in {None, c}
      /\ gens' = [gens EXCEPT ![g].sealed = c]
      /\ UNCHANGED <<campaigns, contract>>

\* The survey's receipt.  A bootstrap generation becomes the baseline; the one before it,
\* which must be its predecessor, is retired.
Finalize(c) ==
  LET g == campaigns[c].gen
      activates == gens[g].state = "building"
  IN  /\ Current(c) /\ campaigns[c].prepared
      /\ gens[g].state \in {"building", "active"}
      /\ activates => /\ campaigns[c].recipe = "bootstrap"
                      /\ gens[g].sealed = c /\ gens[g].pred = Baseline
      /\ gens' = [h \in Gens |-> IF h = g THEN [gens[h] EXCEPT !.state = "active"]
                                 ELSE IF activates /\ h = Baseline THEN [gens[h] EXCEPT !.state = "retired"]
                                 ELSE gens[h]]
      /\ campaigns' = [campaigns EXCEPT ![c].job = "ended", ![c].prepared = FALSE]
      /\ UNCHANGED contract

(***************************************************************************)
(* The rest of a campaign, as far as it matters here                        *)
(***************************************************************************)
Lease(c) ==
  /\ campaigns[c].state = "active" /\ campaigns[c].job = "queued"
  /\ campaigns' = [campaigns EXCEPT ![c].job = "leased"]
  /\ UNCHANGED <<gens, contract>>

\* An attempt fails or its lease expires: it is queued again while the campaign runs.
AttemptEnds(c) ==
  /\ campaigns[c].job = "leased"
  /\ \E state \in {"queued", "ended"} :
       /\ state = "queued" => campaigns[c].state = "active"
       /\ campaigns' = [campaigns EXCEPT ![c].job = state, ![c].prepared = FALSE]
  /\ UNCHANGED <<gens, contract>>

Cancel(c) ==
  /\ campaigns[c].state = "active"
  /\ campaigns' = [campaigns EXCEPT ![c].state = "cancelled", ![c].job = IF @ = "queued" THEN "ended" ELSE @]
  /\ UNCHANGED <<gens, contract>>

Finish(c) ==
  /\ campaigns[c].state = "active" /\ campaigns[c].job = "ended"
  /\ campaigns' = [campaigns EXCEPT ![c].state = "finished"]
  /\ UNCHANGED <<gens, contract>>

\* A server with another workflow contract takes over the database.
Upgrade ==
  /\ contract' \in Contracts \ {contract}
  /\ UNCHANGED <<campaigns, gens>>

Next ==
  \/ OpenCoalesced
  \/ \E c \in Campaigns, full \in BOOLEAN, sha \in Commits \cup {None} : Open(c, full, sha)
  \/ \E c \in Campaigns, g \in Gens, sha \in Commits :
       PinFirst(c, g, sha) \/ \E full \in BOOLEAN : OpenPinned(c, full, g, sha)
  \/ \E c \in Campaigns : PinAgain(c) \/ Seal(c) \/ Finalize(c) \/ Lease(c) \/ AttemptEnds(c) \/ Cancel(c) \/ Finish(c)
  \/ Upgrade

Spec == Init /\ [][Next]_vars

(***************************************************************************)
(* Properties                                                               *)
(***************************************************************************)
\* Rows have the shapes of the tables.
TypeOK ==
  /\ campaigns \in [Campaigns -> [state : {"absent", "active", "finished", "cancelled"},
                                  recipe : {"bootstrap", "incremental"}, gen : Gens \cup {None},
                                  job : {"absent", "queued", "leased", "ended"}, prepared : BOOLEAN]]
  /\ gens \in [Gens -> [state : {"absent", "building", "active", "retired"}, commit : Commits \cup {None},
                        contract : Contracts \cup {None}, pred : Gens \cup {None},
                        sealed : Campaigns \cup {None}, followUp : BOOLEAN]]
  /\ contract \in Contracts

\* The generation a running campaign pinned is never taken from it: another campaign's
\* pin abandons only generations nobody reviews, so its survey can still be received.
PinnedIsKept ==
  \A c \in ActiveCampaigns :
    campaigns[c].gen # None =>
      /\ gens[campaigns[c].gen].state \in {"building", "active"}
      /\ gens[campaigns[c].gen].state = "building" => gens[campaigns[c].gen].pred = Baseline

\* Leases of cancelled campaigns, crashes between pin and receipt and superseded
\* bootstraps never leave the repository with two baselines or two bootstraps.
OneBaseline ==
  /\ Cardinality(ActiveGens) <= 1
  /\ Cardinality({g \in Gens : gens[g].state = "building" /\ gens[g].pred = None}) <= 1

\* A building successor belongs to the baseline, and a commit that differs from it gets
\* one successor per contract however many campaigns ask for it.
OneSuccessorPerCommit ==
  \A g, h \in Gens :
    /\ gens[g].state = "building" /\ gens[g].pred # None
    /\ gens[h].state = "building" /\ gens[h].pred = gens[g].pred
    /\ gens[h].commit = gens[g].commit /\ gens[h].contract = gens[g].contract
    /\ gens[g].commit # gens[gens[g].pred].commit
    => g = h

\* Campaigns that open, pin and finish beside each other keep one lineage: one baseline,
\* one successor per commit, and none taken from the campaign that pinned it.
LineageSound == TypeOK /\ PinnedIsKept /\ OneBaseline /\ OneSuccessorPerCommit

\* What one step keeps of GenerationSteps.
GenerationStepsStep ==
  \A g \in Gens :
    /\ gens[g].state = "retired" => gens'[g].state = "retired"
    /\ gens[g].state # "active" /\ gens'[g].state = "active" => gens[g].sealed # None
    /\ gens[g].followUp => gens'[g].followUp
    /\ gens[g].state # "absent" => gens'[g].commit = gens[g].commit

\* Only a sealed bootstrap becomes the baseline, a retired generation stays retired, and
\* a request that was noted on a generation stays noted.
GenerationSteps == [][GenerationStepsStep]_vars
=============================================================================
