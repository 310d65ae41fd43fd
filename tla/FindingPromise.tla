--------------------------- MODULE FindingPromise ---------------------------
(***************************************************************************)
(* What loupe promises of a finding, whatever jobs, leases, verdicts and    *)
(* recoveries go on behind it.  A finding is open from the moment a worker  *)
(* submits it.  An open finding may be withdrawn (its scan failed, was      *)
(* cancelled or ran out of attempts), refused or accepted.  A refusal is    *)
(* final.  An accepted finding is only ever published, once.                *)
(***************************************************************************)
CONSTANT Findings

VARIABLE stage

Stages == {"none", "open", "refused", "accepted", "published"}

Moves ==
  {<<"none", "open">>, <<"open", "none">>, <<"open", "refused">>,
   <<"open", "accepted">>, <<"accepted", "published">>}

Init == stage = [f \in Findings |-> "none"]

\* One transaction may settle every finding of a scan.
Next ==
  /\ stage' \in [Findings -> Stages]
  /\ \A f \in Findings : stage'[f] = stage[f] \/ <<stage[f], stage'[f]>> \in Moves

Spec == Init /\ [][Next]_stage
=============================================================================
