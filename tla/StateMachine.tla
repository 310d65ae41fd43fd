---------------------------- MODULE StateMachine ----------------------------
(***************************************************************************)
(* The two transition tables of loupe-core (state_machine.rs): which        *)
(* states of a job or of a finding a transition may leave, and the state    *)
(* it enters.  A transition has one target whatever state it leaves, so a   *)
(* table is a pair of records: From[t] the states t may leave, To[t] the    *)
(* state it enters.  `apply` succeeds exactly when the current state is in  *)
(* From[t].  "absent" stands for a row that is not in the database.         *)
(***************************************************************************)

JobStates == {"queued", "leased", "succeeded", "failed", "cancelled"}

TerminalJobStates == {"succeeded", "failed", "cancelled"}

ActiveJobStates == {"queued", "leased"}

JobFrom ==
  [enqueue            |-> {"absent"},
   lease              |-> {"queued"},
   heartbeat          |-> {"leased"},
   complete_succeeded |-> {"leased"},
   complete_failed    |-> {"leased"},
   cancel             |-> {"queued", "leased"},
   retry              |-> {"failed"},
   reap_to_queued     |-> {"leased"},
   reap_to_failed     |-> {"leased"}]

JobTo ==
  [enqueue            |-> "queued",
   lease              |-> "leased",
   heartbeat          |-> "leased",
   complete_succeeded |-> "succeeded",
   complete_failed    |-> "failed",
   cancel             |-> "cancelled",
   retry              |-> "queued",
   reap_to_queued     |-> "queued",
   reap_to_failed     |-> "failed"]

FindingStates ==
  {"pending", "validating", "awaiting_approval", "confirmed", "dismissed", "reported"}

FindingFrom ==
  [scan_accepted             |-> {"absent"},
   scan_auto_confirm         |-> {"pending"},
   scan_await_approval       |-> {"pending"},
   scan_require_verification |-> {"pending"},
   verdict_confirm           |-> {"validating"},
   verdict_await_approval    |-> {"validating"},
   verdict_dismiss           |-> {"validating"},
   deadline_expire           |-> {"validating"},
   approve                   |-> {"awaiting_approval"},
   reject                    |-> {"awaiting_approval"},
   retry_verification        |-> {"pending", "validating", "dismissed"},
   mark_reported             |-> {"confirmed"}]

FindingTo ==
  [scan_accepted             |-> "pending",
   scan_auto_confirm         |-> "confirmed",
   scan_await_approval       |-> "awaiting_approval",
   scan_require_verification |-> "validating",
   verdict_confirm           |-> "confirmed",
   verdict_await_approval    |-> "awaiting_approval",
   verdict_dismiss           |-> "dismissed",
   deadline_expire           |-> "dismissed",
   approve                   |-> "confirmed",
   reject                    |-> "dismissed",
   retry_verification        |-> "validating",
   mark_reported             |-> "reported"]

(***************************************************************************)
(* roll_up_verdicts: the state a finding takes once the verdict rows are    *)
(* summarised.  Only a validating finding moves; a terminal inconclusive or *)
(* any dismissal wins over a confirmation.                                  *)
(***************************************************************************)
\* Fault: a verdict moves a finding that is settled already.
RollUpSettled(current, hasConfirmed, hasDismissed, terminalInconclusive, requireApproval) ==
  IF terminalInconclusive \/ hasDismissed THEN FindingTo.verdict_dismiss
  ELSE IF ~ hasConfirmed THEN current
  ELSE IF requireApproval THEN FindingTo.verdict_await_approval
  ELSE FindingTo.verdict_confirm

RollUpVerdicts(current, hasConfirmed, hasDismissed, terminalInconclusive, requireApproval) ==
  IF current # "validating" THEN current
  ELSE IF terminalInconclusive \/ hasDismissed THEN FindingTo.verdict_dismiss
  ELSE IF ~ hasConfirmed THEN current
  ELSE IF requireApproval THEN FindingTo.verdict_await_approval
  ELSE FindingTo.verdict_confirm
=============================================================================
