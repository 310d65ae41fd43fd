--------------------------- MODULE ReportDispatch ---------------------------
(***************************************************************************)
(* Reporting confirmed findings to the outside: a batch is selected in the  *)
(* transaction that confirms its members (or on the operator's retry), is   *)
(* delivered after that transaction has committed, and its receipt marks    *)
(* the members reported in further transactions.  The repository may be     *)
(* deleted and its row numbers used again while a delivery is under way;    *)
(* the report identity of a row tells the two apart.                        *)
(***************************************************************************)
EXTENDS Naturals

CONSTANTS
  Findings,       \* row ids of findings; SQLite uses a deleted one again
  Jobs,           \* scan jobs
  Identities,     \* report identities, random and never drawn twice
  Dispatchers,    \* request handlers that may be dispatching at once
  None,
  Destinations,   \* reporting settings the operator gives the repository
  ApprovalModes   \* require_approval settings

ASSUME DestinationsAssumption ==
  /\ Destinations \subseteq {"manual", "github", "email"}
  /\ ApprovalModes \subseteq BOOLEAN
  /\ None \notin Jobs \cup Identities

VARIABLES
  rows,       \* the findings table
  drawn,      \* identities drawn so far
  settings,   \* the repository's destination and approval setting
  dispatch,   \* what each handler still has to deliver and to mark
  delivered,  \* external: how often a row went out, where 2 is more than once
  excused     \* auxiliary: rows selected twice at once, or sent but not recorded

vars == <<rows, drawn, settings, dispatch, delivered, excused>>

RowStates == {"absent", "pending", "validating", "awaiting_approval", "confirmed",
              "dismissed", "reported"}

NoRow == [state |-> "absent", job |-> None, identity |-> None]

\* A member of a receipt: the row id and the identity it had when selected.
Members == Findings \X Identities

Idle == [to |-> "manual", todo |-> {}, sent |-> {}]

Busy(d) == dispatch[d].todo # {} \/ dispatch[d].sent # {}

InFlight == UNION {dispatch[d].todo \cup dispatch[d].sent : d \in Dispatchers}

MemberOf(f) == <<f, rows[f].identity>>

Init ==
  /\ rows = [f \in Findings |-> NoRow]
  /\ drawn = {}
  /\ settings \in [to : Destinations, approve : ApprovalModes]
  /\ dispatch = [d \in Dispatchers |-> Idle]
  /\ delivered = [m \in Members |-> 0]
  /\ excused = {}

(***************************************************************************)
(* Selection, in the transaction of the caller and after its changes to the *)
(* rows.  A Manual repository or an empty selection prepares no report; a   *)
(* missing credential or an unreadable row makes it unavailable.  In all    *)
(* three cases the handler has nothing to deliver.                          *)
(***************************************************************************)
Select(selection) == {f \in selection : rows'[f].state = "confirmed"}

Prepare(d, selection) ==
  LET batch == {<<f, rows'[f].identity>> : f \in Select(selection)}
  IN  /\ ~ Busy(d)
      /\ \/ /\ settings.to # "manual"
            /\ batch # {}
            /\ dispatch' = [dispatch EXCEPT ![d] =
                 [to |-> settings.to, todo |-> batch, sent |-> {}]]
            /\ excused' = excused \cup (batch \cap InFlight)
         \/ UNCHANGED <<dispatch, excused>>

\* Only a running scan submits: none of its findings is settled yet.
Submit(j, f, i) ==
  /\ rows[f].state = "absent"
  /\ \A g \in Findings : rows[g].job = j => rows[g].state = "pending"
  /\ i \notin drawn
  /\ rows' = [rows EXCEPT ![f] = [state |-> "pending", job |-> j, identity |-> i]]
  /\ drawn' = drawn \cup {i}
  /\ UNCHANGED <<settings, dispatch, delivered, excused>>

Confirmed == IF settings.approve THEN "awaiting_approval" ELSE "confirmed"

\* Each pending finding of the scan goes to the verifier or is taken as it is.
CompleteScan(d, j, verify) ==
  /\ \E f \in Findings : rows[f].state = "pending" /\ rows[f].job = j
  /\ rows' = [f \in Findings |->
       IF rows[f].state # "pending" \/ rows[f].job # j THEN rows[f]
       ELSE [rows[f] EXCEPT !.state = IF f \in verify THEN "validating" ELSE Confirmed]]
  /\ Prepare(d, {f \in Findings : rows[f].job = j})
  /\ UNCHANGED <<drawn, settings, delivered>>

\* Fault: a verdict reopens a settled finding.
SubmitLateVerdict(d, f, confirmed) ==
  /\ rows[f].state # "absent"
  /\ rows' = [rows EXCEPT ![f].state = IF confirmed THEN Confirmed ELSE "dismissed"]
  /\ Prepare(d, {f})
  /\ UNCHANGED <<drawn, settings, delivered>>

\* A report is prepared only when the rolled-up state is confirmed.
SubmitVerdict(d, f, confirmed) ==
  /\ rows[f].state = "validating"
  /\ rows' = [rows EXCEPT ![f].state = IF confirmed THEN Confirmed ELSE "dismissed"]
  /\ Prepare(d, {f})
  /\ UNCHANGED <<drawn, settings, delivered>>

Approve(d, f) ==
  /\ rows[f].state = "awaiting_approval"
  /\ rows' = [rows EXCEPT ![f].state = "confirmed"]
  /\ Prepare(d, {f})
  /\ UNCHANGED <<drawn, settings, delivered>>

\* A reported finding and a Manual repository are answered without a report.
RetryReport(d, f) ==
  /\ rows[f].state = "confirmed"
  /\ settings.to # "manual"
  /\ UNCHANGED <<rows, drawn, settings, delivered>>
  /\ Prepare(d, {f})

UpdateReporting ==
  /\ settings' \in [to : Destinations, approve : ApprovalModes]
  /\ UNCHANGED <<rows, drawn, dispatch, delivered, excused>>

\* Deleting the repository cascades to its findings.
DeleteRepository ==
  /\ rows' = [f \in Findings |-> NoRow]
  /\ UNCHANGED <<drawn, settings, dispatch, delivered, excused>>

(***************************************************************************)
(* Delivery and the receipt.  An issue is opened for one entry and that     *)
(* entry is marked before the next is tried; a mail carries the whole       *)
(* batch, which is marked in one transaction.                               *)
(***************************************************************************)
More(n) == IF n = 0 THEN 1 ELSE 2

SendOut(batch) == delivered' = [m \in Members |-> IF m \in batch THEN More(delivered[m])
                                                  ELSE delivered[m]]

Portion(d, batch) ==
  IF dispatch[d].to = "github" THEN \E m \in dispatch[d].todo : batch = {m}
  ELSE batch = dispatch[d].todo

Deliver(d, batch) ==
  /\ dispatch[d].sent = {}
  /\ dispatch[d].todo # {}
  /\ Portion(d, batch)
  /\ SendOut(batch)
  /\ dispatch' = [dispatch EXCEPT ![d].todo = @ \ batch, ![d].sent = batch]
  /\ UNCHANGED <<rows, drawn, settings, excused>>

\* The delivery fails, times out after it took effect, or is dropped with its
\* connection: the rest of the batch is given up.
DeliverFails(d, batch, arrived) ==
  /\ dispatch[d].sent = {}
  /\ dispatch[d].todo # {}
  /\ Portion(d, batch)
  /\ SendOut(IF arrived THEN batch ELSE {})
  /\ excused' = IF arrived THEN excused \cup batch ELSE excused
  /\ dispatch' = [dispatch EXCEPT ![d] = Idle]
  /\ UNCHANGED <<rows, drawn, settings>>

\* The member is still the row it was when it was selected.
Valid(m) == rows[m[1]].identity = m[2]

\* Fault: rows are marked by number, whatever identity they have.
MarkByNumber(d) ==
  /\ dispatch[d].sent # {}
  /\ rows' = [f \in Findings |->
       IF (\E m \in dispatch[d].sent : m[1] = f) /\ rows[f].state = "confirmed"
       THEN [rows[f] EXCEPT !.state = "reported"] ELSE rows[f]]
  /\ dispatch' = [dispatch EXCEPT ![d].sent = {}]
  /\ UNCHANGED <<drawn, settings, delivered, excused>>

\* Fault: only one member of a delivered batch is marked.
MarkOne(d) ==
  /\ dispatch[d].sent # {}
  /\ \A m \in dispatch[d].sent : Valid(m)
  /\ \E f \in Findings :
       /\ MemberOf(f) \in dispatch[d].sent /\ rows[f].state = "confirmed"
       /\ rows' = [rows EXCEPT ![f].state = "reported"]
  /\ dispatch' = [dispatch EXCEPT ![d].sent = {}]
  /\ UNCHANGED <<drawn, settings, delivered, excused>>

Mark(d) ==
  /\ dispatch[d].sent # {}
  /\ \A m \in dispatch[d].sent : Valid(m)
  /\ rows' = [f \in Findings |->
       IF MemberOf(f) \in dispatch[d].sent /\ rows[f].state = "confirmed"
       THEN [rows[f] EXCEPT !.state = "reported"] ELSE rows[f]]
  /\ dispatch' = [dispatch EXCEPT ![d].sent = {}]
  /\ UNCHANGED <<drawn, settings, delivered, excused>>

\* A stale member, or the database, fails the receipt: nothing is marked and the
\* rest of the batch is given up.
MarkFails(d) ==
  /\ dispatch[d].sent # {}
  /\ dispatch' = [dispatch EXCEPT ![d] = Idle]
  /\ excused' = excused \cup dispatch[d].sent
  /\ UNCHANGED <<rows, drawn, settings, delivered>>

\* The server stops: no batch survives in the database.
Crash ==
  /\ \E d \in Dispatchers : Busy(d)
  /\ dispatch' = [d \in Dispatchers |-> Idle]
  /\ excused' = excused \cup UNION {dispatch[d].sent : d \in Dispatchers}
  /\ UNCHANGED <<rows, drawn, settings, delivered>>

Dispatching(d) ==
  \/ \E batch \in SUBSET dispatch[d].todo : Deliver(d, batch)
  \/ \E batch \in SUBSET dispatch[d].todo, arrived \in BOOLEAN : DeliverFails(d, batch, arrived)
  \/ Mark(d)
  \/ MarkFails(d)

Preparing(d) ==
  \/ \E j \in Jobs, verify \in SUBSET Findings : CompleteScan(d, j, verify)
  \/ \E f \in Findings, confirmed \in BOOLEAN : SubmitVerdict(d, f, confirmed)
  \/ \E f \in Findings : Approve(d, f) \/ RetryReport(d, f)

Next ==
  \/ \E d \in Dispatchers : Dispatching(d) \/ Preparing(d)
  \/ \E j \in Jobs, f \in Findings, i \in Identities : Submit(j, f, i)
  \/ UpdateReporting
  \/ DeleteRepository
  \/ Crash

Spec == Init /\ [][Next]_vars

(***************************************************************************)
(* Properties                                                               *)
(***************************************************************************)
\* Rows, receipts and the delivery count keep their types; every stored row has an
\* identity and no two share one.
TypeOK ==
  /\ rows \in [Findings -> [state : RowStates, job : Jobs \cup {None},
                            identity : Identities \cup {None}]]
  /\ drawn \subseteq Identities
  /\ settings \in [to : Destinations, approve : ApprovalModes]
  /\ dispatch \in [Dispatchers -> [to : {"manual", "github", "email"},
                                   todo : SUBSET Members, sent : SUBSET Members]]
  /\ delivered \in [Members -> 0 .. 2]
  /\ excused \subseteq Members
  /\ \A f \in Findings : rows[f].state = "absent" <=> rows[f].identity = None
  /\ \A f, g \in Findings : rows[f].identity = rows[g].identity /\ f # g => rows[f] = NoRow

\* What the database calls reported did go out: a receipt that outlived its
\* repository never marks a row that took over the number of the one delivered.
ReportedWasDelivered ==
  \A f \in Findings : rows[f].state = "reported" => delivered[MemberOf(f)] > 0

\* A finding goes out twice only if two handlers had selected it at once, or if a
\* delivery that took effect was never recorded: retry-report on its own never
\* repeats what an earlier dispatch has marked.
DuplicatesExplained ==
  \A m \in Members : delivered[m] > 1 => m \in excused

\* A GitHub dispatch never has more than one issue open that is not yet recorded, so
\* that a crash repeats one issue at most, whatever the size of the batch.
OneUnrecordedIssue ==
  \A d \in Dispatchers : dispatch[d].to = "github" =>
    \A m, n \in dispatch[d].sent : m = n

\* Whatever fails or overlaps, what goes out twice has a reason, and a GitHub dispatch
\* has one unrecorded issue at most (reports.rs, github.rs).
RepeatsExplained == TypeOK /\ DuplicatesExplained /\ OneUnrecordedIssue

\* A reported row stays reported until its repository is deleted, and keeps its
\* identity: retries, late receipts and crashes never reopen it.
ReportedIsFinal ==
  [][\A f \in Findings : rows[f].state = "reported" =>
       rows'[f] = rows[f] \/ rows'[f] = NoRow]_vars

=============================================================================
