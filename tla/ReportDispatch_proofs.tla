------------------------ MODULE ReportDispatch_proofs ------------------------
(***************************************************************************)
(* Proofs about reporting: what the database calls reported has gone out,   *)
(* and a finding goes out twice only in the two ways the code leaves open.  *)
(***************************************************************************)
EXTENDS ReportDispatch, TLAPS

\* A row's identity has been drawn, and so has that of every member ever selected.
\* A member whose row still exists is confirmed, or reported by another receipt.
Selected ==
  /\ \A f \in Findings : rows[f].identity \in drawn \cup {None}
  /\ \A d \in Dispatchers : \A m \in dispatch[d].todo \cup dispatch[d].sent :
       /\ m[2] \in drawn
       /\ Valid(m) => rows[m[1]].state \in {"confirmed", "reported"}
  /\ \A m \in Members : delivered[m] > 0 => m[2] \in drawn

\* A member on a receipt has gone out.
SentWasDelivered ==
  \A d \in Dispatchers : \A m \in dispatch[d].sent : delivered[m] > 0

\* A member that is not excused is in flight once, and has not gone out while it waits.
WaitsOnce ==
  \A d \in Dispatchers : \A m \in dispatch[d].todo :
    m \in excused \/ /\ delivered[m] = 0
                     /\ m \notin dispatch[d].sent
                     /\ \A e \in Dispatchers : e # d => m \notin dispatch[e].todo \cup dispatch[e].sent

\* What went out and is not excused is on a receipt, marked, or gone with its row.
Recorded ==
  \A m \in Members : delivered[m] > 0 =>
    \/ m \in excused
    \/ \E d \in Dispatchers : m \in dispatch[d].sent
    \/ ~ Valid(m)
    \/ rows[m[1]].state = "reported"

DispatchInv ==
  /\ TypeOK /\ Selected /\ SentWasDelivered /\ WaitsOnce /\ Recorded
  /\ ReportedWasDelivered /\ DuplicatesExplained

\* What confirming, dismissing and approving do to the rows: unsettled rows get another
\* state of a stored, unreported row, and no row changes its identity.
Settle ==
  /\ rows' \in [Findings -> [state : RowStates, job : Jobs \cup {None},
                             identity : Identities \cup {None}]]
  /\ \A f \in Findings :
       \/ rows'[f] = rows[f]
       \/ /\ rows[f].state \notin {"absent", "confirmed", "reported"}
          /\ rows'[f].state \notin {"absent", "reported"}
          /\ rows'[f].identity = rows[f].identity

\* The batch a handler selects from the rows its transaction leaves.
Batch(selection) == {<<f, rows'[f].identity>> : f \in Select(selection)}

\* A selected member is a confirmed row with a drawn identity.
LEMMA BatchRows ==
  ASSUME TypeOK, Selected, Settle, NEW selection \in SUBSET Findings,
         NEW m \in Batch(selection)
  PROVE  /\ m \in Members
         /\ m[2] \in drawn
         /\ rows'[m[1]].state = "confirmed"
         /\ rows'[m[1]].identity = m[2]
<1>1. PICK f \in Select(selection) : m = <<f, rows'[f].identity>>
  BY DEF Batch
<1>2. f \in Findings /\ rows'[f].state = "confirmed"
  BY DEF Select
<1>3. rows'[f].identity = rows[f].identity /\ rows[f].state # "absent"
  BY <1>2 DEF Settle
<1>4. rows[f].identity \in Identities /\ rows[f].identity \in drawn
  BY <1>2, <1>3 DEF TypeOK, Selected
<1> QED
  BY <1>1, <1>2, <1>3, <1>4 DEF Members

\* Settling keeps every stored row valid for the members that name it.
LEMMA SettleValid ==
  ASSUME TypeOK, Settle, NEW m \in Members
  PROVE  /\ Valid(m)' <=> Valid(m)
         /\ rows[m[1]].state \in {"confirmed", "reported"} => rows'[m[1]] = rows[m[1]]
<1>1. m[1] \in Findings
  BY DEF Members
<1> QED
  BY <1>1 DEF Settle, Valid

\* Settling keeps the types of the rows and the uniqueness of identities.
LEMMA SettleType ==
  ASSUME TypeOK, Settle
  PROVE  /\ \A f \in Findings : rows'[f].state = "absent" <=> rows'[f].identity = None
         /\ \A f, g \in Findings :
              rows'[f].identity = rows'[g].identity /\ f # g => rows'[f] = NoRow
<1>1. \A f \in Findings : rows'[f].state = "absent" <=> rows'[f].identity = None
  BY DEF Settle, TypeOK
<1>2. ASSUME NEW f \in Findings, NEW g \in Findings,
             rows'[f].identity = rows'[g].identity, f # g
      PROVE  rows'[f] = NoRow
  <2>1. rows[f].identity = rows[g].identity
    BY <1>2 DEF Settle
  <2>2. rows[f] = NoRow
    BY <1>2, <2>1 DEF TypeOK
  <2> QED
    BY <2>2 DEF Settle, NoRow
<1> QED
  BY <1>1, <1>2

\* Selecting a batch in the transaction that settles rows keeps the invariant.
LEMMA PrepareKept ==
  ASSUME DispatchInv, NEW d \in Dispatchers, NEW selection \in SUBSET Findings,
         Settle, Prepare(d, selection), UNCHANGED <<drawn, settings, delivered>>
  PROVE  DispatchInv'
<1> DEFINE batch == Batch(selection)
<1>inv. TypeOK /\ Selected /\ SentWasDelivered /\ WaitsOnce /\ Recorded
        /\ ReportedWasDelivered /\ DuplicatesExplained
  BY DEF DispatchInv
<1>0. drawn' = drawn /\ settings' = settings /\ delivered' = delivered
  OBVIOUS
<1>b. \A m \in batch : /\ m \in Members
                       /\ m[2] \in drawn
                       /\ rows'[m[1]].state = "confirmed"
                       /\ rows'[m[1]].identity = m[2]
  BY <1>inv, BatchRows
<1>s. ~ Busy(d)
  BY DEF Prepare
<1>c. \/ /\ dispatch' = [dispatch EXCEPT ![d] = [to |-> settings.to, todo |-> batch, sent |-> {}]]
         /\ excused' = excused \cup (batch \cap InFlight)
      \/ dispatch' = dispatch /\ excused' = excused
  BY DEF Prepare, Batch
<1> HIDE DEF batch
<1>d. settings.to \in {"manual", "github", "email"}
  BY <1>inv, DestinationsAssumption DEF TypeOK
<1>e. /\ dispatch' \in [Dispatchers -> [to : {"manual", "github", "email"},
                                        todo : SUBSET Members, sent : SUBSET Members]]
      /\ excused' \subseteq Members
      /\ excused \subseteq excused'
  BY <1>inv, <1>b, <1>c, <1>d DEF TypeOK
<1>f. /\ \A e \in Dispatchers : dispatch'[e].sent = dispatch[e].sent
      /\ \A e \in Dispatchers :
           \/ dispatch'[e].todo = dispatch[e].todo
           \/ /\ e = d
              /\ dispatch'[e].todo = batch
              /\ excused' = excused \cup (batch \cap InFlight)
  <2>1. CASE dispatch' = dispatch /\ excused' = excused
    BY <2>1
  <2>2. CASE /\ dispatch' = [dispatch EXCEPT ![d] = [to |-> settings.to, todo |-> batch, sent |-> {}]]
             /\ excused' = excused \cup (batch \cap InFlight)
    <3>1. dispatch[d].sent = {}
      BY <1>s DEF Busy
    <3>2. ASSUME NEW e \in Dispatchers, e # d
          PROVE  dispatch'[e] = dispatch[e]
      BY <2>2, <3>2, <1>inv DEF TypeOK
    <3>3. dispatch'[d] = [to |-> settings.to, todo |-> batch, sent |-> {}]
      BY <2>2, <1>inv DEF TypeOK
    <3> QED
      BY <2>2, <3>1, <3>2, <3>3
  <2> QED
    BY <1>c, <2>1, <2>2
<1>g. \A e \in Dispatchers : dispatch[e].todo \subseteq Members /\ dispatch[e].sent \subseteq Members
  BY <1>inv DEF TypeOK
<1>1. TypeOK'
  <2>1. rows' \in [Findings -> [state : RowStates, job : Jobs \cup {None},
                                identity : Identities \cup {None}]]
    BY DEF Settle
  <2> QED
    BY <1>inv, <1>0, <1>e, <2>1, SettleType DEF TypeOK
<1>v. \A m \in Members :
        /\ Valid(m)' <=> Valid(m)
        /\ rows[m[1]].state \in {"confirmed", "reported"} => rows'[m[1]] = rows[m[1]]
  BY <1>inv, SettleValid
<1>2. Selected'
  <2>1. \A f \in Findings : rows'[f].identity \in drawn \cup {None}
    BY <1>inv DEF Settle, Selected
  <2>2. ASSUME NEW e \in Dispatchers, NEW m \in dispatch'[e].todo \cup dispatch'[e].sent
        PROVE  m[2] \in drawn /\ (Valid(m)' => rows'[m[1]].state \in {"confirmed", "reported"})
    <3>1. CASE m \in dispatch[e].todo \cup dispatch[e].sent
      BY <1>inv, <1>g, <1>v, <3>1 DEF Selected
    <3>2. CASE m \in batch
      BY <1>b, <3>2
    <3> QED
      BY <1>f, <2>2, <3>1, <3>2
  <2> QED
    BY <1>inv, <1>0, <2>1, <2>2 DEF Selected
<1>3. SentWasDelivered'
  BY <1>inv, <1>0, <1>f DEF SentWasDelivered
<1>4. WaitsOnce'
  <2> SUFFICES ASSUME NEW e \in Dispatchers, NEW m \in dispatch'[e].todo, m \notin excused'
               PROVE  /\ delivered[m] = 0
                      /\ m \notin dispatch'[e].sent
                      /\ \A h \in Dispatchers : h # e => m \notin dispatch'[h].todo \cup dispatch'[h].sent
    BY <1>0 DEF WaitsOnce
  <2>1. m \notin excused
    BY <1>e
  <2>2. CASE m \in batch /\ excused' = excused \cup (batch \cap InFlight)
    <3>1. m \notin InFlight
      BY <2>2
    <3>2. \A h \in Dispatchers : m \notin dispatch[h].todo \cup dispatch[h].sent
      BY <3>1 DEF InFlight
    <3>3. m \in Members /\ rows'[m[1]].state = "confirmed" /\ rows'[m[1]].identity = m[2]
      BY <1>b, <2>2
    <3>4. Valid(m) /\ rows[m[1]].state # "reported"
      BY <1>v, <3>3 DEF Valid
    <3>5. ~ (delivered[m] > 0)
      BY <1>inv, <2>1, <3>2, <3>3, <3>4 DEF Recorded
    <3>6. delivered[m] = 0
      BY <1>inv, <3>3, <3>5 DEF TypeOK
    <3>7. e = d
      BY <1>f, <3>2
    <3> QED
      BY <1>f, <3>2, <3>6, <3>7
  <2>3. CASE m \in dispatch[e].todo
    <3>1. /\ delivered[m] = 0
          /\ m \notin dispatch[e].sent
          /\ \A h \in Dispatchers : h # e => m \notin dispatch[h].todo \cup dispatch[h].sent
      BY <1>inv, <2>1, <2>3 DEF WaitsOnce
    <3>2. m \in InFlight
      BY <2>3 DEF InFlight
    <3> QED
      BY <1>f, <3>1, <3>2
  <2> QED
    BY <1>f, <2>2, <2>3
<1>5. Recorded'
  <2> SUFFICES ASSUME NEW m \in Members, delivered[m] > 0
               PROVE  \/ m \in excused'
                      \/ \E e \in Dispatchers : m \in dispatch'[e].sent
                      \/ ~ Valid(m)'
                      \/ rows'[m[1]].state = "reported"
    BY <1>0 DEF Recorded
  <2> QED
    BY <1>inv, <1>e, <1>f, <1>v DEF Recorded
<1>6. ReportedWasDelivered'
  BY <1>inv, <1>0 DEF ReportedWasDelivered, Settle, MemberOf
<1>7. DuplicatesExplained'
  BY <1>inv, <1>0, <1>e DEF DuplicatesExplained
<1> QED
  BY <1>1, <1>2, <1>3, <1>4, <1>5, <1>6, <1>7 DEF DispatchInv

\* Every request that selects a batch settles rows first.
LEMMA PreparingKept ==
  ASSUME DispatchInv, NEW d \in Dispatchers, Preparing(d)
  PROVE  DispatchInv'
<1>t. TypeOK
  BY DEF DispatchInv
<1>c. Confirmed \in {"awaiting_approval", "confirmed"}
  BY DEF Confirmed
<1>1. ASSUME NEW j \in Jobs, NEW verify \in SUBSET Findings, CompleteScan(d, j, verify)
      PROVE  DispatchInv'
  <2>1. Settle
    BY <1>1, <1>c, <1>t DEF CompleteScan, Settle, TypeOK, RowStates
  <2>2. {f \in Findings : rows[f].job = j} \in SUBSET Findings
    OBVIOUS
  <2> QED
    BY <1>1, <2>1, <2>2, PrepareKept DEF CompleteScan
<1>2. ASSUME NEW f \in Findings, NEW confirmed \in BOOLEAN, SubmitVerdict(d, f, confirmed)
      PROVE  DispatchInv'
  <2>1. Settle
    BY <1>2, <1>c, <1>t DEF SubmitVerdict, Settle, TypeOK, RowStates
  <2> QED
    BY <1>2, <2>1, PrepareKept DEF SubmitVerdict
<1>3. ASSUME NEW f \in Findings, Approve(d, f)
      PROVE  DispatchInv'
  <2>1. Settle
    BY <1>3, <1>t DEF Approve, Settle, TypeOK, RowStates
  <2> QED
    BY <1>3, <2>1, PrepareKept DEF Approve
<1>4. ASSUME NEW f \in Findings, RetryReport(d, f)
      PROVE  DispatchInv'
  <2>1. Settle
    BY <1>4, <1>t DEF RetryReport, Settle, TypeOK
  <2> QED
    BY <1>4, <2>1, PrepareKept DEF RetryReport
<1> QED
  BY <1>1, <1>2, <1>3, <1>4 DEF Preparing

\* What a delivery takes from the batch, and what it does to the count.
LEMMA Sending ==
  ASSUME TypeOK, NEW batch \in SUBSET Members, SendOut(batch)
  PROVE  /\ delivered' \in [Members -> 0 .. 2]
         /\ \A m \in batch : delivered'[m] > 0 /\ (delivered'[m] > 1 => delivered[m] > 0)
         /\ \A m \in Members : m \notin batch => delivered'[m] = delivered[m]
         /\ \A m \in Members : delivered[m] > 0 => delivered'[m] > 0
<1>1. \A m \in Members : delivered[m] \in 0 .. 2
  BY DEF TypeOK
<1>2. delivered' = [m \in Members |-> IF m \in batch THEN More(delivered[m]) ELSE delivered[m]]
  BY DEF SendOut
<1>3. \A n \in 0 .. 2 : More(n) \in 1 .. 2 /\ (More(n) > 1 => n > 0)
  BY DEF More
<1>4. \A m \in Members : delivered'[m] = IF m \in batch THEN More(delivered[m]) ELSE delivered[m]
  BY <1>2
<1>5. \A m \in Members : delivered'[m] \in 0 .. 2
  BY <1>1, <1>3, <1>4
<1>6. delivered' \in [Members -> 0 .. 2]
  BY <1>2, <1>5
<1>7. \A m \in batch : delivered'[m] > 0 /\ (delivered'[m] > 1 => delivered[m] > 0)
  BY <1>1, <1>3, <1>4
<1> QED
  BY <1>1, <1>3, <1>4, <1>6, <1>7

\* A member waiting for another handler cannot be in a batch unless it is excused.
LEMMA DeliverKept ==
  ASSUME DispatchInv, NEW d \in Dispatchers, NEW batch \in SUBSET Members, Deliver(d, batch)
  PROVE  DispatchInv'
<1>inv. TypeOK /\ Selected /\ SentWasDelivered /\ WaitsOnce /\ Recorded
        /\ ReportedWasDelivered /\ DuplicatesExplained
  BY DEF DispatchInv
<1>0. rows' = rows /\ drawn' = drawn /\ settings' = settings /\ excused' = excused
  BY DEF Deliver
<1>1. batch \subseteq dispatch[d].todo /\ dispatch[d].sent = {}
  BY DEF Deliver, Portion
<1>2. /\ dispatch'[d].todo = dispatch[d].todo \ batch
      /\ dispatch'[d].sent = batch
      /\ \A e \in Dispatchers : e # d => dispatch'[e] = dispatch[e]
  BY <1>inv DEF Deliver, TypeOK
<1>3. dispatch' \in [Dispatchers -> [to : {"manual", "github", "email"},
                                     todo : SUBSET Members, sent : SUBSET Members]]
  <2>1. dispatch[d] \in [to : {"manual", "github", "email"},
                         todo : SUBSET Members, sent : SUBSET Members]
    BY <1>inv DEF TypeOK
  <2>2. dispatch[d].todo \ batch \in SUBSET Members
    BY <2>1
  <2>3. dispatch' = [dispatch EXCEPT ![d] =
                       [dispatch[d] EXCEPT !.todo = dispatch[d].todo \ batch, !.sent = batch]]
    BY <1>inv DEF Deliver, TypeOK
  <2>4. [dispatch[d] EXCEPT !.todo = dispatch[d].todo \ batch, !.sent = batch]
          \in [to : {"manual", "github", "email"}, todo : SUBSET Members, sent : SUBSET Members]
    BY <2>1, <2>2
  <2> QED
    BY <1>inv, <2>3, <2>4 DEF TypeOK
<1>4. SendOut(batch)
  BY DEF Deliver
<1>s. /\ delivered' \in [Members -> 0 .. 2]
      /\ \A m \in batch : delivered'[m] > 0 /\ (delivered'[m] > 1 => delivered[m] > 0)
      /\ \A m \in Members : m \notin batch => delivered'[m] = delivered[m]
      /\ \A m \in Members : delivered[m] > 0 => delivered'[m] > 0
  BY <1>inv, <1>4, Sending
<1>v. \A m : Valid(m)' <=> Valid(m)
  BY <1>0 DEF Valid
<1>g. \A e \in Dispatchers : dispatch[e].todo \subseteq Members /\ dispatch[e].sent \subseteq Members
  BY <1>inv DEF TypeOK
<1>5. TypeOK'
  BY <1>inv, <1>0, <1>3, <1>s DEF TypeOK
<1>6. Selected'
  <2>1. \A e \in Dispatchers : \A m \in dispatch'[e].todo \cup dispatch'[e].sent :
          m[2] \in drawn /\ (Valid(m) => rows[m[1]].state \in {"confirmed", "reported"})
    BY <1>inv, <1>1, <1>2 DEF Selected
  <2>2. \A m \in Members : delivered'[m] > 0 => m[2] \in drawn
    BY <1>inv, <1>1, <1>s DEF Selected
  <2> QED
    BY <1>inv, <1>0, <1>v, <2>1, <2>2 DEF Selected
<1>7. SentWasDelivered'
  BY <1>inv, <1>2, <1>g, <1>s DEF SentWasDelivered
<1>8. WaitsOnce'
  <2> SUFFICES ASSUME NEW e \in Dispatchers, NEW m \in dispatch'[e].todo, m \notin excused
               PROVE  /\ delivered'[m] = 0
                      /\ m \notin dispatch'[e].sent
                      /\ \A h \in Dispatchers : h # e => m \notin dispatch'[h].todo \cup dispatch'[h].sent
    BY <1>0 DEF WaitsOnce
  <2>1. m \in dispatch[e].todo /\ (m \notin batch \/ e # d)
    BY <1>2
  <2>2. /\ delivered[m] = 0
        /\ m \notin dispatch[e].sent
        /\ \A h \in Dispatchers : h # e => m \notin dispatch[h].todo \cup dispatch[h].sent
    BY <1>inv, <2>1 DEF WaitsOnce
  <2>3. m \notin batch
    BY <1>1, <2>1, <2>2
  <2>4. delivered'[m] = 0
    BY <1>g, <1>s, <2>1, <2>2, <2>3
  <2> QED
    BY <1>2, <2>2, <2>3, <2>4
<1>9. Recorded'
  <2> SUFFICES ASSUME NEW m \in Members, delivered'[m] > 0
               PROVE  \/ m \in excused
                      \/ \E e \in Dispatchers : m \in dispatch'[e].sent
                      \/ ~ Valid(m)
                      \/ rows[m[1]].state = "reported"
    BY <1>0, <1>v DEF Recorded
  <2>1. CASE m \in batch
    BY <1>2, <2>1
  <2>2. CASE m \notin batch
    <3>1. delivered[m] > 0
      BY <1>s, <2>2
    <3>2. ASSUME NEW e \in Dispatchers, m \in dispatch[e].sent
          PROVE  m \in dispatch'[e].sent
      BY <1>1, <1>2, <3>2
    <3> QED
      BY <1>inv, <3>1, <3>2 DEF Recorded
  <2> QED
    BY <2>1, <2>2
<1>10. ReportedWasDelivered'
  <2> SUFFICES ASSUME NEW f \in Findings, rows[f].state = "reported"
               PROVE  delivered'[MemberOf(f)] > 0
    BY <1>0 DEF ReportedWasDelivered, MemberOf
  <2>1. MemberOf(f) \in Members
    BY <1>inv DEF TypeOK, MemberOf, Members
  <2> QED
    BY <1>inv, <1>s, <2>1 DEF ReportedWasDelivered
<1>11. DuplicatesExplained'
  <2> SUFFICES ASSUME NEW m \in Members, delivered'[m] > 1
               PROVE  m \in excused
    BY <1>0 DEF DuplicatesExplained
  <2>1. CASE m \in batch
    <3>1. m \in dispatch[d].todo /\ ~ (delivered[m] = 0)
      BY <1>1, <1>s, <2>1
    <3> QED
      BY <1>inv, <3>1 DEF WaitsOnce
  <2>2. CASE m \notin batch
    BY <1>inv, <1>s, <2>2 DEF DuplicatesExplained
  <2> QED
    BY <2>1, <2>2
<1> QED
  BY <1>5, <1>6, <1>7, <1>8, <1>9, <1>10, <1>11 DEF DispatchInv

\* A failed or abandoned delivery: its batch counts as sent but not recorded when it
\* took effect, and the handler gives up the rest.
LEMMA DeliverFailsKept ==
  ASSUME DispatchInv, NEW d \in Dispatchers, NEW batch \in SUBSET Members,
         NEW arrived \in BOOLEAN, DeliverFails(d, batch, arrived)
  PROVE  DispatchInv'
<1> DEFINE out == IF arrived THEN batch ELSE {}
<1>inv. TypeOK /\ Selected /\ SentWasDelivered /\ WaitsOnce /\ Recorded
        /\ ReportedWasDelivered /\ DuplicatesExplained
  BY DEF DispatchInv
<1>0. rows' = rows /\ drawn' = drawn /\ settings' = settings /\ excused' = excused \cup out
  BY DEF DeliverFails
<1>1. out \subseteq dispatch[d].todo /\ dispatch[d].sent = {} /\ out \in SUBSET Members
  BY DEF DeliverFails, Portion
<1>2. /\ dispatch'[d].todo = {} /\ dispatch'[d].sent = {}
      /\ \A e \in Dispatchers : e # d => dispatch'[e] = dispatch[e]
      /\ dispatch' \in [Dispatchers -> [to : {"manual", "github", "email"},
                                        todo : SUBSET Members, sent : SUBSET Members]]
  BY <1>inv DEF DeliverFails, TypeOK, Idle
<1>4. SendOut(out)
  BY DEF DeliverFails
<1> HIDE DEF out
<1>s. /\ delivered' \in [Members -> 0 .. 2]
      /\ \A m \in Members : m \notin out => delivered'[m] = delivered[m]
      /\ \A m \in Members : delivered[m] > 0 => delivered'[m] > 0
  BY <1>inv, <1>1, <1>4, Sending
<1>v. \A m : Valid(m)' <=> Valid(m)
  BY <1>0 DEF Valid
<1>g. \A e \in Dispatchers : dispatch[e].todo \subseteq Members /\ dispatch[e].sent \subseteq Members
  BY <1>inv DEF TypeOK
<1>h. \A e \in Dispatchers : /\ dispatch'[e].todo \subseteq dispatch[e].todo
                             /\ dispatch'[e].sent = dispatch[e].sent
  BY <1>1, <1>2
<1>5. TypeOK'
  BY <1>inv, <1>0, <1>1, <1>2, <1>s DEF TypeOK
<1>6. Selected'
  <2>1. \A e \in Dispatchers : \A m \in dispatch'[e].todo \cup dispatch'[e].sent :
          m[2] \in drawn /\ (Valid(m) => rows[m[1]].state \in {"confirmed", "reported"})
    BY <1>inv, <1>h DEF Selected
  <2>2. \A m \in Members : delivered'[m] > 0 => m[2] \in drawn
    BY <1>inv, <1>1, <1>s DEF Selected
  <2> QED
    BY <1>inv, <1>0, <1>v, <2>1, <2>2 DEF Selected
<1>7. SentWasDelivered'
  BY <1>inv, <1>h, <1>g, <1>s DEF SentWasDelivered
<1>8. WaitsOnce'
  <2> SUFFICES ASSUME NEW e \in Dispatchers, NEW m \in dispatch'[e].todo, m \notin excused'
               PROVE  /\ delivered'[m] = 0
                      /\ m \notin dispatch'[e].sent
                      /\ \A k \in Dispatchers : k # e => m \notin dispatch'[k].todo \cup dispatch'[k].sent
    BY DEF WaitsOnce
  <2>1. m \in dispatch[e].todo /\ m \notin excused /\ m \notin out
    BY <1>0, <1>h
  <2>2. /\ delivered[m] = 0
        /\ m \notin dispatch[e].sent
        /\ \A k \in Dispatchers : k # e => m \notin dispatch[k].todo \cup dispatch[k].sent
    BY <1>inv, <2>1 DEF WaitsOnce
  <2>3. delivered'[m] = 0
    BY <1>g, <1>s, <2>1, <2>2
  <2> QED
    BY <1>h, <2>2, <2>3
<1>9. Recorded'
  <2> SUFFICES ASSUME NEW m \in Members, delivered'[m] > 0
               PROVE  \/ m \in excused'
                      \/ \E e \in Dispatchers : m \in dispatch'[e].sent
                      \/ ~ Valid(m)
                      \/ rows[m[1]].state = "reported"
    BY <1>0, <1>v DEF Recorded
  <2>1. m \in out \/ delivered[m] > 0
    BY <1>s
  <2> QED
    BY <1>inv, <1>0, <1>h, <2>1 DEF Recorded
<1>10. ReportedWasDelivered'
  <2> SUFFICES ASSUME NEW f \in Findings, rows[f].state = "reported"
               PROVE  delivered'[MemberOf(f)] > 0
    BY <1>0 DEF ReportedWasDelivered, MemberOf
  <2>1. MemberOf(f) \in Members
    BY <1>inv DEF TypeOK, MemberOf, Members
  <2> QED
    BY <1>inv, <1>s, <2>1 DEF ReportedWasDelivered
<1>11. DuplicatesExplained'
  BY <1>inv, <1>0, <1>s DEF DuplicatesExplained
<1> QED
  BY <1>5, <1>6, <1>7, <1>8, <1>9, <1>10, <1>11 DEF DispatchInv

\* The receipt marks its members, which were delivered, and nothing else.
LEMMA MarkKept ==
  ASSUME DispatchInv, NEW d \in Dispatchers, Mark(d)
  PROVE  DispatchInv'
<1>inv. TypeOK /\ Selected /\ SentWasDelivered /\ WaitsOnce /\ Recorded
        /\ ReportedWasDelivered /\ DuplicatesExplained
  BY DEF DispatchInv
<1>0. drawn' = drawn /\ settings' = settings /\ delivered' = delivered /\ excused' = excused
  BY DEF Mark
<1>1. /\ dispatch'[d].todo = dispatch[d].todo /\ dispatch'[d].sent = {}
      /\ \A e \in Dispatchers : e # d => dispatch'[e] = dispatch[e]
  BY <1>inv DEF Mark, TypeOK
<1>2. dispatch' \in [Dispatchers -> [to : {"manual", "github", "email"},
                                     todo : SUBSET Members, sent : SUBSET Members]]
  BY <1>inv DEF Mark, TypeOK
<1>3. \A f \in Findings :
        \/ rows'[f] = rows[f] /\ ~ (MemberOf(f) \in dispatch[d].sent /\ rows[f].state = "confirmed")
        \/ /\ rows'[f] = [rows[f] EXCEPT !.state = "reported"]
           /\ MemberOf(f) \in dispatch[d].sent
           /\ rows[f].state = "confirmed"
  BY DEF Mark
<1>4. rows' \in [Findings -> [state : RowStates, job : Jobs \cup {None},
                              identity : Identities \cup {None}]]
  BY <1>inv DEF Mark, TypeOK, RowStates
<1>5. \A f \in Findings :
        /\ rows'[f].identity = rows[f].identity
        /\ \/ rows'[f].state = rows[f].state
           \/ rows'[f].state = "reported" /\ rows[f].state = "confirmed"
        /\ rows[f].state # "confirmed" => rows'[f] = rows[f]
        /\ rows[f].state = "confirmed" /\ MemberOf(f) \in dispatch[d].sent
           => rows'[f].state = "reported"
  <2> SUFFICES ASSUME NEW f \in Findings
               PROVE  /\ rows'[f].identity = rows[f].identity
                      /\ \/ rows'[f].state = rows[f].state
                         \/ rows'[f].state = "reported" /\ rows[f].state = "confirmed"
                      /\ rows[f].state # "confirmed" => rows'[f] = rows[f]
                      /\ rows[f].state = "confirmed" /\ MemberOf(f) \in dispatch[d].sent
                         => rows'[f].state = "reported"
    OBVIOUS
  <2>1. CASE /\ rows'[f] = rows[f]
             /\ ~ (MemberOf(f) \in dispatch[d].sent /\ rows[f].state = "confirmed")
    BY <2>1
  <2>2. CASE /\ rows'[f] = [rows[f] EXCEPT !.state = "reported"]
             /\ rows[f].state = "confirmed"
    <3>1. rows[f] \in [state : RowStates, job : Jobs \cup {None}, identity : Identities \cup {None}]
      BY <1>inv DEF TypeOK
    <3> QED
      BY <2>2, <3>1
  <2> QED
    BY <1>3, <2>1, <2>2
<1>6. \A m \in Members : Valid(m)' <=> Valid(m)
  BY <1>5 DEF Valid, Members
<1>7. \A e \in Dispatchers : /\ dispatch'[e].todo = dispatch[e].todo
                             /\ dispatch'[e].sent \subseteq dispatch[e].sent
  BY <1>1
<1>g. \A e \in Dispatchers : dispatch[e].todo \subseteq Members /\ dispatch[e].sent \subseteq Members
  BY <1>inv DEF TypeOK
<1>m. \A m \in Members : m[1] \in Findings
  BY DEF Members
<1>8. TypeOK'
  <2>1. \A f \in Findings : rows'[f].state = "absent" <=> rows'[f].identity = None
    BY <1>inv, <1>5 DEF TypeOK
  <2>2. \A f, g \in Findings : rows'[f].identity = rows'[g].identity /\ f # g => rows'[f] = NoRow
    BY <1>inv, <1>5 DEF TypeOK, NoRow
  <2> QED
    BY <1>inv, <1>0, <1>2, <1>4, <2>1, <2>2 DEF TypeOK
<1>9. Selected'
  <2>1. ASSUME NEW e \in Dispatchers, NEW m \in dispatch'[e].todo \cup dispatch'[e].sent
        PROVE  m[2] \in drawn /\ (Valid(m)' => rows'[m[1]].state \in {"confirmed", "reported"})
    <3>1. m \in dispatch[e].todo \cup dispatch[e].sent /\ m \in Members
      BY <1>7, <1>g, <2>1
    <3>2. m[2] \in drawn /\ (Valid(m) => rows[m[1]].state \in {"confirmed", "reported"})
      BY <1>inv, <3>1 DEF Selected
    <3> QED
      BY <1>5, <1>6, <1>m, <3>1, <3>2
  <2> QED
    BY <1>inv, <1>0, <1>5, <2>1 DEF Selected
<1>10. SentWasDelivered'
  BY <1>inv, <1>0, <1>7 DEF SentWasDelivered
<1>11. WaitsOnce'
  BY <1>inv, <1>0, <1>7 DEF WaitsOnce
<1>12. Recorded'
  <2> SUFFICES ASSUME NEW m \in Members, delivered[m] > 0
               PROVE  \/ m \in excused
                      \/ \E e \in Dispatchers : m \in dispatch'[e].sent
                      \/ ~ Valid(m)
                      \/ rows'[m[1]].state = "reported"
    BY <1>0, <1>6 DEF Recorded
  <2>1. CASE m \in dispatch[d].sent
    <3>1. Valid(m)
      BY <2>1 DEF Mark
    <3>2. MemberOf(m[1]) = m
      BY <3>1 DEF MemberOf, Valid, Members
    <3>3. rows[m[1]].state \in {"confirmed", "reported"}
      BY <1>inv, <2>1, <3>1 DEF Selected
    <3> QED
      BY <1>5, <1>m, <2>1, <3>2, <3>3
  <2>2. CASE m \notin dispatch[d].sent
    BY <1>inv, <1>1, <1>5, <1>m, <2>2 DEF Recorded
  <2> QED
    BY <2>1, <2>2
<1>13. ReportedWasDelivered'
  <2> SUFFICES ASSUME NEW f \in Findings, rows'[f].state = "reported"
               PROVE  delivered[MemberOf(f)] > 0
    BY <1>0, <1>5 DEF ReportedWasDelivered, MemberOf
  <2> QED
    BY <1>inv, <1>3 DEF ReportedWasDelivered, SentWasDelivered
<1>14. DuplicatesExplained'
  BY <1>inv, <1>0 DEF DuplicatesExplained
<1> QED
  BY <1>8, <1>9, <1>10, <1>11, <1>12, <1>13, <1>14 DEF DispatchInv

\* A handler, or every handler, gives up its batch; what it had sent is excused.
LEMMA GiveUpKept ==
  ASSUME DispatchInv,
         rows' = rows, drawn' = drawn, settings' = settings, delivered' = delivered,
         dispatch' \in [Dispatchers -> [to : {"manual", "github", "email"},
                                        todo : SUBSET Members, sent : SUBSET Members]],
         excused' \subseteq Members, excused \subseteq excused',
         \A e \in Dispatchers :
           \/ dispatch'[e] = dispatch[e]
           \/ dispatch'[e] = Idle /\ dispatch[e].sent \subseteq excused'
  PROVE  DispatchInv'
<1>inv. TypeOK /\ Selected /\ SentWasDelivered /\ WaitsOnce /\ Recorded
        /\ ReportedWasDelivered /\ DuplicatesExplained
  BY DEF DispatchInv
<1>1. \A e \in Dispatchers : /\ dispatch'[e].todo \subseteq dispatch[e].todo
                             /\ dispatch'[e].sent \subseteq dispatch[e].sent
                             /\ dispatch[e].sent \subseteq dispatch'[e].sent \cup excused'
  BY DEF Idle
<1>2. \A m : Valid(m)' <=> Valid(m)
  BY DEF Valid
<1>3. TypeOK'
  BY <1>inv DEF TypeOK
<1>4. Selected'
  BY <1>inv, <1>1, <1>2 DEF Selected
<1>5. SentWasDelivered'
  BY <1>inv, <1>1 DEF SentWasDelivered
<1>6. WaitsOnce'
  BY <1>inv, <1>1 DEF WaitsOnce
<1>7. Recorded'
  BY <1>inv, <1>1, <1>2 DEF Recorded
<1>8. ReportedWasDelivered'
  BY <1>inv DEF ReportedWasDelivered, MemberOf
<1>9. DuplicatesExplained'
  BY <1>inv DEF DuplicatesExplained
<1> QED
  BY <1>3, <1>4, <1>5, <1>6, <1>7, <1>8, <1>9 DEF DispatchInv

\* A new row takes an identity nobody has drawn, so no member in flight or delivered
\* names it, although its number may be that of a deleted row.
LEMMA SubmitKept ==
  ASSUME DispatchInv, NEW j \in Jobs, NEW f \in Findings, NEW i \in Identities, Submit(j, f, i)
  PROVE  DispatchInv'
<1>inv. TypeOK /\ Selected /\ SentWasDelivered /\ WaitsOnce /\ Recorded
        /\ ReportedWasDelivered /\ DuplicatesExplained
  BY DEF DispatchInv
<1>0. /\ settings' = settings /\ dispatch' = dispatch
      /\ delivered' = delivered /\ excused' = excused
      /\ drawn' = drawn \cup {i} /\ i \notin drawn
  BY DEF Submit
<1>1. /\ rows'[f] = [state |-> "pending", job |-> j, identity |-> i]
      /\ \A g \in Findings : g # f => rows'[g] = rows[g]
      /\ rows' \in [Findings -> [state : RowStates, job : Jobs \cup {None},
                                 identity : Identities \cup {None}]]
  BY <1>inv DEF Submit, TypeOK, RowStates
<1>2. rows[f].state = "absent" /\ rows[f].identity = None
  BY <1>inv DEF Submit, TypeOK
<1>n. i # None
  BY DestinationsAssumption
<1>3. \A g \in Findings : rows[g].identity # i
  BY <1>inv, <1>0, <1>n DEF Selected
<1>4. \A m \in Members : m[2] \in drawn => (Valid(m)' => Valid(m) /\ m[1] # f)
  BY <1>0, <1>1 DEF Valid, Members
<1>m. \A m \in Members : m[1] \in Findings
  BY DEF Members
<1>g. \A e \in Dispatchers : dispatch[e].todo \subseteq Members /\ dispatch[e].sent \subseteq Members
  BY <1>inv DEF TypeOK
<1>5. TypeOK'
  <2>1. drawn' \subseteq Identities
    BY <1>inv, <1>0 DEF TypeOK
  <2>2. \A g \in Findings : rows'[g].state = "absent" <=> rows'[g].identity = None
    BY <1>inv, <1>1, <1>n DEF TypeOK
  <2>3. \A g, h \in Findings : rows'[g].identity = rows'[h].identity /\ g # h => rows'[g] = NoRow
    BY <1>inv, <1>1, <1>3 DEF TypeOK
  <2> QED
    BY <1>inv, <1>0, <1>1, <2>1, <2>2, <2>3 DEF TypeOK
<1>6. Selected'
  <2>1. \A g \in Findings : rows'[g].identity \in drawn' \cup {None}
    BY <1>inv, <1>0, <1>1 DEF Selected
  <2>2. ASSUME NEW e \in Dispatchers, NEW m \in dispatch[e].todo \cup dispatch[e].sent
        PROVE  m[2] \in drawn' /\ (Valid(m)' => rows'[m[1]].state \in {"confirmed", "reported"})
    <3>1. m \in Members /\ m[2] \in drawn /\ (Valid(m) => rows[m[1]].state \in {"confirmed", "reported"})
      BY <1>inv, <1>g DEF Selected
    <3> QED
      BY <1>0, <1>1, <1>4, <1>m, <3>1
  <2>3. \A m \in Members : delivered[m] > 0 => m[2] \in drawn'
    BY <1>inv, <1>0 DEF Selected
  <2> QED
    BY <1>0, <2>1, <2>2, <2>3 DEF Selected
<1>7. SentWasDelivered'
  BY <1>inv, <1>0 DEF SentWasDelivered
<1>8. WaitsOnce'
  BY <1>inv, <1>0 DEF WaitsOnce
<1>9. Recorded'
  <2> SUFFICES ASSUME NEW m \in Members, delivered[m] > 0, Valid(m)', m \notin excused
               PROVE  \/ \E e \in Dispatchers : m \in dispatch[e].sent
                      \/ rows'[m[1]].state = "reported"
    BY <1>0 DEF Recorded
  <2>1. Valid(m) /\ m[1] # f
    BY <1>inv, <1>4 DEF Selected
  <2> QED
    BY <1>inv, <1>1, <1>m, <2>1 DEF Recorded
<1>10. ReportedWasDelivered'
  BY <1>inv, <1>0, <1>1 DEF ReportedWasDelivered, MemberOf
<1>11. DuplicatesExplained'
  BY <1>inv, <1>0 DEF DuplicatesExplained
<1> QED
  BY <1>5, <1>6, <1>7, <1>8, <1>9, <1>10, <1>11 DEF DispatchInv

\* Deleting the repository leaves no row to mark or to report again.
LEMMA DeleteKept ==
  ASSUME DispatchInv, DeleteRepository
  PROVE  DispatchInv'
<1>inv. TypeOK /\ Selected /\ SentWasDelivered /\ WaitsOnce /\ Recorded
        /\ ReportedWasDelivered /\ DuplicatesExplained
  BY DEF DispatchInv
<1>0. /\ drawn' = drawn /\ settings' = settings /\ dispatch' = dispatch
      /\ delivered' = delivered /\ excused' = excused
  BY DEF DeleteRepository
<1>1. /\ \A f \in Findings : rows'[f] = NoRow
      /\ rows' \in [Findings -> [state : RowStates, job : Jobs \cup {None},
                                 identity : Identities \cup {None}]]
  BY DEF DeleteRepository, NoRow, RowStates
<1>2. \A m \in Members : ~ Valid(m)'
  BY <1>1, DestinationsAssumption DEF Valid, Members, NoRow
<1>g. \A e \in Dispatchers : dispatch[e].todo \subseteq Members /\ dispatch[e].sent \subseteq Members
  BY <1>inv DEF TypeOK
<1>3. TypeOK'
  BY <1>inv, <1>0, <1>1 DEF TypeOK, NoRow
<1>4. Selected'
  BY <1>inv, <1>0, <1>1, <1>2, <1>g DEF Selected, NoRow
<1>5. SentWasDelivered' /\ WaitsOnce' /\ DuplicatesExplained'
  BY <1>inv, <1>0 DEF SentWasDelivered, WaitsOnce, DuplicatesExplained
<1>6. Recorded'
  BY <1>2 DEF Recorded
<1>7. ReportedWasDelivered'
  BY <1>1 DEF ReportedWasDelivered, NoRow
<1> QED
  BY <1>3, <1>4, <1>5, <1>6, <1>7 DEF DispatchInv

\* Each step of a handler that delivers or marks keeps the invariant.
LEMMA DispatchingKept ==
  ASSUME DispatchInv, NEW d \in Dispatchers, Dispatching(d)
  PROVE  DispatchInv'
<1>1. CASE MarkFails(d)
  <2>t. TypeOK
    BY DEF DispatchInv
  <2>1. /\ dispatch' \in [Dispatchers -> [to : {"manual", "github", "email"},
                                          todo : SUBSET Members, sent : SUBSET Members]]
        /\ excused' \subseteq Members
    BY <1>1, <2>t DEF MarkFails, TypeOK, Idle
  <2>2. \A e \in Dispatchers :
          \/ dispatch'[e] = dispatch[e]
          \/ dispatch'[e] = Idle /\ dispatch[e].sent \subseteq excused'
    BY <1>1, <2>t DEF MarkFails, TypeOK
  <2> QED
    BY <1>1, <2>1, <2>2, GiveUpKept DEF MarkFails
<1>2. CASE Mark(d)
  BY <1>2, MarkKept
<1>m. dispatch[d].todo \subseteq Members
  BY DEF DispatchInv, TypeOK
<1>3. CASE \E batch \in SUBSET dispatch[d].todo : Deliver(d, batch)
  BY <1>3, <1>m, DeliverKept
<1>4. CASE \E batch \in SUBSET dispatch[d].todo, arrived \in BOOLEAN : DeliverFails(d, batch, arrived)
  BY <1>4, <1>m, DeliverFailsKept
<1> QED
  BY <1>1, <1>2, <1>3, <1>4 DEF Dispatching

\* The invariant is inductive.
LEMMA DispatchInductive == Spec => []DispatchInv
<1>1. Init => DispatchInv
  <2> SUFFICES ASSUME Init PROVE DispatchInv
    OBVIOUS
  <2>1. TypeOK
    BY DEF Init, TypeOK, NoRow, RowStates, Idle
  <2>2. Selected /\ SentWasDelivered /\ WaitsOnce
    BY DEF Init, Selected, SentWasDelivered, WaitsOnce, NoRow, Idle
  <2>3. Recorded /\ ReportedWasDelivered /\ DuplicatesExplained
    BY DEF Init, Recorded, ReportedWasDelivered, DuplicatesExplained, NoRow
  <2> QED
    BY <2>1, <2>2, <2>3 DEF DispatchInv
<1>2. DispatchInv /\ [Next]_vars => DispatchInv'
  <2> SUFFICES ASSUME DispatchInv, [Next]_vars PROVE DispatchInv'
    OBVIOUS
  <2>t. TypeOK
    BY DEF DispatchInv
  <2>1. ASSUME NEW d \in Dispatchers, Dispatching(d) \/ Preparing(d)
        PROVE  DispatchInv'
    BY <2>1, DispatchingKept, PreparingKept
  <2>2. ASSUME NEW j \in Jobs, NEW f \in Findings, NEW i \in Identities, Submit(j, f, i)
        PROVE  DispatchInv'
    BY <2>2, SubmitKept
  <2>3. CASE UpdateReporting
    <3>1. settings' \in [to : Destinations, approve : ApprovalModes]
      BY <2>3 DEF UpdateReporting
    <3>2. UNCHANGED <<rows, drawn, dispatch, delivered, excused>>
      BY <2>3 DEF UpdateReporting
    <3> QED
      BY <3>1, <3>2 DEF DispatchInv, TypeOK, Selected, SentWasDelivered, WaitsOnce,
                        Recorded, ReportedWasDelivered, DuplicatesExplained, Valid, MemberOf
  <2>4. CASE DeleteRepository
    BY <2>4, DeleteKept
  <2>5. CASE Crash
    <3>1. /\ dispatch' \in [Dispatchers -> [to : {"manual", "github", "email"},
                                            todo : SUBSET Members, sent : SUBSET Members]]
          /\ \A e \in Dispatchers : dispatch'[e] = Idle
      BY <2>5 DEF Crash, Idle
    <3>2. /\ excused' \subseteq Members
          /\ excused \subseteq excused'
          /\ \A e \in Dispatchers : dispatch[e].sent \subseteq excused'
      BY <2>5, <2>t DEF Crash, TypeOK
    <3> QED
      BY <2>5, <3>1, <3>2, GiveUpKept DEF Crash
  <2>6. CASE UNCHANGED vars
    BY <2>6 DEF vars, DispatchInv, TypeOK, Selected, SentWasDelivered, WaitsOnce,
                Recorded, ReportedWasDelivered, DuplicatesExplained, Valid, MemberOf
  <2> QED
    BY <2>1, <2>2, <2>3, <2>4, <2>5, <2>6 DEF Next
<1> QED
  BY <1>1, <1>2, PTL DEF Spec

\* For any number of rows, identities and handlers: a row the database calls reported
\* went out, under the identity it has now (the receipt checks it before it marks).
THEOREM ReportedTruthful == Spec => []ReportedWasDelivered
<1>1. DispatchInv => ReportedWasDelivered
  BY DEF DispatchInv
<1> QED
  BY <1>1, DispatchInductive, PTL

\* A GitHub dispatch has one unrecorded issue at most: an issue is delivered on its own,
\* and a handler keeps its destination until it is idle again.
LEMMA IssueInductive == Spec => []OneUnrecordedIssue
<1>1. Init => OneUnrecordedIssue
  BY DEF Init, OneUnrecordedIssue, Idle
<1>2. DispatchInv /\ OneUnrecordedIssue /\ [Next]_vars => OneUnrecordedIssue'
  <2> SUFFICES ASSUME DispatchInv, OneUnrecordedIssue, [Next]_vars,
                      NEW e \in Dispatchers, dispatch'[e].to = "github",
                      NEW m \in dispatch'[e].sent, NEW n \in dispatch'[e].sent
               PROVE  m = n
    BY DEF OneUnrecordedIssue
  <2>t. /\ dispatch \in [Dispatchers -> [to : {"manual", "github", "email"},
                                        todo : SUBSET Members, sent : SUBSET Members]]
        /\ Idle.sent = {}
    BY DEF DispatchInv, TypeOK, Idle
  <2>k. CASE dispatch' = dispatch
    BY <2>k DEF OneUnrecordedIssue
  <2>1. ASSUME NEW d \in Dispatchers, Dispatching(d)
        PROVE  m = n
    <3>1. ASSUME NEW batch \in SUBSET dispatch[d].todo, Deliver(d, batch)
          PROVE  m = n
      <4>1. CASE e = d
        BY <2>t, <3>1, <4>1 DEF Deliver, Portion
      <4>2. CASE e # d
        BY <2>t, <3>1, <4>2 DEF Deliver, OneUnrecordedIssue
      <4> QED
        BY <4>1, <4>2
    <3>2. ASSUME NEW batch \in SUBSET dispatch[d].todo, NEW arrived \in BOOLEAN,
                 DeliverFails(d, batch, arrived)
          PROVE  m = n
      BY <2>t, <3>2 DEF DeliverFails, OneUnrecordedIssue
    <3>3. CASE Mark(d)
      BY <2>t, <3>3 DEF Mark, OneUnrecordedIssue
    <3>4. CASE MarkFails(d)
      BY <2>t, <3>4 DEF MarkFails, OneUnrecordedIssue
    <3> QED
      BY <2>1, <3>1, <3>2, <3>3, <3>4 DEF Dispatching
  <2>2. ASSUME NEW d \in Dispatchers, Preparing(d)
        PROVE  m = n
    <3>1. ASSUME NEW selection, Prepare(d, selection)
          PROVE  m = n
      <4> DEFINE batch == {<<f, rows'[f].identity>> : f \in Select(selection)}
      <4>1. \/ dispatch' = [dispatch EXCEPT ![d] = [to |-> settings.to, todo |-> batch, sent |-> {}]]
            \/ dispatch' = dispatch
        BY <3>1 DEF Prepare
      <4> HIDE DEF batch
      <4> QED
        BY <2>t, <2>k, <4>1 DEF OneUnrecordedIssue
    <3> QED
      BY <2>2, <3>1 DEF Preparing, CompleteScan, SubmitVerdict, Approve, RetryReport
  <2>3. CASE Crash
    BY <2>t, <2>3 DEF Crash
  <2>4. CASE \/ \E j \in Jobs, f \in Findings, i \in Identities : Submit(j, f, i)
             \/ UpdateReporting \/ DeleteRepository \/ UNCHANGED vars
    BY <2>4, <2>k DEF Submit, UpdateReporting, DeleteRepository, vars
  <2> QED
    BY <2>1, <2>2, <2>3, <2>4 DEF Next
<1> QED
  BY <1>1, <1>2, DispatchInductive, PTL DEF Spec

\* For any number of rows, identities and handlers: a finding that goes out twice was
\* selected by two handlers at once, or its first delivery was never recorded; and a
\* GitHub dispatch leaves one issue unrecorded at most.
THEOREM RepeatsAccounted == Spec => []RepeatsExplained
<1>1. DispatchInv /\ OneUnrecordedIssue => RepeatsExplained
  BY DEF DispatchInv, RepeatsExplained
<1> QED
  BY <1>1, DispatchInductive, IssueInductive, PTL

\* No step but the deletion of the repository changes a reported row.
THEOREM ReportedStays == Spec => ReportedIsFinal
<1> DEFINE Final == \A f \in Findings : rows[f].state = "reported" =>
                      rows'[f] = rows[f] \/ rows'[f] = NoRow
<1>1. DispatchInv /\ [Next]_vars => [Final]_vars
  <2> SUFFICES ASSUME DispatchInv, Next PROVE Final
    BY DEF vars
  <2>t. TypeOK
    BY DEF DispatchInv
  <2>1. ASSUME NEW d \in Dispatchers, Preparing(d)
        PROVE  Final
    <3>1. ASSUME NEW j \in Jobs, NEW verify \in SUBSET Findings, CompleteScan(d, j, verify)
          PROVE  Final
      BY <3>1, <2>t DEF CompleteScan, TypeOK
    <3>2. ASSUME NEW f \in Findings, NEW confirmed \in BOOLEAN, SubmitVerdict(d, f, confirmed)
          PROVE  Final
      BY <3>2, <2>t DEF SubmitVerdict, TypeOK
    <3>3. ASSUME NEW f \in Findings, Approve(d, f) \/ RetryReport(d, f)
          PROVE  Final
      BY <3>3, <2>t DEF Approve, RetryReport, TypeOK
    <3> QED
      BY <2>1, <3>1, <3>2, <3>3 DEF Preparing
  <2>2. ASSUME NEW d \in Dispatchers, Dispatching(d)
        PROVE  Final
    <3>1. CASE Mark(d)
      BY <3>1, <2>t DEF Mark, TypeOK
    <3>2. CASE ~ Mark(d)
      BY <2>2, <3>2 DEF Dispatching, Deliver, DeliverFails, MarkFails
    <3> QED
      BY <3>1, <3>2
  <2>3. ASSUME NEW j \in Jobs, NEW f \in Findings, NEW i \in Identities, Submit(j, f, i)
        PROVE  Final
    BY <2>3, <2>t DEF Submit, TypeOK
  <2>4. CASE UpdateReporting \/ Crash
    BY <2>4 DEF UpdateReporting, Crash
  <2>5. CASE DeleteRepository
    BY <2>5 DEF DeleteRepository
  <2> QED
    BY <2>1, <2>2, <2>3, <2>4, <2>5 DEF Next
<1>2. Spec => [][Final]_vars
  BY <1>1, DispatchInductive, PTL DEF Spec
<1> QED
  BY <1>2 DEF ReportedIsFinal
=============================================================================
