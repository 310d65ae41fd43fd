--------------------------- MODULE RequestBudget ---------------------------
(***************************************************************************)
(* The token buckets of the server's authenticated workers (loupe-server,  *)
(* request_budget.rs).  A request is charged in turn for itself, for the   *)
(* lease it asks for and for every chunk of its body; each charge reads    *)
(* the clock first and takes the lock of all buckets afterwards, so        *)
(* charges are applied out of the order of their times.                    *)
(***************************************************************************)
EXTENDS Integers, FiniteSets

CONSTANTS
    Workers, Slots,   \* workers, and requests being served at the same time
    Resources,        \* "requests", "leases", "bytes", or some of them
    Capacity, Rate,   \* BucketConfig of each resource
    MaxWorkers,       \* WorkerBudgetConfig.max_workers
    IdleSeconds,      \* WorkerBudgetConfig.idle_seconds
    ChunkSizes,       \* bound: the sizes of a chunk
    MaxDelay,         \* bound: seconds between reading the clock and the lock
    MaxTime           \* bound: seconds of a run

\* WorkerBudgetConfig::validate.
ConstantsOK ==
    /\ Resources \subseteq {"requests", "leases", "bytes"} /\ "requests" \in Resources
    /\ \A r \in Resources : {Capacity[r], Rate[r]} \subseteq Nat \ {0}
    /\ {MaxWorkers, IdleSeconds} \subseteq Nat \ {0}
    /\ {MaxDelay, MaxTime} \cup ChunkSizes \subseteq Nat /\ IsFiniteSet(Workers)

VARIABLES
    clock,    \* whole seconds since the start
    entries,  \* worker -> its buckets and when it was last seen
    slot,     \* each request: its worker, the charge it is at and its time
    window    \* history: what one worker was admitted since a moment, and how often
              \* its entry was reclaimed meanwhile

vars == <<clock, entries, slot, window>>

Buckets == [Resources -> [remaining : Nat, last : 0..MaxTime]]
Idle == [stage |-> "idle"]
Charging == [stage : {"charge"}, worker : Workers, resource : Resources,
             cost : ChunkSizes \cup {1}, now : 0..MaxTime]
Reading == [stage : {"more"}, worker : Workers]

\* The type invariant: a bucket never holds more than its capacity, its
\* refill origin is not ahead of the clock, and the table is bounded.
TypeOK ==
    /\ clock \in 0..MaxTime
    /\ DOMAIN entries \subseteq Workers /\ Cardinality(DOMAIN entries) <= MaxWorkers
    /\ \A w \in DOMAIN entries :
         /\ entries[w].bucket \in Buckets /\ entries[w].seen \in 0..clock
         /\ \A r \in Resources : /\ entries[w].bucket[r].remaining <= Capacity[r]
                                 /\ entries[w].bucket[r].last <= clock
    /\ slot \in [Slots -> {Idle} \cup Charging \cup Reading]

Init ==
    /\ clock = 0 /\ entries = <<>>
    /\ slot = [s \in Slots |-> Idle]
    /\ window \in [worker : Workers, resource : Resources, start : 0..MaxTime, used : {0},
                   reclaimed : {0}]

-----------------------------------------------------------------------------
\* The refill of Budget::admit: an earlier time gives nothing, and the origin
\* does not move back.
Refill(b, r, now) ==
    LET elapsed == IF now > b.last THEN now - b.last ELSE 0
        total == b.remaining + elapsed * Rate[r]
    IN [remaining |-> IF total < Capacity[r] THEN total ELSE Capacity[r],
        last |-> IF now > b.last THEN now ELSE b.last]

RefillAll(e, now) == [e EXCEPT !.bucket = [r \in Resources |-> Refill(e.bucket[r], r, now)]]

\* Entry::full, after the refill it makes.
Full(e) == \A r \in Resources : e.bucket[r].remaining = Capacity[r]

IdleAt(e, now) == now - e.seen >= IdleSeconds

FaultRetained(now) ==
    [w \in {v \in DOMAIN entries : ~IdleAt(entries[v], now)} |-> entries[w]]

\* entries.retain: only a worker that is idle and owes nothing is forgotten.
Retained(now) ==
    LET fresh == [w \in DOMAIN entries |->
                    IF IdleAt(entries[w], now) THEN RefillAll(entries[w], now) ELSE entries[w]]
    IN [w \in {v \in DOMAIN entries : ~(IdleAt(entries[v], now) /\ Full(fresh[v]))} |-> fresh[w]]

NewEntry(now) ==
    [bucket |-> [r \in Resources |-> [remaining |-> Capacity[r], last |-> now]],
     seen |-> now]

\* charge_at, under the lock.
Charge(s) ==
    LET c == slot[s]
        kept == IF c.worker \in DOMAIN entries THEN entries ELSE Retained(c.now)
        room == c.worker \in DOMAIN kept \/ Cardinality(DOMAIN kept) < MaxWorkers
        old == IF c.worker \in DOMAIN kept THEN kept[c.worker] ELSE NewEntry(c.now)
        b == Refill(old.bucket[c.resource], c.resource, c.now)
        admitted == room /\ c.cost <= b.remaining
        left == [b EXCEPT !.remaining = IF admitted THEN @ - c.cost ELSE @]
        new == [bucket |-> [old.bucket EXCEPT ![c.resource] = left],
                seen |-> IF c.now > old.seen THEN c.now ELSE old.seen]
        watched == /\ c.worker = window.worker /\ c.resource = window.resource
                   /\ clock >= window.start
        reclaimed == window.used > 0 /\ window.worker \in DOMAIN entries \ DOMAIN kept
    IN /\ c.stage = "charge"
       /\ entries' = IF room
                     THEN [w \in DOMAIN kept \cup {c.worker} |->
                             IF w = c.worker THEN new ELSE kept[w]]
                     ELSE kept
       /\ slot' = [slot EXCEPT ![s] = IF admitted
                                      THEN [stage |-> "more", worker |-> c.worker]
                                      ELSE Idle]
       /\ window' = [window EXCEPT !.used = IF admitted /\ watched THEN @ + c.cost ELSE @,
                                   !.reclaimed = IF reclaimed THEN @ + 1 ELSE @]
       /\ UNCHANGED clock

\* charge(): the clock is read before the lock is taken.
Read(s, w, r, n) ==
    /\ slot' = [slot EXCEPT ![s] = [stage |-> "charge", worker |-> w, resource |-> r,
                                    cost |-> n, now |-> clock]]
    /\ UNCHANGED <<clock, entries, window>>

\* enforce(): every request is charged for itself.
Request(s, w) ==
    /\ slot[s] = Idle
    /\ Read(s, w, "requests", 1)

\* ... a lease attempt or a chunk of its body is charged next.
More(s) ==
    /\ slot[s].stage = "more"
    /\ \E r \in Resources \ {"requests"}, n \in ChunkSizes \cup {1} :
         /\ r = "leases" => n = 1
         /\ Read(s, slot[s].worker, r, n)

\* The body ends, is too large or broken.
Served(s) ==
    /\ slot[s].stage = "more"
    /\ slot' = [slot EXCEPT ![s] = Idle]
    /\ UNCHANGED <<clock, entries, window>>

\* Nobody waits for the lock longer than MaxDelay.
Tick ==
    /\ clock < MaxTime
    /\ \A s \in Slots : slot[s].stage = "charge" => clock - slot[s].now < MaxDelay
    /\ clock' = clock + 1
    /\ UNCHANGED <<entries, slot, window>>

Next ==
    \/ \E s \in Slots : \/ \E w \in Workers : Request(s, w)
                        \/ Charge(s) \/ More(s) \/ Served(s)
    \/ Tick

Spec == Init /\ [][Next]_vars

-----------------------------------------------------------------------------
\* From any moment on, a worker is admitted no more than one burst and the
\* refill of the time that passed, plus what a charge can be late: neither
\* being forgotten and coming back nor a time out of order mints a burst.  A
\* charge that read the clock before its worker's entry was reclaimed opens
\* the new entry at that time, so each reclaim gives the delay's refill again.
WindowBounded ==
    clock >= window.start =>
       window.used <= Capacity[window.resource]
                      + Rate[window.resource]
                        * (clock - window.start + MaxDelay * (1 + window.reclaimed))
=============================================================================
