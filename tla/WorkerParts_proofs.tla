------------------------- MODULE WorkerParts_proofs -------------------------
(***************************************************************************)
(* What a worker's job runs on, for every value of the constants: the       *)
(* session of the model broker (ModelBroker, which MCWorker instantiates as *)
(* Broker), the session of an agent and its broker (AgentSession, as        *)
(* Session), the clones that jobs share (RepoCache, as Cache), the sessions *)
(* of a scan (ScanFanout, as Fanout), the supervisor of a sandbox's network *)
(* (NetworkSupervisor, as Network) and the token of a Git operation         *)
(* (GitCredentials, as Git).                                                *)
(***************************************************************************)
EXTENDS MCWorker, SequenceTheorems, FiniteSetTheorems, TLAPS

(***************************************************************************)
(* The session of the model broker                                          *)
(***************************************************************************)
\* The instance counts as this module does.
LEMMA SameBrokerCount ==
  ASSUME NEW S
  PROVE  /\ Broker!IsFiniteSet(S) <=> IsFiniteSet(S)
         /\ Broker!Cardinality(S) = Cardinality(S)
BY DEF Broker!IsFiniteSet, IsFiniteSet, Broker!Cardinality, Cardinality

\* The connections that a map of places puts at one of some places.
At(places, S) == {c \in Conns : places[c] \in S}

\* Counted by start_request and not yet on the way to the provider.
Counted == {"send", "poll"}

\* Behind start_request's load of the token counter, up to the end of the answer.
Open == {"output", "count", "send", "poll", "sending", "next", "overflow", "wait", "reserve"}

\* With no answer open.
Closed == Broker!Places \ Open

\* Where nothing the connection does is seen before it has been admitted again.
Quiet == {"sending", "next", "overflow", "wait", "open", "ended", "idle"}

\* A request that was counted and has not left keeps a place under the ceiling.
SendsCounted == sent + Cardinality(At(broker_pc, Counted)) <= requests

\* Each connection with no answer open may still add one answer's tokens.
TokensOpen == tokens < TokenCeiling + Cardinality(At(broker_pc, Closed)) * MaxTokens

OutputExact == forwarded = output

\* A watched body has quarantined the job once observe() is past it, so it is not admitted.
Watched ==
  \A c \in Conns :
    /\ broker_pc[c] \in {"publish", "admit"} /\ tainted[c] => broker_quarantined
    /\ broker_pc[c] \in {"tokens", "output", "count", "send", "poll"} => ~tainted[c]

\* A connection that was seen after the end is where the quarantine or the abort holds it.
Stopping ==
  /\ fin \in Broker!Over => aborting
  /\ \A c \in Conns : late[c] # 0 => late[c] = 1 /\ (broker_quarantined \/ aborting) /\ broker_pc[c] \in Quiet

BrokerInv ==
  /\ Broker!TypeOK /\ SendsCounted /\ TokensOpen /\ OutputExact /\ Watched /\ Broker!SecretStays /\ Stopping

(***************************************************************************)
(* Counting connections                                                     *)
(***************************************************************************)
\* How many connections are at some places is a number.
LEMMA CountIsNat ==
  ASSUME Broker!ConstantsOK, NEW f, NEW S
  PROVE  IsFiniteSet(At(f, S)) /\ Cardinality(At(f, S)) \in Nat
BY SameBrokerCount, FS_Subset, FS_CardinalityType DEF At, Broker!ConstantsOK

\* A connection that moves between two of the places, or between two others, changes nothing.
LEMMA NobodyCrosses ==
  ASSUME broker_pc \in [Conns -> Broker!Places], NEW c \in Conns, NEW p, broker_pc' = [broker_pc EXCEPT ![c] = p],
         NEW S, broker_pc[c] \in S <=> p \in S
  PROVE  Cardinality(At(broker_pc', S)) = Cardinality(At(broker_pc, S))
<1>1. At(broker_pc', S) = At(broker_pc, S)
  BY DEF At
<1> QED
  BY <1>1

\* One that leaves the places makes it one less.
LEMMA OneLeaves ==
  ASSUME Broker!ConstantsOK, broker_pc \in [Conns -> Broker!Places], NEW c \in Conns, NEW p, broker_pc' = [broker_pc EXCEPT ![c] = p],
         NEW S, broker_pc[c] \in S, p \notin S
  PROVE  Cardinality(At(broker_pc', S)) = Cardinality(At(broker_pc, S)) - 1
<1>1. At(broker_pc', S) = At(broker_pc, S) \ {c} /\ c \in At(broker_pc, S)
  BY DEF At
<1> QED
  BY <1>1, CountIsNat, FS_RemoveElement

\* One that enters them makes it one more.
LEMMA OneEnters ==
  ASSUME Broker!ConstantsOK, broker_pc \in [Conns -> Broker!Places], NEW c \in Conns, NEW p, broker_pc' = [broker_pc EXCEPT ![c] = p],
         NEW S, broker_pc[c] \notin S, p \in S
  PROVE  Cardinality(At(broker_pc', S)) = Cardinality(At(broker_pc, S)) + 1
<1>1. At(broker_pc', S) = At(broker_pc, S) \cup {c} /\ c \notin At(broker_pc, S)
  BY DEF At
<1> QED
  BY <1>1, CountIsNat, FS_AddElement

\* The bound on the tokens grows with the connections that have no answer open.
LEMMA TokensGrow ==
  ASSUME Broker!ConstantsOK, NEW k \in Nat, NEW l \in Nat, l = k \/ l = k + 1,
         NEW t \in Nat, t < TokenCeiling + k * MaxTokens
  PROVE  /\ t < TokenCeiling + l * MaxTokens
         /\ l = k + 1 => \A n \in 0..MaxTokens : t + n < TokenCeiling + l * MaxTokens
<1>1. MaxTokens \in Nat /\ TokenCeiling \in Nat /\ k * MaxTokens \in Nat
  BY DEF Broker!ConstantsOK
<1>2. (k + 1) * MaxTokens = k * MaxTokens + MaxTokens
  BY <1>1
<1> QED
  BY <1>1, <1>2

\* An open answer that ends, or goes on, keeps the bound: its tokens are paid for by its closing.
LEMMA AnswerKeeps ==
  ASSUME Broker!ConstantsOK, Broker!TypeOK, TokensOpen, NEW c \in Conns, NEW p \in Broker!Places,
         broker_pc' = [broker_pc EXCEPT ![c] = p], broker_pc[c] \in Open,
         NEW n \in 0..MaxTokens, tokens' = tokens + n, n # 0 => p \notin Open
  PROVE  TokensOpen'
<1> DEFINE k == Cardinality(At(broker_pc, Closed))
           l == Cardinality(At(broker_pc', Closed))
<1>1. broker_pc \in [Conns -> Broker!Places] /\ tokens \in Nat /\ tokens < TokenCeiling + k * MaxTokens
  BY DEF Broker!TypeOK, TokensOpen
<1>2. broker_pc[c] \notin Closed /\ (p \in Closed <=> p \notin Open)
  BY DEF Closed
<1>3. k \in Nat /\ l \in Nat
  BY CountIsNat
<1>4. CASE p \in Closed
  <2>1. l = k + 1
    BY <1>1, <1>2, <1>4, OneEnters
  <2>2. tokens + n < TokenCeiling + l * MaxTokens
    <3> HIDE DEF k, l
    <3> QED
      BY <1>1, <1>3, <2>1, TokensGrow
  <2> QED
    BY <2>2 DEF TokensOpen
<1>5. CASE p \notin Closed
  <2>1. l = k
    BY <1>1, <1>2, <1>5, NobodyCrosses
  <2>2. tokens' = tokens
    BY <1>1, <1>2, <1>5
  <2> QED
    BY <1>1, <2>1, <2>2 DEF TokensOpen
<1> QED
  BY <1>4, <1>5

\* The inductive invariant implies what the run checks.
LEMMA BrokerImplied ==
  ASSUME Broker!ConstantsOK, BrokerInv
  PROVE  Broker!CeilingsHold
<1> USE DEF BrokerInv
<1>1. /\ Cardinality(At(broker_pc, Counted)) \in Nat
      /\ Cardinality(At(broker_pc, Closed)) \in Nat
      /\ Cardinality(At(broker_pc, Closed)) <= Cardinality(Conns)
      /\ Cardinality(Conns) \in Nat
  BY SameBrokerCount, FS_Subset, FS_CardinalityType DEF At, Broker!ConstantsOK
<1>2. Broker!RequestsWithinCeiling
  BY <1>1 DEF Broker!TypeOK, SendsCounted, Broker!RequestsWithinCeiling, Broker!ConstantsOK
<1>3. Broker!OutputWithinCeiling
  BY DEF Broker!TypeOK, OutputExact, Broker!OutputWithinCeiling, Broker!ConstantsOK
<1>4. Cardinality(At(broker_pc, Closed)) * MaxTokens <= Cardinality(Conns) * MaxTokens
  BY <1>1 DEF Broker!ConstantsOK
<1>5. Broker!TokensBounded
  BY SameBrokerCount, <1>1, <1>4 DEF TokensOpen, Broker!TokensBounded, Broker!TypeOK,
       Broker!ConstantsOK
<1>6. Broker!LateBounded
  BY DEF Broker!LateBounded, Stopping, Broker!TypeOK
<1> QED
  BY <1>2, <1>3, <1>5, <1>6 DEF Broker!CeilingsHold

\* It holds of a session that has just started.
LEMMA BrokerInit ==
  ASSUME Broker!ConstantsOK, Broker!Init
  PROVE  BrokerInv
<1>1. Broker!TypeOK
  <2>1. /\ 0 \in 0..MaxChunk /\ 0 \in 0..RequestCeiling /\ 0 \in 0..OutputCeiling /\ 0 \in Nat
        /\ "idle" \in Broker!Places
    BY DEF Broker!ConstantsOK, Broker!Places
  <2> QED
    BY <2>1, Zenon DEF Broker!Init, Broker!TypeOK
<1>2. At(broker_pc, Counted) = {} /\ At(broker_pc, Closed) = Conns
  BY DEF Broker!Init, At, Counted, Closed, Open, Broker!Places
<1>3. SendsCounted /\ TokensOpen
  <2>1. Cardinality(Conns) \in Nat /\ Cardinality({}) = 0
    BY SameBrokerCount, FS_CardinalityType, FS_EmptySet DEF Broker!ConstantsOK
  <2>2. PICK k \in Nat : k = Cardinality(Conns) * MaxTokens
    BY <2>1 DEF Broker!ConstantsOK
  <2>3. SendsCounted
    BY <1>2, <2>1 DEF Broker!Init, SendsCounted
  <2>4. TokensOpen
    <3>1. TokenCeiling \in Nat \ {0}
      BY DEF Broker!ConstantsOK
    <3>2. 0 < TokenCeiling + k
      BY <3>1
    <3> QED
      BY <1>2, <2>2, <3>2, Zenon DEF Broker!Init, TokensOpen
  <2> QED
    BY <2>3, <2>4
<1>4. OutputExact /\ Watched /\ Broker!SecretStays /\ Stopping
  BY DEF Broker!Init, OutputExact, Watched, Broker!SecretStays, Stopping, Broker!Over
<1> QED
  BY <1>1, <1>3, <1>4 DEF BrokerInv

(***************************************************************************)
(* Steps of a connection that touch no shared state                         *)
(***************************************************************************)
Shared == <<Broker!counters, Broker!security, Broker!session, Broker!history>>

\* The steps of connection c that move it, and leave the shared state alone.
LocalStep(c) ==
  \/ Broker!Accept(c) \/ Broker!Request(c) \/ Broker!Collect(c) \/ Broker!AdmitBody(c) \/ Broker!LoadTokens(c) \/ Broker!LoadOutput(c)
  \/ Broker!AdmitSend(c) \/ Broker!Response(c) \/ Broker!NextFrame(c) \/ Broker!Chunk(c) \/ Broker!StreamBroken(c)
  \/ Broker!EndConnection(c) \/ Broker!Reap(c)

\* Where such a step takes a connection: it is counted by no such step, passes the load of the
\* tokens under the ceiling only, is admitted with a clean body, and leaves a quiet place only
\* if neither the quarantine nor the abort holds it.
LEMMA LocalMoves ==
  ASSUME Broker!ConstantsOK, BrokerInv, NEW c \in Conns, LocalStep(c)
  PROVE  \E p \in Broker!Places :
           /\ Broker!Go(c, p) /\ UNCHANGED Shared
           /\ p \in Counted => broker_pc[c] \in Counted
           /\ p \in Open => broker_pc[c] \in Open \/ tokens < TokenCeiling
           /\ p \notin {"publish", "admit"}
           /\ \/ tainted' = tainted
              \/ p = "collect" /\ \E t \in BOOLEAN : tainted' = [tainted EXCEPT ![c] = t]
           /\ p \in {"tokens", "output", "count", "send", "poll"} =>
                 /\ tainted' = tainted
                 /\ broker_pc[c] = "admit" => ~broker_quarantined
                 /\ broker_pc[c] \in {"admit", "tokens", "output", "count", "send"}
           /\ broker_pc[c] \in Quiet /\ (broker_quarantined \/ aborting) => p \in Quiet
           /\ seen' \in [Conns -> Nat] /\ chunk' \in [Conns -> 0..MaxChunk]
<1> USE DEF Shared, Broker!Places, Counted, Open, Quiet, Broker!IsQuarantined, Broker!Resumes,
     Broker!Awaits, Broker!Go
<1>1. /\ broker_pc[c] \in Broker!Places /\ seen \in [Conns -> Nat] /\ chunk \in [Conns -> 0..MaxChunk]
      /\ requests \in Nat /\ output \in Nat /\ tokens \in Nat /\ TokenCeiling \in Nat
  BY DEF BrokerInv, Broker!TypeOK, Broker!ConstantsOK
<1>2. CASE Broker!Accept(c)
  <2> WITNESS "open" \in Broker!Places
  <2> QED
    BY <1>1, <1>2 DEF Broker!Accept
<1>3. CASE Broker!Request(c)
  <2> WITNESS "collect" \in Broker!Places
  <2> QED
    BY <1>1, <1>3 DEF Broker!Request
<1>4. CASE Broker!Collect(c)
  <2>1. CASE Broker!Go(c, "open")
    BY <1>1, <1>4, <2>1 DEF Broker!Collect
  <2>2. CASE ~broker_cancelled /\ ~Broker!IsQuarantined /\ Broker!Go(c, "body")
    BY <1>1, <1>4, <2>2 DEF Broker!Collect
  <2> QED
    BY <1>4, <2>1, <2>2 DEF Broker!Collect
<1>5. CASE Broker!AdmitBody(c)
  <2>1. CASE Broker!Go(c, "open")
    BY <1>1, <1>5, <2>1 DEF Broker!AdmitBody
  <2>2. CASE ~Broker!IsQuarantined /\ Broker!Go(c, "tokens")
    BY <1>1, <1>5, <2>2 DEF Broker!AdmitBody
  <2> QED
    BY <1>5, <2>1, <2>2 DEF Broker!AdmitBody
<1>6. CASE Broker!LoadTokens(c)
  <2>1. CASE tokens >= TokenCeiling
    BY <1>1, <1>6, <2>1 DEF Broker!LoadTokens
  <2>2. CASE ~(tokens >= TokenCeiling)
    <3>1. tokens < TokenCeiling
      BY <1>1, <2>2
    <3>2. /\ broker_pc' = [broker_pc EXCEPT ![c] = "output"] /\ broker_pc[c] = "tokens"
          /\ UNCHANGED <<tainted, seen, chunk, Shared>>
      BY <1>6, <2>2 DEF Broker!LoadTokens
    <3> WITNESS "output" \in Broker!Places
    <3> QED
      BY <1>1, <3>1, <3>2
  <2> QED
    BY <2>1, <2>2
<1>7. CASE Broker!LoadOutput(c)
  <2>1. CASE output >= OutputCeiling
    BY <1>1, <1>7, <2>1 DEF Broker!LoadOutput
  <2>2. CASE ~(output >= OutputCeiling)
    <3>1. /\ broker_pc' = [broker_pc EXCEPT ![c] = "count"] /\ broker_pc[c] = "output"
          /\ seen' = [seen EXCEPT ![c] = requests]
          /\ UNCHANGED <<tainted, chunk, Shared>>
      BY <1>7, <2>2 DEF Broker!LoadOutput
    <3> WITNESS "count" \in Broker!Places
    <3> QED
      BY <1>1, <3>1
  <2> QED
    BY <2>1, <2>2
<1>8. CASE Broker!AdmitSend(c)
  BY <1>1, <1>8 DEF Broker!AdmitSend
<1>9. CASE Broker!Response(c)
  BY <1>1, <1>9 DEF Broker!Response
<1>10. CASE Broker!NextFrame(c)
  BY <1>1, <1>10 DEF Broker!NextFrame
<1>11. CASE Broker!Chunk(c)
  <2> WITNESS "reserve" \in Broker!Places
  <2> QED
    BY <1>1, <1>11 DEF Broker!Chunk
<1>12. CASE Broker!StreamBroken(c)
  BY <1>1, <1>12 DEF Broker!StreamBroken
<1>13. CASE Broker!EndConnection(c)
  BY <1>1, <1>13 DEF Broker!EndConnection
<1>14. CASE Broker!Reap(c)
  BY <1>1, <1>14 DEF Broker!Reap
<1> QED
  BY <1>2, <1>3, <1>4, <1>5, <1>6, <1>7, <1>8, <1>9, <1>10, <1>11, <1>12, <1>13, <1>14
     DEF LocalStep

\* A step that leaves the counters and the history alone keeps what is counted, wherever the
\* connection goes under these conditions.
LEMMA CountsKept ==
  ASSUME Broker!ConstantsOK, BrokerInv, NEW c \in Conns, NEW p \in Broker!Places, Broker!Go(c, p),
         UNCHANGED <<Broker!counters, sent, forwarded>>,
         p \in Counted => broker_pc[c] \in Counted,
         p \in Open => broker_pc[c] \in Open \/ tokens < TokenCeiling
  PROVE  SendsCounted' /\ TokensOpen' /\ OutputExact'
<1>1. broker_pc \in [Conns -> Broker!Places] /\ broker_pc' = [broker_pc EXCEPT ![c] = p] /\ broker_pc[c] \in Broker!Places
  BY DEF BrokerInv, Broker!TypeOK, Broker!Go
<1>2. {sent, requests, tokens, TokenCeiling, MaxTokens} \subseteq Nat
  BY DEF BrokerInv, Broker!TypeOK, Broker!ConstantsOK
<1>3. SendsCounted'
  <2> DEFINE k == Cardinality(At(broker_pc, Counted))
             l == Cardinality(At(broker_pc', Counted))
  <2>1. k \in Nat /\ l \in Nat /\ (l = k \/ l = k - 1)
    <3>1. CASE broker_pc[c] \in Counted <=> p \in Counted
      BY <1>1, <3>1, CountIsNat, NobodyCrosses
    <3>2. CASE broker_pc[c] \in Counted /\ p \notin Counted
      BY <1>1, <3>2, CountIsNat, OneLeaves
    <3> QED
      BY <3>1, <3>2
  <2>2. sent' = sent /\ requests' = requests
    BY DEF Broker!counters
  <2>3. sent + Cardinality(At(broker_pc, Counted)) <= requests
    BY DEF BrokerInv, SendsCounted
  <2> QED
    BY <1>2, <2>1, <2>2, <2>3 DEF SendsCounted
<1>4. TokensOpen'
  <2> DEFINE k == Cardinality(At(broker_pc, Closed))
             l == Cardinality(At(broker_pc', Closed))
  <2>1. k \in Nat /\ l \in Nat
    BY CountIsNat
  <2>2. k <= l \/ tokens < TokenCeiling
    <3>2. CASE broker_pc[c] \in Closed => p \in Closed
      <4>1. l = k \/ l = k + 1
        <5>1. CASE broker_pc[c] \in Closed <=> p \in Closed
          BY <1>1, <5>1, NobodyCrosses
        <5>2. CASE broker_pc[c] \notin Closed /\ p \in Closed
          BY <1>1, <5>2, OneEnters
        <5> QED
          BY <3>2, <5>1, <5>2
      <4> QED
        BY <2>1, <4>1
    <3>3. CASE broker_pc[c] \in Closed /\ p \notin Closed
      BY <1>1, <3>3 DEF Closed
    <3> QED
      BY <3>2, <3>3
  <2>3. tokens < TokenCeiling + k * MaxTokens
    BY DEF BrokerInv, TokensOpen
  <2>4. tokens' = tokens
    BY DEF Broker!counters
  <2>5. tokens < TokenCeiling + l * MaxTokens
    <3> HIDE DEF k, l
    <3>1. k <= l => k * MaxTokens <= l * MaxTokens
      BY <1>2, <2>1
    <3>2. k * MaxTokens \in Nat /\ l * MaxTokens \in Nat
      BY <1>2, <2>1
    <3> QED
      BY <1>2, <2>2, <2>3, <3>1, <3>2
  <2> QED
    BY <2>4, <2>5 DEF TokensOpen, At
<1>5. OutputExact'
  BY DEF BrokerInv, OutputExact, Broker!counters
<1> QED
  BY <1>3, <1>4, <1>5

\* A step of a connection that touches no shared state keeps the invariant.
LEMMA LocalKeeps ==
  ASSUME Broker!ConstantsOK, BrokerInv, NEW c \in Conns, LocalStep(c)
  PROVE  BrokerInv'
<1>1. PICK p \in Broker!Places :
           /\ Broker!Go(c, p) /\ UNCHANGED Shared
           /\ p \in Counted => broker_pc[c] \in Counted
           /\ p \in Open => broker_pc[c] \in Open \/ tokens < TokenCeiling
           /\ p \notin {"publish", "admit"}
           /\ \/ tainted' = tainted
              \/ p = "collect" /\ \E t \in BOOLEAN : tainted' = [tainted EXCEPT ![c] = t]
           /\ p \in {"tokens", "output", "count", "send", "poll"} =>
                 /\ tainted' = tainted
                 /\ broker_pc[c] = "admit" => ~broker_quarantined
                 /\ broker_pc[c] \in {"admit", "tokens", "output", "count", "send"}
           /\ broker_pc[c] \in Quiet /\ (broker_quarantined \/ aborting) => p \in Quiet
           /\ seen' \in [Conns -> Nat] /\ chunk' \in [Conns -> 0..MaxChunk]
  BY LocalMoves
<1>2. /\ broker_pc \in [Conns -> Broker!Places] /\ broker_pc' = [broker_pc EXCEPT ![c] = p] /\ broker_pc' \in [Conns -> Broker!Places]
      /\ tainted \in [Conns -> BOOLEAN]
  BY <1>1 DEF BrokerInv, Broker!TypeOK, Broker!Go
<1>3. UNCHANGED <<requests, output, tokens, broker_quarantined, broker_cancelled, elsewhere, broker_shutdown,
                  aborting, fin, sent, leaked, forwarded, late>>
  BY <1>1 DEF Shared, Broker!counters, Broker!security, Broker!session, Broker!history
<1>4. tainted' \in [Conns -> BOOLEAN]
  BY <1>1, <1>2, Zenon
<1>5. Broker!TypeOK'
  BY <1>1, <1>2, <1>3, <1>4 DEF BrokerInv, Broker!TypeOK
<1>6. SendsCounted' /\ TokensOpen' /\ OutputExact'
  BY <1>1, <1>3, CountsKept DEF Broker!counters
<1>7. Watched'
  <2>1. ASSUME NEW d \in Conns, broker_pc'[d] \in {"publish", "admit"}, tainted'[d]
        PROVE  broker_quarantined'
    BY <1>1, <1>2, <1>3, <2>1 DEF BrokerInv, Watched
  <2>2. ASSUME NEW d \in Conns, broker_pc'[d] \in {"tokens", "output", "count", "send", "poll"}
        PROVE  ~tainted'[d]
    BY <1>1, <1>2, <2>2 DEF BrokerInv, Watched
  <2> QED
    BY <2>1, <2>2 DEF Watched
<1>8. Stopping'
  BY <1>1, <1>2, <1>3 DEF BrokerInv, Stopping
<1>9. Broker!SecretStays'
  BY <1>3 DEF BrokerInv, Broker!SecretStays
<1> QED
  BY <1>5, <1>6, <1>7, <1>8, <1>9 DEF BrokerInv

(***************************************************************************)
(* Steps that touch shared state                                            *)
(***************************************************************************)
\* The flag and the token: a quarantine is never taken back, and observe() sets it before
\* the body it found a watched value in is admitted.
LEMMA ObserveKeeps ==
  ASSUME Broker!ConstantsOK, BrokerInv, NEW c \in Conns, Broker!Observe(c) \/ Broker!Publish(c)
  PROVE  BrokerInv'
<1>1. PICK p \in {"publish", "admit"} : Broker!Go(c, p)
  BY DEF Broker!Observe, Broker!Publish
<1>2. /\ UNCHANGED <<tainted, seen, chunk, Broker!counters, elsewhere, Broker!session, Broker!history>>
      /\ broker_quarantined => broker_quarantined'
      /\ broker_pc[c] = "body" \/ broker_pc[c] = "publish"
      /\ {broker_quarantined', broker_cancelled'} \subseteq BOOLEAN
      /\ tainted[c] => broker_quarantined'
  <2>1. CASE Broker!Observe(c)
    BY <2>1 DEF Broker!Observe, BrokerInv, Broker!TypeOK
  <2>2. CASE Broker!Publish(c)
    BY <2>2 DEF Broker!Publish, BrokerInv, Broker!TypeOK, Watched
  <2> QED
    BY <2>1, <2>2
<1>3. broker_pc \in [Conns -> Broker!Places] /\ broker_pc' = [broker_pc EXCEPT ![c] = p] /\ broker_pc' \in [Conns -> Broker!Places]
  BY <1>1 DEF BrokerInv, Broker!TypeOK, Broker!Go, Broker!Places
<1>4. UNCHANGED <<requests, output, tokens, broker_shutdown, aborting, fin, sent, leaked, forwarded, late>>
  BY <1>2 DEF Broker!counters, Broker!session, Broker!history
<1>5. Broker!TypeOK'
  BY <1>2, <1>3, <1>4 DEF BrokerInv, Broker!TypeOK
<1>6. SendsCounted' /\ TokensOpen' /\ OutputExact'
  BY <1>1, <1>4, CountsKept DEF Broker!counters, Counted, Open, Broker!Places
<1>7. Watched'
  BY <1>1, <1>2, <1>3 DEF BrokerInv, Watched
<1>8. Stopping'
  BY <1>2, <1>3, <1>4 DEF BrokerInv, Stopping, Quiet
<1>9. Broker!SecretStays'
  BY <1>4 DEF BrokerInv, Broker!SecretStays
<1> QED
  BY <1>5, <1>6, <1>7, <1>8, <1>9 DEF BrokerInv

\* The compare-and-exchange of start_request counts a request under the ceiling only.
LEMMA CountKeeps ==
  ASSUME Broker!ConstantsOK, BrokerInv, NEW c \in Conns, Broker!CountRequest(c)
  PROVE  BrokerInv'
<1>1. /\ broker_pc[c] = "count" /\ broker_pc \in [Conns -> Broker!Places]
      /\ UNCHANGED <<tainted, chunk, output, tokens, broker_quarantined, broker_cancelled, elsewhere, broker_shutdown,
                     aborting, fin, sent, leaked, forwarded, late>>
  BY DEF Broker!CountRequest, BrokerInv, Broker!TypeOK, Broker!security, Broker!session,
       Broker!history
<1>2. PICK p \in {"open", "send", "count"} : broker_pc' = [broker_pc EXCEPT ![c] = p]
  BY <1>1 DEF Broker!CountRequest, Broker!Go
<1>3. requests' \in 0..RequestCeiling /\ seen' \in [Conns -> Nat]
  BY DEF Broker!CountRequest, BrokerInv, Broker!TypeOK, Broker!ConstantsOK
<1>4. Broker!TypeOK'
  BY <1>1, <1>2, <1>3 DEF BrokerInv, Broker!TypeOK, Broker!Places
<1>5. Watched'
  BY <1>1, <1>2 DEF BrokerInv, Watched
<1>6. Stopping'
  BY <1>1, <1>2 DEF BrokerInv, Stopping, Quiet
<1>7. Broker!SecretStays' /\ OutputExact'
  BY <1>1 DEF BrokerInv, Broker!SecretStays, OutputExact
<1>8. TokensOpen'
  <2>1. /\ Broker!TypeOK /\ TokensOpen /\ p \in Broker!Places /\ broker_pc[c] \in Open
        /\ 0 \in 0..MaxTokens /\ tokens' = tokens + 0
    BY <1>1, <1>2 DEF BrokerInv, Broker!TypeOK, Broker!Places, Open, Broker!ConstantsOK
  <2> QED
    BY <1>2, <2>1, AnswerKeeps
<1>9. SendsCounted'
  <2> DEFINE k == Cardinality(At(broker_pc, Counted))
             l == Cardinality(At(broker_pc', Counted))
  <2>1. k \in Nat /\ l \in Nat
    BY CountIsNat
  <2>2. CASE broker_pc' = [broker_pc EXCEPT ![c] = "send"] /\ requests' = requests + 1
    <3>1. broker_pc[c] \notin Counted /\ "send" \in Counted
      BY <1>1 DEF Counted
    <3>2. l = k + 1
      <4>1. broker_pc \in [Conns -> Broker!Places] /\ broker_pc' = [broker_pc EXCEPT ![c] = "send"]
        BY <1>1, <2>2
      <4> QED
        BY <3>1, <4>1, OneEnters
    <3> QED
      BY <1>1, <2>1, <2>2, <3>2 DEF BrokerInv, SendsCounted, Broker!TypeOK
  <2>3. CASE broker_pc' = [broker_pc EXCEPT ![c] = "open"] /\ requests' = requests
    <3>1. broker_pc[c] \notin Counted /\ "open" \notin Counted
      BY <1>1 DEF Counted
    <3>2. l = k
      <4>1. broker_pc \in [Conns -> Broker!Places] /\ broker_pc' = [broker_pc EXCEPT ![c] = "open"]
        BY <1>1, <2>3
      <4> QED
        BY <3>1, <4>1, NobodyCrosses
    <3> QED
      BY <1>1, <2>1, <2>3, <3>2 DEF BrokerInv, SendsCounted
  <2>4. CASE broker_pc' = broker_pc /\ requests' = requests
    BY <1>1, <2>4 DEF BrokerInv, SendsCounted
  <2> QED
    BY <2>2, <2>3, <2>4 DEF Broker!CountRequest, Broker!Go
<1> QED
  BY <1>4, <1>5, <1>6, <1>7, <1>8, <1>9 DEF BrokerInv

\* The first poll: the request that was counted leaves, its body clean.
LEMMA SendKeeps ==
  ASSUME Broker!ConstantsOK, BrokerInv, NEW c \in Conns, Broker!PollSend(c)
  PROVE  BrokerInv'
<1>1. /\ broker_pc[c] = "poll" /\ broker_pc \in [Conns -> Broker!Places] /\ late \in [Conns -> Nat]
      /\ UNCHANGED <<tainted, seen, chunk, requests, output, tokens, broker_quarantined, broker_cancelled,
                     elsewhere, broker_shutdown, aborting, fin, forwarded>>
  BY DEF Broker!PollSend, BrokerInv, Broker!TypeOK, Broker!counters, Broker!security,
       Broker!session, Broker!history
<1>2. ~tainted[c] /\ late[c] = 0
  BY <1>1 DEF BrokerInv, Watched, Stopping, Quiet, Broker!TypeOK
<1>3. PICK p \in {"open", "sending"} :
        /\ broker_pc' = [broker_pc EXCEPT ![c] = p]
        /\ p = "open" => UNCHANGED <<sent, leaked, late>>
        /\ p = "sending" => sent' = sent + 1 /\ leaked' = (leaked \/ tainted[c]) /\ Broker!Visible(c)
  BY DEF Broker!PollSend, Broker!Go, Broker!history
<1>4. /\ late' \in [Conns -> Nat] /\ (late'[c] # 0 => late'[c] = 1 /\ (broker_quarantined \/ fin \in Broker!Over))
      /\ \A d \in Conns : d # c => late'[d] = late[d]
      /\ late'[c] # 0 => p = "sending"
  <2>1. CASE p = "open"
    BY <1>1, <1>2, <1>3, <2>1
  <2>2. CASE p = "sending"
    BY <1>1, <1>2, <1>3, <2>2 DEF Broker!Visible
  <2> QED
    BY <1>3, <2>1, <2>2
<1>5. Broker!SecretStays'
  BY <1>2, <1>3 DEF BrokerInv, Broker!SecretStays
<1>6. Broker!TypeOK'
  <2>1. broker_pc' \in [Conns -> Broker!Places] /\ sent' \in Nat
    BY <1>1, <1>3 DEF BrokerInv, Broker!TypeOK, Broker!Places
  <2>2. leaked' \in BOOLEAN
    BY <1>3 DEF BrokerInv, Broker!TypeOK
  <2> QED
    BY <1>1, <1>4, <2>1, <2>2 DEF BrokerInv, Broker!TypeOK
<1>7. Watched'
  BY <1>1, <1>3 DEF BrokerInv, Watched
<1>8. Stopping'
  BY <1>1, <1>3, <1>4 DEF BrokerInv, Stopping, Quiet
<1>9. SendsCounted'
  <2> DEFINE k == Cardinality(At(broker_pc, Counted))
             l == Cardinality(At(broker_pc', Counted))
  <2>1. broker_pc[c] \in Counted /\ p \notin Counted
    BY <1>1, <1>3 DEF Counted
  <2>2. k \in Nat /\ l \in Nat /\ l = k - 1
    <3>1. broker_pc \in [Conns -> Broker!Places] /\ broker_pc' = [broker_pc EXCEPT ![c] = p]
      BY <1>1, <1>3
    <3> QED
      BY <2>1, <3>1, CountIsNat, OneLeaves
  <2>3. sent' = sent \/ sent' = sent + 1
    BY <1>3
  <2> QED
    BY <1>1, <2>2, <2>3 DEF BrokerInv, SendsCounted, Broker!TypeOK
<1>10. TokensOpen'
  <2>1. /\ Broker!TypeOK /\ TokensOpen /\ p \in Broker!Places /\ broker_pc[c] \in Open
        /\ 0 \in 0..MaxTokens /\ tokens' = tokens + 0
    BY <1>1, <1>3 DEF BrokerInv, Broker!TypeOK, Broker!Places, Open, Broker!ConstantsOK
  <2> QED
    BY <1>3, <2>1, AnswerKeeps
<1>11. OutputExact'
  BY <1>1 DEF BrokerInv, OutputExact
<1> QED
  BY <1>5, <1>6, <1>7, <1>8, <1>9, <1>10, <1>11 DEF BrokerInv

\* The end of an answer: its tokens are counted, and it is no longer open.
LEMMA EndKeeps ==
  ASSUME Broker!ConstantsOK, BrokerInv, NEW c \in Conns, Broker!StreamEnd(c)
  PROVE  BrokerInv'
<1>1. PICK n \in 0..MaxTokens : tokens' = tokens + n
  BY DEF Broker!StreamEnd
<1>2. /\ broker_pc[c] = "wait" /\ broker_pc \in [Conns -> Broker!Places] /\ broker_pc' = [broker_pc EXCEPT ![c] = "open"]
      /\ "open" \in Broker!Places /\ "open" \notin Open /\ "wait" \in Open
      /\ UNCHANGED <<tainted, seen, chunk, requests, output, broker_quarantined, broker_cancelled, elsewhere,
                     broker_shutdown, aborting, fin, sent, leaked, forwarded, late>>
  BY DEF Broker!StreamEnd, Broker!Resumes, Broker!Go, BrokerInv, Broker!TypeOK, Broker!Places,
       Open, Broker!security, Broker!session, Broker!history
<1>3. Broker!TypeOK'
  BY <1>1, <1>2 DEF BrokerInv, Broker!TypeOK, Broker!ConstantsOK
<1>4. TokensOpen'
  BY <1>1, <1>2, AnswerKeeps DEF BrokerInv
<1>5. SendsCounted'
  <2>1. broker_pc[c] \notin Counted /\ "open" \notin Counted
    BY <1>2 DEF Counted
  <2>2. Cardinality(At(broker_pc', Counted)) = Cardinality(At(broker_pc, Counted))
    BY <1>2, <2>1, NobodyCrosses
  <2> QED
    BY <1>2, <2>2 DEF BrokerInv, SendsCounted
<1>6. Watched' /\ Stopping' /\ Broker!SecretStays' /\ OutputExact'
  BY <1>2 DEF BrokerInv, Watched, Stopping, Quiet, Broker!SecretStays, OutputExact
<1> QED
  BY <1>3, <1>4, <1>5, <1>6 DEF BrokerInv

\* The compare-and-exchange of reserve_output: what it lets through is what it counts, and
\* the ceiling bounds it.
LEMMA ReserveKeeps ==
  ASSUME Broker!ConstantsOK, BrokerInv, NEW c \in Conns, Broker!Reserve(c)
  PROVE  BrokerInv'
<1>1. /\ broker_pc[c] = "reserve" /\ broker_pc \in [Conns -> Broker!Places] /\ late \in [Conns -> Nat]
      /\ seen \in [Conns -> Nat] /\ chunk[c] \in Nat /\ output \in 0..OutputCeiling
      /\ OutputCeiling \in Nat /\ forwarded = output /\ late[c] = 0
      /\ UNCHANGED <<tainted, chunk, requests, tokens, broker_quarantined, broker_cancelled, elsewhere, broker_shutdown,
                     aborting, fin>>
  BY DEF Broker!Reserve, BrokerInv, Broker!TypeOK, OutputExact, Stopping, Quiet,
       Broker!ConstantsOK, Broker!security, Broker!session
<1>2. Broker!Allowed(c) \in Nat /\ (Broker!Allowed(c) > 0 => seen[c] + Broker!Allowed(c) <= OutputCeiling)
  BY <1>1 DEF Broker!Allowed
<1>3. PICK p \in {"open", "overflow", "next", "reserve"} :
        /\ broker_pc' = [broker_pc EXCEPT ![c] = p]
        /\ p \notin {"overflow", "next"} => late' = late
        /\ p \in {"overflow", "next"} => Broker!Visible(c)
  BY <1>1 DEF Broker!Reserve, Broker!Go, Broker!history
<1>4. /\ output' \in 0..OutputCeiling /\ forwarded' = output' /\ sent' = sent /\ leaked' = leaked
      /\ seen' \in [Conns -> Nat]
  BY <1>1, <1>2 DEF Broker!Reserve, Broker!history
<1>5. /\ late' \in [Conns -> Nat] /\ (late'[c] # 0 => late'[c] = 1 /\ (broker_quarantined \/ fin \in Broker!Over))
      /\ \A d \in Conns : d # c => late'[d] = late[d]
      /\ late'[c] # 0 => p \in {"overflow", "next"}
  <2>1. CASE p \in {"overflow", "next"}
    BY <1>1, <1>3, <2>1 DEF Broker!Visible
  <2>2. CASE p \notin {"overflow", "next"}
    BY <1>1, <1>3, <2>2
  <2> QED
    BY <2>1, <2>2
<1>6. p \in Broker!Places /\ broker_pc' \in [Conns -> Broker!Places]
  BY <1>1, <1>3 DEF Broker!Places
<1>7. Broker!TypeOK'
  BY <1>1, <1>4, <1>5, <1>6 DEF BrokerInv, Broker!TypeOK
<1>8. TokensOpen'
  <2>1. /\ Broker!TypeOK /\ TokensOpen /\ broker_pc[c] \in Open
        /\ 0 \in 0..MaxTokens /\ tokens' = tokens + 0
    BY <1>1 DEF BrokerInv, Broker!TypeOK, Open, Broker!ConstantsOK
  <2> QED
    BY <1>3, <1>6, <2>1, AnswerKeeps
<1>9. SendsCounted'
  <2>1. broker_pc[c] \notin Counted /\ p \notin Counted
    BY <1>1, <1>3 DEF Counted
  <2>2. Cardinality(At(broker_pc', Counted)) = Cardinality(At(broker_pc, Counted))
    BY <1>1, <1>3, <2>1, NobodyCrosses
  <2> QED
    BY <1>1, <1>4, <2>2 DEF BrokerInv, SendsCounted
<1>10. Watched' /\ Broker!SecretStays' /\ OutputExact'
  BY <1>1, <1>3, <1>4 DEF BrokerInv, Watched, Broker!SecretStays, OutputExact
<1>11. Stopping'
  BY <1>1, <1>3, <1>5 DEF BrokerInv, Stopping, Quiet
<1> QED
  BY <1>7, <1>8, <1>9, <1>10, <1>11 DEF BrokerInv

\* The owner of the session and the job's other observers: what they end stays ended.
LEMMA SessionKeeps ==
  ASSUME BrokerInv, Broker!Finish \/ Broker!AbortAll \/ Broker!Finished \/ Broker!GiveUp \/ Broker!ObserveElsewhere
  PROVE  BrokerInv'
<1>1. /\ UNCHANGED <<broker_pc, tainted, seen, chunk, requests, output, tokens, sent, leaked, forwarded, late>>
      /\ broker_quarantined => broker_quarantined'
      /\ aborting => aborting'
      /\ fin' \in Broker!Over => aborting'
  BY DEF Broker!Finish, Broker!AbortAll, Broker!Finished, Broker!GiveUp, Broker!ObserveElsewhere,
       Broker!counters, Broker!session, Broker!security, Broker!history,
         BrokerInv, Stopping, Broker!Over
<1>2. Broker!TypeOK'
  <2>1. /\ {broker_quarantined', broker_cancelled', broker_shutdown', aborting'} \subseteq BOOLEAN
        /\ elsewhere' \in {"quiet", "hit", "done"} /\ fin' \in {"running", "finishing"} \cup Broker!Over
    BY DEF Broker!Finish, Broker!AbortAll, Broker!Finished, Broker!GiveUp,
         Broker!ObserveElsewhere, Broker!session, Broker!security, BrokerInv, Broker!TypeOK,
           Broker!Over
  <2> QED
    BY <1>1, <2>1 DEF BrokerInv, Broker!TypeOK
<1>3. SendsCounted' /\ TokensOpen' /\ OutputExact' /\ Broker!SecretStays'
  BY <1>1 DEF BrokerInv, SendsCounted, TokensOpen, OutputExact, Broker!SecretStays
<1>4. Watched' /\ Stopping'
  BY <1>1 DEF BrokerInv, Watched, Stopping
<1> QED
  BY <1>2, <1>3, <1>4 DEF BrokerInv

\* However many connections share a session and however they interleave, no more requests
\* leave and no more bytes come back than the ceilings allow, the tokens overrun theirs by
\* the open answers at most, no watched body leaves, and each connection shows at most one
\* thing more once the job is quarantined or the session has ended (start_request,
\* reserve_output, JobSecurity::observe, ModelBrokerSession::finish).
THEOREM CeilingsKept == Broker!ConstantsOK => (Broker!Spec => []Broker!CeilingsHold)
<1> SUFFICES ASSUME Broker!ConstantsOK
             PROVE  Broker!Spec => []Broker!CeilingsHold
  OBVIOUS
<1>1. Broker!Init => BrokerInv
  BY BrokerInit
<1>2. BrokerInv /\ [Broker!Next]_(Broker!vars) => BrokerInv'
  <2> SUFFICES ASSUME BrokerInv, [Broker!Next]_(Broker!vars)
               PROVE  BrokerInv'
    OBVIOUS
  <2>1. ASSUME UNCHANGED Broker!vars
        PROVE  BrokerInv'
    BY <2>1 DEF Broker!vars, Broker!counters, Broker!security, Broker!session, Broker!history,
         BrokerInv, Broker!TypeOK, SendsCounted,
                TokensOpen, OutputExact, Watched, Broker!SecretStays, Stopping
  <2>2. ASSUME NEW c \in Conns, Broker!Connection(c)
        PROVE  BrokerInv'
    <3>1. CASE LocalStep(c)
      BY <3>1, LocalKeeps
    <3>2. CASE Broker!Observe(c) \/ Broker!Publish(c)
      BY <3>2, ObserveKeeps
    <3>3. CASE Broker!CountRequest(c)
      BY <3>3, CountKeeps
    <3>4. CASE Broker!PollSend(c)
      BY <3>4, SendKeeps
    <3>5. CASE Broker!StreamEnd(c)
      BY <3>5, EndKeeps
    <3>6. CASE Broker!Reserve(c)
      BY <3>6, ReserveKeeps
    <3> QED
      BY <2>2, <3>1, <3>2, <3>3, <3>4, <3>5, <3>6 DEF Broker!Connection, Broker!InPoll, LocalStep
  <2> QED
    BY <2>1, <2>2, SessionKeeps DEF Broker!Next
<1>3. BrokerInv => Broker!CeilingsHold
  BY BrokerImplied
<1> QED
  BY <1>1, <1>2, <1>3, PTL DEF Broker!Spec

(***************************************************************************)
(* The session of an agent                                                  *)
(***************************************************************************)
BufferRow == [verdict : Session!Verdicts \cup {None}, patch : GoodPatches \cup {None}]
ServerRow == [verdicts : Seq(BufferRow), findings : SUBSET AgentFindings]
AckedRow == [verdict : Session!Verdicts \cup {None}, patch : GoodPatches \cup {None},
             findings : SUBSET AgentFindings]

AgentTyped == Session!TypeOK /\ stored \in ServerRow /\ acked \in AckedRow

\* What the agent was told is what the broker has, or the server.
AgentTold ==
  /\ buffer.verdict = acked.verdict /\ buffer.patch = acked.patch
  /\ acked.findings \subseteq stored.findings

\* The buffer is sent once, when nothing changes it any more.
AgentStored ==
  /\ stored.verdicts \in {<<>>, <<buffer>>}
  /\ stored.verdicts # <<>> => broker \in {"flushing"} \cup Session!Ended

\* What each place of the broker, and each of its ends, stands for.
AgentPlaces ==
  /\ broker = "listening" \/ mode = "scan" => acked.verdict = None
  /\ broker = "submitting" => call.tool = "finding"
  /\ broker = "flushing" => mode = "verify" /\ acked.verdict # None
  /\ broker = "done" => /\ acked.verdict # None => stored.verdicts # <<>>
                        /\ mode = "verify" /\ stream # "none" => acked.verdict # None
  /\ broker = "unanswered" => stored.verdicts # <<>>
  /\ broker = "no_verdict" => acked.verdict = None
  /\ broker = "quarantined" => hit
  /\ broker = "aborted" => main = "returned" /\ (result = "abandoned" \/ shutdown)

\* The worker leaves only when the broker's task is over, or gives both up.
AgentWays ==
  /\ main = "driving" => result = "none"
  /\ main = "draining" => shutdown
  /\ main = "returned" /\ result # "abandoned" => broker \in Session!Ended /\ shutdown
  /\ main = "returned" /\ result = "ok" => broker = "done"

AgentInv == AgentTyped /\ AgentTold /\ AgentStored /\ AgentPlaces /\ AgentWays

\* What a step owes.
AgentKept == AgentInv' /\ Session!NothingAfterReturnStep

\* The inductive invariant implies what the run checks.
LEMMA AgentImplied == AgentInv => Session!VerdictsDelivered
<1> SUFFICES ASSUME AgentInv
             PROVE  Session!VerdictsDelivered
  OBVIOUS
<1>1. Session!TypeOK
  BY DEF AgentInv, AgentTyped
<1>2. Session!SuccessDelivered
  BY DEF AgentInv, AgentTold, AgentPlaces, AgentWays, Session!SuccessDelivered
<1>3. Session!FirstVerdictStands
  <2>1. buffer \in BufferRow /\ stored.verdicts \in {<<>>, <<buffer>>}
    BY <1>1 DEF AgentInv, AgentStored, Session!TypeOK, BufferRow
  <2>2. buffer = [verdict |-> acked.verdict, patch |-> acked.patch]
    BY <2>1 DEF AgentInv, AgentTold, BufferRow
  <2>3. CASE stored.verdicts = <<>>
    BY <2>3 DEF Session!FirstVerdictStands
  <2>4. CASE stored.verdicts = <<buffer>>
    BY <2>2, <2>4 DEF Session!FirstVerdictStands
  <2> QED
    BY <2>1, <2>3, <2>4
<1>4. Session!VerdictSurvives
  BY DEF AgentInv, AgentPlaces, AgentWays, Session!VerdictSurvives, Session!Ended
<1> QED
  BY <1>1, <1>2, <1>3, <1>4 DEF Session!VerdictsDelivered

\* It holds when the agent is started.
LEMMA AgentInitial == Session!ConstantsOK /\ Session!Init => AgentInv
<1> SUFFICES ASSUME Session!ConstantsOK, Session!Init
             PROVE  AgentInv
  OBVIOUS
<1>1. Session!Empty \in BufferRow /\ Session!Empty.verdict = None /\ Session!Empty.patch = None
  BY DEF Session!Empty, BufferRow
<1>2. /\ stored \in ServerRow /\ acked \in AckedRow /\ stored.verdicts = <<>> /\ stored.findings = {}
      /\ acked.verdict = None /\ acked.patch = None /\ acked.findings = {}
  BY DEF Session!Init, ServerRow, AckedRow
<1>3. Session!TypeOK
  BY <1>1 DEF Session!Init, Session!TypeOK, BufferRow, Session!Serving, Session!Ended
<1> QED
  BY <1>1, <1>2, <1>3
     DEF Session!Init, AgentInv, AgentTyped, AgentTold, AgentStored, AgentPlaces, AgentWays,
          Session!Ended

\* The sandbox and the quarantine leave the broker and the worker alone; nobody connects to a
\* broker that has ended.
LEMMA SandboxKeeps ==
  ASSUME Session!ConstantsOK, AgentInv,
         \/ Session!Connect \/ Session!Close \/ Session!Quarantine
         \/ \E status \in {"succeeded", "failed"} : Session!Exit(status)
         \/ \E request \in Session!Tools : Session!Write(request)
  PROVE  AgentKept
<1>1. /\ broker' = broker /\ call' = call /\ buffer' = buffer /\ stored' = stored /\ acked' = acked
      /\ mode' = mode /\ main' = main /\ shutdown' = shutdown /\ result' = result
      /\ child' \in {"running", "succeeded", "failed", "killed", "unkillable"}
      /\ stream' \in {"none", "open", "closed"} /\ record' \in Session!Tools \cup {Session!NoCall}
      /\ hit' \in BOOLEAN /\ (hit => hit') /\ (stream' # stream => stream # "none" \/ broker = "listening")
  BY DEF Session!Connect, Session!Close, Session!Quarantine, Session!Exit, Session!Write,
       Session!taskVars, AgentInv, AgentTyped, Session!TypeOK
<1>2. AgentTyped' /\ AgentTold' /\ AgentStored' /\ AgentWays' /\ Session!NothingAfterReturnStep
  BY <1>1 DEF AgentInv, AgentTyped, Session!TypeOK, AgentTold, AgentStored, AgentWays,
       Session!NothingAfterReturnStep
<1>3. AgentPlaces'
  BY <1>1 DEF AgentInv, AgentPlaces
<1> QED
  BY <1>2, <1>3 DEF AgentKept, AgentInv

\* A step of the broker's task, while the worker is there.
LEMMA TaskKeeps ==
  ASSUME Session!ConstantsOK, AgentInv, main # "returned", Session!Task
  PROVE  AgentKept
<1>1. /\ mode' = mode /\ child' = child /\ stream' = stream /\ hit' = hit /\ main' = main
      /\ shutdown' = shutdown /\ result' = result
  BY DEF Session!Task
<1>2. Session!TypeOK /\ stored \in ServerRow /\ acked \in AckedRow
  BY DEF AgentInv, AgentTyped
<1>3. buffer \in BufferRow /\ call \in Session!Tools \cup {Session!NoCall}
  BY <1>2 DEF Session!TypeOK, BufferRow
<1>4. ASSUME AgentTyped', AgentTold', AgentStored', AgentPlaces'
      PROVE  AgentKept
  <2>1. AgentWays' /\ Session!NothingAfterReturnStep
    BY <1>1 DEF AgentInv, AgentWays, Session!NothingAfterReturnStep
  <2> QED
    BY <1>4, <2>1 DEF AgentKept, AgentInv
\* Steps that change neither the buffer nor what was said or stored.
<1>5. ASSUME buffer' = buffer, stored' = stored, acked' = acked, call' \in Session!Tools \cup {Session!NoCall},
             record' \in Session!Tools \cup {Session!NoCall}, broker' \in Session!Serving \cup Session!Ended, AgentPlaces',
             stored.verdicts # <<>> => broker' \in {"flushing"} \cup Session!Ended
      PROVE  AgentKept
  BY <1>1, <1>2, <1>4, <1>5 DEF AgentInv, AgentTyped, Session!TypeOK, AgentTold, AgentStored
<1>6. CASE Session!Accept \/ Session!Unclaimed \/ Session!Read \/ Session!EndOfStream \/ Session!StreamFails \/ Session!SeesHit \/ Session!VerdictAnswered
  <2>1. /\ buffer' = buffer /\ stored' = stored /\ acked' = acked /\ call' \in Session!Tools \cup {Session!NoCall}
        /\ record' \in Session!Tools \cup {Session!NoCall} /\ broker' \in Session!Serving \cup Session!Ended
    BY <1>2, <1>6 DEF Session!Accept, Session!Unclaimed, Session!Read, Session!EndOfStream,
         Session!StreamFails, Session!SeesHit, Session!VerdictAnswered,
       Session!TypeOK, Session!Serving, Session!Ended
  <2>2. stored.verdicts # <<>> => broker' \in {"flushing"} \cup Session!Ended
    BY <1>6 DEF AgentInv, AgentStored, Session!Accept, Session!Unclaimed, Session!Read,
         Session!EndOfStream, Session!StreamFails, Session!SeesHit,
       Session!VerdictAnswered, Session!Ended
  <2>3. AgentPlaces'
    <3>1. CASE Session!Accept \/ Session!Unclaimed \/ Session!Read \/ Session!StreamFails
      BY <1>1, <2>1, <3>1 DEF AgentInv, AgentPlaces, AgentTold, Session!Accept, Session!Unclaimed,
           Session!Read, Session!StreamFails
    <3>2. CASE Session!EndOfStream
      BY <1>1, <1>2, <2>1, <3>2 DEF AgentInv, AgentPlaces, AgentTold, Session!EndOfStream,
           Session!TypeOK
    <3>3. CASE Session!SeesHit \/ Session!VerdictAnswered
      BY <1>1, <2>1, <3>3 DEF AgentInv, AgentPlaces, AgentTold, Session!SeesHit,
           Session!VerdictAnswered
    <3> QED
      BY <1>6, <3>1, <3>2, <3>3
  <2> QED
    BY <1>5, <2>1, <2>2, <2>3
<1>7. CASE Session!SubmitVerdict \/ Session!SubmitPatch
  <2>1. /\ broker = "validating" /\ broker' = "reading" /\ call' = Session!NoCall /\ stored' = stored
        /\ record' = record
    BY <1>7 DEF Session!SubmitVerdict, Session!SubmitPatch, Session!Answer
  <2>2. stored.verdicts = <<>>
    BY <2>1 DEF AgentInv, AgentStored, Session!Ended
  <2>3. CASE buffer' = buffer /\ acked' = acked
    <3>1. AgentPlaces'
      BY <1>1, <2>1, <2>3 DEF AgentInv, AgentPlaces
    <3> QED
      BY <1>2, <1>5, <2>1, <2>2, <2>3, <3>1 DEF Session!TypeOK, Session!Serving
  <2>4. CASE /\ Session!SubmitVerdict /\ mode = "verify" /\ buffer.verdict = None
             /\ buffer' = [buffer EXCEPT !.verdict = call.arg]
             /\ acked' = [acked EXCEPT !.verdict = call.arg]
    <3>1. call.arg \in Session!Verdicts
      <4>1. call.tool = "verdict"
        BY <2>4 DEF Session!SubmitVerdict
      <4> QED
        BY <1>3, <4>1 DEF Session!Tools, Session!NoCall
    <3>2. buffer.patch = None
      BY <1>2, <2>4 DEF Session!TypeOK, Session!ConstantsOK, Session!Verdicts
    <3>3. /\ buffer' \in BufferRow /\ buffer'.verdict = call.arg /\ buffer'.patch = None
          /\ acked' \in AckedRow /\ acked'.verdict = call.arg /\ acked'.patch = acked.patch
          /\ acked'.findings = acked.findings
      BY <1>2, <1>3, <2>4, <3>1, <3>2 DEF BufferRow, AckedRow
    <3>4. AgentTyped'
      BY <1>1, <1>2, <2>1, <3>3 DEF AgentTyped, Session!TypeOK, BufferRow, Session!Serving
    <3>5. AgentTold' /\ AgentStored' /\ AgentPlaces'
      BY <1>1, <2>1, <2>2, <2>4, <3>2, <3>3 DEF AgentInv, AgentTold, AgentStored, AgentPlaces
    <3> QED
      BY <1>4, <3>4, <3>5
  <2>5. CASE /\ Session!SubmitPatch /\ Session!PatchAllowed /\ call.arg \in GoodPatches
             /\ buffer' = [buffer EXCEPT !.patch = call.arg]
             /\ acked' = [acked EXCEPT !.patch = call.arg]
    <3>1. buffer.verdict = "confirmed" /\ mode = "verify"
      BY <2>5 DEF Session!PatchAllowed
    <3>2. /\ buffer' \in BufferRow /\ buffer'.verdict = "confirmed" /\ buffer'.patch = call.arg
          /\ acked' \in AckedRow /\ acked'.patch = call.arg /\ acked'.verdict = acked.verdict
          /\ acked'.findings = acked.findings
      BY <1>2, <1>3, <2>5, <3>1 DEF BufferRow, AckedRow
    <3>3. AgentTyped'
      BY <1>1, <1>2, <2>1, <3>2 DEF AgentTyped, Session!TypeOK, BufferRow, Session!Serving
    <3>4. AgentTold' /\ AgentStored' /\ AgentPlaces'
      BY <1>1, <2>1, <2>2, <3>1, <3>2 DEF AgentInv, AgentTold, AgentStored, AgentPlaces
    <3> QED
      BY <1>4, <3>3, <3>4
  <2> QED
    BY <1>7, <2>3, <2>4, <2>5 DEF Session!SubmitVerdict, Session!SubmitPatch, Session!Answer
<1>8. CASE Session!SubmitFinding \/ Session!FindingAnswered
  <2>1. /\ broker \in {"validating", "submitting"} /\ broker' \in {"reading", "submitting"}
        /\ call' \in Session!Tools \cup {Session!NoCall} /\ stored' = stored /\ record' = record /\ buffer' = buffer
        /\ broker' = "submitting" => call'.tool = "finding"
    BY <1>3, <1>8 DEF Session!SubmitFinding, Session!FindingAnswered, Session!Answer
  <2>2. stored.verdicts = <<>>
    BY <2>1 DEF AgentInv, AgentStored, Session!Ended
  <2>3. CASE acked' = acked
    <3>1. AgentPlaces'
      BY <1>1, <2>1, <2>3 DEF AgentInv, AgentPlaces
    <3> QED
      BY <1>2, <1>5, <2>1, <2>2, <2>3, <3>1 DEF Session!TypeOK, Session!Serving
  <2>4. CASE /\ call.arg \in stored.findings
             /\ acked' = [acked EXCEPT !.findings = @ \cup {call.arg}]
    <3>1. /\ acked' \in AckedRow /\ acked'.verdict = acked.verdict /\ acked'.patch = acked.patch
          /\ acked'.findings \subseteq stored.findings
      BY <1>2, <2>4 DEF AckedRow, ServerRow, AgentInv, AgentTold
    <3>2. AgentTyped'
      BY <1>1, <1>2, <2>1, <3>1 DEF AgentTyped, Session!TypeOK, Session!Serving
    <3>3. AgentTold' /\ AgentStored' /\ AgentPlaces'
      BY <1>1, <2>1, <2>2, <3>1 DEF AgentInv, AgentTold, AgentStored, AgentPlaces
    <3> QED
      BY <1>4, <3>2, <3>3
  <2> QED
    BY <1>8, <2>3, <2>4 DEF Session!SubmitFinding, Session!FindingAnswered, Session!Answer
<1>9. CASE Session!FindingStored \/ Session!VerdictStored
  <2>1. /\ broker' = broker /\ call' = call /\ buffer' = buffer /\ acked' = acked /\ record' = record
    BY <1>9 DEF Session!FindingStored, Session!VerdictStored
  <2>2. CASE Session!FindingStored
    <3>1. /\ stored' \in ServerRow /\ stored'.verdicts = stored.verdicts
          /\ stored.findings \subseteq stored'.findings
      <4>1. call.arg \in AgentFindings
        <5>1. call.tool = "finding"
          BY <2>2 DEF Session!FindingStored, AgentInv, AgentPlaces
        <5> QED
          BY <1>3, <5>1 DEF Session!Tools, Session!NoCall
      <4> QED
        BY <1>2, <2>2, <4>1 DEF Session!FindingStored, ServerRow
    <3>2. AgentTyped' /\ AgentTold' /\ AgentStored'
      BY <1>1, <1>2, <2>1, <3>1 DEF AgentInv, AgentTyped, Session!TypeOK, AgentTold, AgentStored
    <3>3. AgentPlaces'
      BY <1>1, <2>1, <3>1 DEF AgentInv, AgentPlaces
    <3> QED
      BY <1>4, <3>2, <3>3
  <2>3. CASE Session!VerdictStored
    <3>1. /\ stored' \in ServerRow /\ stored'.verdicts = <<buffer>>
          /\ stored'.findings = stored.findings
      <4>1. stored.verdicts = <<>> /\ stored' = [stored EXCEPT !.verdicts = Append(stored.verdicts, buffer)]
        BY <2>3 DEF Session!VerdictStored
      <4>2. Append(stored.verdicts, buffer) = <<buffer>> /\ <<buffer>> \in Seq(BufferRow)
        BY <1>3, <4>1
      <4> QED
        BY <1>2, <4>1, <4>2 DEF ServerRow
    <3>2. AgentTyped' /\ AgentTold' /\ AgentStored'
      BY <1>1, <1>2, <2>1, <2>3, <3>1
         DEF AgentInv, AgentTyped, Session!TypeOK, AgentTold, AgentStored, Session!VerdictStored
    <3>3. AgentPlaces'
      BY <1>1, <2>1, <2>3, <3>1 DEF AgentInv, AgentPlaces, Session!VerdictStored
    <3> QED
      BY <1>4, <3>2, <3>3
  <2> QED
    BY <1>9, <2>2, <2>3
<1> QED
  BY <1>6, <1>7, <1>8, <1>9 DEF Session!Task, Session!Admitted

\* The worker's own steps, and the last one of a task it has given up.
LEMMA WorkerKeeps ==
  ASSUME Session!ConstantsOK, AgentInv, Session!Worker \/ Session!LastStep
  PROVE  AgentKept
<1>1. Session!TypeOK /\ stored \in ServerRow /\ acked \in AckedRow /\ buffer \in BufferRow
  BY DEF AgentInv, AgentTyped, Session!TypeOK, BufferRow
<1>2. CASE Session!ChildEnds \/ Session!CutShort \/ Session!KillFails
  <2>1. /\ mode' = mode /\ stream' = stream /\ record' = record /\ hit' = hit /\ broker' = broker
        /\ call' = call /\ buffer' = buffer /\ stored' = stored /\ acked' = acked
        /\ main = "driving" /\ child' \in {"running", "succeeded", "failed", "killed", "unkillable"}
        /\ \/ main' = "draining" /\ shutdown' = TRUE /\ result' \in {"ok", "failed"}
           \/ main' = "returned" /\ shutdown' = shutdown /\ result' = "abandoned"
    BY <1>1, <1>2 DEF Session!ChildEnds, Session!CutShort, Session!KillFails, Session!taskVars,
         Session!TypeOK
  <2>2. AgentTyped' /\ AgentTold' /\ AgentStored'
    <3>1. /\ shutdown' \in BOOLEAN /\ main' \in {"driving", "draining", "returned"}
          /\ result' \in {"none", "ok", "failed", "abandoned"}
      BY <1>1, <2>1 DEF Session!TypeOK
    <3> QED
      BY <1>1, <2>1, <3>1 DEF AgentInv, AgentTyped, Session!TypeOK, AgentTold, AgentStored
  <2>3. AgentPlaces' /\ AgentWays' /\ Session!NothingAfterReturnStep
    BY <2>1 DEF AgentInv, AgentPlaces, AgentWays, Session!NothingAfterReturnStep
  <2> QED
    BY <2>2, <2>3 DEF AgentKept, AgentInv
<1>3. CASE Session!Drained \/ Session!DrainTimeout
  <2>1. /\ mode' = mode /\ child' = child /\ stream' = stream /\ record' = record /\ hit' = hit
        /\ call' = call /\ buffer' = buffer /\ stored' = stored /\ acked' = acked
        /\ shutdown' = shutdown /\ main = "draining" /\ main' = "returned"
    BY <1>3 DEF Session!Drained, Session!DrainTimeout, Session!taskVars, Session!Returns
  <2>2. shutdown /\ result \in {"none", "ok", "failed", "abandoned"}
    BY <1>1, <2>1 DEF AgentInv, AgentWays, Session!TypeOK
  <2>3. \/ broker' = broker /\ broker \in Session!Ended /\ (result' = "failed" \/ (broker = "done" /\ result' = result))
        \/ broker' = "aborted" /\ broker \in Session!Serving /\ result' = "failed"
    BY <1>3 DEF Session!Drained, Session!DrainTimeout, Session!taskVars, Session!Returns
  <2>4. AgentTyped'
    BY <1>1, <2>1, <2>2, <2>3 DEF AgentTyped, Session!TypeOK, Session!Ended
  <2>5. AgentTold' /\ AgentStored'
    BY <2>1, <2>3 DEF AgentInv, AgentTold, AgentStored, Session!Ended
  <2>6. AgentPlaces' /\ AgentWays'
    BY <2>1, <2>2, <2>3 DEF AgentInv, AgentPlaces, AgentWays, Session!Ended
  <2>7. Session!NothingAfterReturnStep
    BY <2>1 DEF Session!NothingAfterReturnStep
  <2> QED
    BY <2>4, <2>5, <2>6, <2>7 DEF AgentKept, AgentInv
<1>4. CASE Session!LastStep
  <2>1. /\ mode' = mode /\ child' = child /\ stream' = stream /\ record' = record /\ hit' = hit
        /\ call' = call /\ buffer' = buffer /\ main' = main /\ acked' = acked
        /\ shutdown' = shutdown /\ result' = result /\ main = "returned" /\ broker \in Session!Serving
        /\ broker' = "aborted"
    BY <1>4 DEF Session!LastStep
  <2>2. result = "abandoned"
    BY <2>1 DEF AgentInv, AgentWays, Session!Serving, Session!Ended
  <2>3. CASE stored' = stored
    <3>1. AgentTyped' /\ AgentTold' /\ AgentStored'
      BY <1>1, <2>1, <2>3 DEF AgentInv, AgentTyped, Session!TypeOK, AgentTold, AgentStored,
           Session!Ended
    <3>2. AgentPlaces' /\ AgentWays' /\ Session!NothingAfterReturnStep
      BY <2>1, <2>2, <2>3 DEF AgentInv, AgentPlaces, AgentWays, Session!NothingAfterReturnStep
    <3> QED
      BY <3>1, <3>2 DEF AgentKept, AgentInv
  <2>4. CASE broker = "submitting" /\ stored' = [stored EXCEPT !.findings = @ \cup {call.arg}]
    <3>1. call.arg \in AgentFindings
      <4>1. call.tool = "finding" /\ call \in Session!Tools \cup {Session!NoCall}
        BY <1>1, <2>4 DEF AgentInv, AgentPlaces, Session!TypeOK
      <4> QED
        BY <4>1 DEF Session!Tools, Session!NoCall
    <3>2. /\ stored' \in ServerRow /\ stored'.verdicts = stored.verdicts
          /\ stored.findings \subseteq stored'.findings
      BY <1>1, <2>4, <3>1 DEF ServerRow
    <3>3. AgentTyped' /\ AgentTold' /\ AgentStored'
      BY <1>1, <2>1, <3>2 DEF AgentInv, AgentTyped, Session!TypeOK, AgentTold, AgentStored,
           Session!Ended
    <3>4. AgentPlaces' /\ AgentWays' /\ Session!NothingAfterReturnStep
      BY <2>1, <2>2, <3>2 DEF AgentInv, AgentPlaces, AgentWays, Session!NothingAfterReturnStep
    <3> QED
      BY <3>3, <3>4 DEF AgentKept, AgentInv
  <2>5. CASE /\ broker = "flushing" /\ stored.verdicts = <<>>
             /\ stored' = [stored EXCEPT !.verdicts = Append(@, buffer)]
    <3>1. Append(stored.verdicts, buffer) = <<buffer>> /\ <<buffer>> \in Seq(BufferRow)
      BY <1>1, <2>5
    <3>2. /\ stored' \in ServerRow /\ stored'.verdicts = <<buffer>>
          /\ stored'.findings = stored.findings
      BY <1>1, <2>5, <3>1 DEF ServerRow
    <3>3. AgentTyped' /\ AgentTold' /\ AgentStored'
      BY <1>1, <2>1, <3>2 DEF AgentInv, AgentTyped, Session!TypeOK, AgentTold, AgentStored,
           Session!Ended
    <3>4. AgentPlaces' /\ AgentWays' /\ Session!NothingAfterReturnStep
      BY <2>1, <2>2, <3>2 DEF AgentInv, AgentPlaces, AgentWays, Session!NothingAfterReturnStep
    <3> QED
      BY <3>3, <3>4 DEF AgentKept, AgentInv
  <2> QED
    BY <1>4, <2>3, <2>4, <2>5 DEF Session!LastStep
<1> QED
  BY <1>2, <1>3, <1>4 DEF Session!Worker

\* Every step keeps the invariant.
LEMMA AgentStep ==
  ASSUME Session!ConstantsOK, AgentInv, [Session!Next]_(Session!vars)
  PROVE  AgentKept
<1>1. CASE UNCHANGED Session!vars
  <2>1. /\ mode' = mode /\ child' = child /\ stream' = stream /\ record' = record /\ hit' = hit
        /\ call' = call /\ buffer' = buffer /\ main' = main /\ acked' = acked
        /\ shutdown' = shutdown /\ result' = result /\ broker' = broker /\ stored' = stored
    BY <1>1 DEF Session!vars
  <2>2. AgentTyped' /\ AgentTold' /\ AgentStored'
    BY <2>1 DEF AgentInv, AgentTyped, Session!TypeOK, AgentTold, AgentStored
  <2>3. AgentPlaces' /\ AgentWays' /\ Session!NothingAfterReturnStep
    BY <2>1 DEF AgentInv, AgentPlaces, AgentWays, Session!NothingAfterReturnStep
  <2> QED
    BY <2>2, <2>3 DEF AgentKept, AgentInv
<1> QED
  BY <1>1, SandboxKeeps, TaskKeeps, WorkerKeeps DEF Session!Next, Session!Finished

\* The inductive invariant holds in every state.
LEMMA AgentAlways ==
  ASSUME Session!ConstantsOK
  PROVE  Session!Spec => []AgentInv
<1>1. AgentInv /\ [Session!Next]_(Session!vars) => AgentInv'
  BY AgentStep DEF AgentKept
<1> QED
  BY <1>1, AgentInitial, PTL DEF Session!Spec

\* Whatever the agent writes and however it ends: a run that succeeds has delivered what its
\* agent was told is accepted, the server gets the agent's first verdict with the patch it was
\* told is buffered, once, and an accepted verdict is lost only to a quarantine, a broken
\* stream, a refused request, the drain's timeout or a kill that failed (mcp.rs, claude_cli.rs).
THEOREM VerdictsAreDelivered == Session!ConstantsOK => (Session!Spec => []Session!VerdictsDelivered)
<1> SUFFICES ASSUME Session!ConstantsOK
             PROVE  Session!Spec => []Session!VerdictsDelivered
  OBVIOUS
<1> QED
  BY AgentAlways, AgentImplied, PTL

\* And once the run has returned nothing reaches the server in its name, unless the child
\* could not be killed.
THEOREM ReturnIsFinal == Session!ConstantsOK => (Session!Spec => Session!NothingAfterReturn)
<1> SUFFICES ASSUME Session!ConstantsOK
             PROVE  Session!Spec => Session!NothingAfterReturn
  OBVIOUS
<1>1. AgentInv /\ [Session!Next]_(Session!vars) => [Session!NothingAfterReturnStep]_(Session!vars)
  BY AgentStep DEF AgentKept
<1> QED
  BY <1>1, AgentAlways, PTL DEF Session!Spec, Session!NothingAfterReturn

(***************************************************************************)
(* The shared clones                                                        *)
(***************************************************************************)
\* The instance counts as this module does.
LEMMA SameCacheCount ==
  ASSUME NEW S
  PROVE  /\ Cache!IsFiniteSet(S) <=> IsFiniteSet(S)
         /\ Cache!Cardinality(S) = Cardinality(S)
BY DEF Cache!IsFiniteSet, IsFiniteSet, Cache!Cardinality, Cardinality

\* Who holds a guard of repository k, where the callers are and what they refresh.
HoldersOf(places, wanted, k) == {c \in Callers : wanted[c] = k /\ places[c] \in Cache!Pinning}

\* Callers, locks and pins have their types.
CacheTyped ==
  /\ lock \in [CacheKeys -> Callers \cup {None}] /\ pins \in [CacheKeys -> Nat]
  /\ cache_pc \in [Callers -> Cache!Places] /\ key \in [Callers -> CacheKeys]

PinsCounted == \A k \in CacheKeys : pins[k] = Cardinality(HoldersOf(cache_pc, key, k))

CacheInv == CacheTyped /\ Cache!OneRefresh /\ PinsCounted

\* The part of CacheSound that callers rely on.
LEMMA CacheImplied == CacheInv => Cache!OneRefresh /\ Cache!PinsExact
BY SameCacheCount DEF CacheInv, PinsCounted, Cache!PinsExact, HoldersOf

\* Holders are finitely many.
LEMMA HoldersFinite ==
  ASSUME Cache!ConstantsOK, NEW f, NEW g, NEW k
  PROVE  IsFiniteSet(HoldersOf(f, g, k)) /\ Cardinality(HoldersOf(f, g, k)) \in Nat
BY SameCacheCount, FS_Subset, FS_CardinalityType DEF HoldersOf, Cache!ConstantsOK

\* It holds in a cache nobody uses.
LEMMA CacheInitial == Cache!ConstantsOK /\ Cache!Init => CacheInv
<1> SUFFICES ASSUME Cache!ConstantsOK, Cache!Init
             PROVE  CacheInv
  OBVIOUS
<1>1. /\ lock = [k \in CacheKeys |-> None] /\ pins = [k \in CacheKeys |-> 0] /\ cache_pc = [c \in Callers |-> "idle"]
      /\ key \in [Callers -> CacheKeys]
  BY DEF Cache!Init, Cache!ConstantsOK
<1>2. \A k \in CacheKeys : HoldersOf(cache_pc, key, k) = {}
  BY <1>1 DEF HoldersOf, Cache!Pinning, Cache!Blocking
<1>3. Cardinality({}) = 0
  BY FS_EmptySet
<1>4. CacheTyped
  BY <1>1 DEF CacheTyped, Cache!Places
<1>5. Cache!OneRefresh
  BY <1>1 DEF Cache!OneRefresh, Cache!Blocking
<1> QED
  BY <1>1, <1>2, <1>3, <1>4, <1>5 DEF CacheInv, PinsCounted

\* A caller goes to another place: its repository's pins follow, and the lock.
LEMMA CallerMoves ==
  ASSUME Cache!ConstantsOK, CacheInv, NEW c \in Callers, NEW p \in Cache!Places, key' = key,
         cache_pc' = [cache_pc EXCEPT ![c] = p],
         pins' = IF cache_pc[c] \notin Cache!Pinning /\ p \in Cache!Pinning THEN [pins EXCEPT ![key[c]] = @ + 1]
                 ELSE IF cache_pc[c] \in Cache!Pinning /\ p \notin Cache!Pinning THEN Cache!Unpinned(key[c]) ELSE pins,
         \/ lock' = lock /\ (p \in Cache!Blocking => cache_pc[c] \in Cache!Blocking)
         \/ lock[key[c]] = None /\ lock' = [lock EXCEPT ![key[c]] = c]
         \/ cache_pc[c] \in Cache!Blocking /\ p \notin Cache!Blocking /\ lock' = Cache!Unlocked(c)
  PROVE  CacheInv'
<1>1. PICK k : k = key[c]
  OBVIOUS
<1>2. /\ k \in CacheKeys /\ lock \in [CacheKeys -> Callers \cup {None}] /\ pins \in [CacheKeys -> Nat]
      /\ cache_pc \in [Callers -> Cache!Places] /\ key \in [Callers -> CacheKeys]
  BY <1>1 DEF CacheInv, CacheTyped
<1>3. cache_pc' \in [Callers -> Cache!Places] /\ cache_pc'[c] = p /\ \A d \in Callers : d # c => cache_pc'[d] = cache_pc[d]
  BY <1>2
<1>4. \A j \in CacheKeys : j # k => HoldersOf(cache_pc', key', j) = HoldersOf(cache_pc, key, j)
  BY <1>1, <1>3 DEF HoldersOf
<1>5. pins[k] = Cardinality(HoldersOf(cache_pc, key, k)) /\ \A j \in CacheKeys : pins[j] = Cardinality(HoldersOf(cache_pc, key, j))
  BY <1>2 DEF CacheInv, PinsCounted
<1>6. /\ pins' \in [CacheKeys -> Nat] /\ pins'[k] = Cardinality(HoldersOf(cache_pc', key', k))
      /\ \A j \in CacheKeys : j # k => pins'[j] = pins[j]
  <2>1. CASE cache_pc[c] \notin Cache!Pinning /\ p \in Cache!Pinning
    <3>1. HoldersOf(cache_pc', key', k) = HoldersOf(cache_pc, key, k) \cup {c} /\ c \notin HoldersOf(cache_pc, key, k)
      BY <1>1, <1>3, <2>1 DEF HoldersOf
    <3>2. Cardinality(HoldersOf(cache_pc', key', k)) = Cardinality(HoldersOf(cache_pc, key, k)) + 1
      BY <3>1, HoldersFinite, FS_AddElement
    <3>3. pins' = [pins EXCEPT ![k] = pins[k] + 1]
      BY <1>1, <2>1
    <3> QED
      BY <1>2, <1>5, <3>2, <3>3
  <2>2. CASE cache_pc[c] \in Cache!Pinning /\ p \notin Cache!Pinning
    <3>1. HoldersOf(cache_pc', key', k) = HoldersOf(cache_pc, key, k) \ {c} /\ c \in HoldersOf(cache_pc, key, k)
      BY <1>1, <1>3, <2>2 DEF HoldersOf
    <3>2. Cardinality(HoldersOf(cache_pc', key', k)) = Cardinality(HoldersOf(cache_pc, key, k)) - 1
      BY <3>1, HoldersFinite, FS_RemoveElement
    <3>3. Cardinality(HoldersOf(cache_pc', key', k)) \in Nat /\ Cardinality(HoldersOf(cache_pc, key, k)) \in Nat
      BY HoldersFinite
    <3>4. pins' = [pins EXCEPT ![k] = IF pins[k] > 0 THEN pins[k] - 1 ELSE 0]
      BY <1>1, <2>2 DEF Cache!Unpinned
    <3>5. pins[k] > 0
      BY <1>2, <1>5, <3>2, <3>3
    <3> QED
      BY <1>2, <1>5, <3>2, <3>3, <3>4, <3>5
  <2>3. CASE cache_pc[c] \in Cache!Pinning <=> p \in Cache!Pinning
    <3>1. HoldersOf(cache_pc', key', k) = HoldersOf(cache_pc, key, k)
      BY <1>3, <2>3 DEF HoldersOf
    <3> QED
      BY <1>2, <1>5, <2>3, <3>1
  <2> QED
    BY <2>1, <2>2, <2>3
<1>7. PinsCounted'
  BY <1>4, <1>5, <1>6 DEF PinsCounted
<1>8. lock' \in [CacheKeys -> Callers \cup {None}] /\ Cache!OneRefresh'
  <2>1. \A d \in Callers : cache_pc[d] \in Cache!Blocking => lock[key[d]] = d
    BY DEF CacheInv, Cache!OneRefresh
  <2>2. None \notin Callers
    BY DEF Cache!ConstantsOK
  <2>3. CASE lock' = lock /\ (p \in Cache!Blocking => cache_pc[c] \in Cache!Blocking)
    BY <1>2, <1>3, <2>1, <2>3 DEF Cache!OneRefresh
  <2>4. CASE lock[key[c]] = None /\ lock' = [lock EXCEPT ![key[c]] = c]
    <3>1. lock' \in [CacheKeys -> Callers \cup {None}] /\ lock'[k] = c /\ \A j \in CacheKeys : j # k => lock'[j] = lock[j]
      BY <1>1, <1>2, <2>4
    <3>2. \A d \in Callers : cache_pc[d] \in Cache!Blocking => key[d] # k
      BY <1>1, <2>1, <2>2, <2>4
    <3> QED
      BY <1>1, <1>2, <1>3, <2>1, <3>1, <3>2 DEF Cache!OneRefresh
  <2>5. CASE cache_pc[c] \in Cache!Blocking /\ p \notin Cache!Blocking /\ lock' = Cache!Unlocked(c)
    <3>1. lock' \in [CacheKeys -> Callers \cup {None}] /\ \A j \in CacheKeys : j # k => lock'[j] = lock[j]
      BY <1>1, <1>2, <2>5 DEF Cache!Unlocked
    <3>2. \A d \in Callers : d # c /\ cache_pc[d] \in Cache!Blocking => key[d] # k
      BY <1>1, <2>1, <2>5
    <3> QED
      BY <1>2, <1>3, <2>1, <2>5, <3>1, <3>2 DEF Cache!OneRefresh
  <2> QED
    BY <2>3, <2>4, <2>5
<1> QED
  BY <1>2, <1>3, <1>6, <1>7, <1>8 DEF CacheInv, CacheTyped

\* A new lease names its repository before it holds anything.
LEMMA EnsureKeeps ==
  ASSUME Cache!ConstantsOK, CacheInv, NEW c \in Callers, NEW k \in CacheKeys, Cache!Ensure(c, k)
  PROVE  CacheInv'
<1>1. /\ cache_pc[c] = "idle" /\ cache_pc' = [cache_pc EXCEPT ![c] = "lock"] /\ key' = [key EXCEPT ![c] = k]
      /\ lock' = lock /\ pins' = pins
  BY DEF Cache!Ensure, Cache!Go
<1>2. /\ cache_pc' \in [Callers -> Cache!Places] /\ key' \in [Callers -> CacheKeys] /\ cache_pc'[c] = "lock"
      /\ \A d \in Callers : d # c => cache_pc'[d] = cache_pc[d] /\ key'[d] = key[d]
  BY <1>1 DEF CacheInv, CacheTyped, Cache!Places
<1>3. \A j \in CacheKeys : HoldersOf(cache_pc', key', j) = HoldersOf(cache_pc, key, j)
  BY <1>1, <1>2 DEF HoldersOf, Cache!Pinning, Cache!Blocking
<1>4. PinsCounted'
  BY <1>1, <1>3 DEF CacheInv, PinsCounted
<1>5. Cache!OneRefresh'
  BY <1>1, <1>2 DEF CacheInv, Cache!OneRefresh, Cache!Blocking
<1> QED
  BY <1>1, <1>2, <1>4, <1>5 DEF CacheInv, CacheTyped

\* Every step of a refresh and of its caller is a move of the caller.
LEMMA WorkMoves ==
  ASSUME Cache!ConstantsOK, CacheInv, NEW c \in Callers, Cache!Acquire(c) \/ Cache!Work(c) \/ Cache!Abandon(c)
  PROVE  CacheInv'
<1>1. cache_pc \in [Callers -> Cache!Places] /\ lock \in [CacheKeys -> Callers \cup {None}]
  BY DEF CacheInv, CacheTyped
<1>2. CASE Cache!Acquire(c)
  <2>1. /\ cache_pc[c] = "lock" /\ lock[key[c]] = None /\ lock' = [lock EXCEPT ![key[c]] = c]
        /\ pins' = [pins EXCEPT ![key[c]] = @ + 1] /\ key' = key /\ cache_pc' = [cache_pc EXCEPT ![c] = "start"]
    BY <1>2 DEF Cache!Acquire, Cache!Go
  <2>2. "start" \in Cache!Places /\ "start" \in Cache!Pinning /\ "lock" \notin Cache!Pinning
    BY DEF Cache!Places, Cache!Pinning, Cache!Blocking
  <2> QED
    BY <2>1, <2>2, CallerMoves
<1>3. ASSUME NEW p \in Cache!Blocking, cache_pc[c] \in Cache!Blocking, cache_pc' = [cache_pc EXCEPT ![c] = p], lock' = lock,
             pins' = pins, key' = key
      PROVE  CacheInv'
  <2>1. p \in Cache!Places /\ p \in Cache!Pinning /\ cache_pc[c] \in Cache!Pinning
    BY <1>3 DEF Cache!Places, Cache!Pinning, Cache!Blocking
  <2> QED
    BY <1>3, <2>1, CallerMoves
<1>4. CASE Cache!Start(c) \/ Cache!Fetch(c) \/ Cache!Rebuild(c) \/ Cache!Scan(c) \/ Cache!Evict(c) \/ Cache!Unlog(c) \/ Cache!Clone(c) \/ Cache!Cloned(c)
  <2>1. /\ cache_pc[c] \in Cache!Blocking /\ lock' = lock /\ pins' = pins /\ key' = key
        /\ \E p \in Cache!Blocking : cache_pc' = [cache_pc EXCEPT ![c] = p]
    <3>1. cache_pc[c] \in Cache!Blocking /\ lock' = lock /\ pins' = pins /\ key' = key
      BY <1>4 DEF Cache!Start, Cache!Fetch, Cache!Rebuild, Cache!Scan, Cache!Evict, Cache!Unlog,
           Cache!Clone, Cache!Cloned, Cache!Blocking
    <3>2. CASE Cache!Start(c) \/ Cache!Fetch(c) \/ Cache!Rebuild(c) \/ Cache!Scan(c)
      BY <3>2 DEF Cache!Start, Cache!Fetch, Cache!Rebuild, Cache!Scan, Cache!Go, Cache!Blocking
    <3>3. CASE Cache!Unlog(c) \/ Cache!Clone(c) \/ Cache!Cloned(c)
      BY <3>3 DEF Cache!Unlog, Cache!Clone, Cache!Cloned, Cache!Go, Cache!Blocking
    <3>4. CASE Cache!Evict(c)
      <4>1. cache_pc[c] = "evict"
            /\ \/ cache_pc' = [cache_pc EXCEPT ![c] = "clone"] \/ cache_pc' = [cache_pc EXCEPT ![c] = "unlog"] \/ cache_pc' = cache_pc
               \/ cache_pc' = [cache_pc EXCEPT ![c] = "failed"]
        BY <3>4 DEF Cache!Evict, Cache!Go
      <4>2. cache_pc = [cache_pc EXCEPT ![c] = "evict"]
        BY <1>1, <4>1
      <4> QED
        BY <4>1, <4>2, <3>1 DEF Cache!Blocking
    <3> QED
      BY <1>4, <3>1, <3>2, <3>3, <3>4
  <2> QED
    BY <1>3, <2>1
<1>5. CASE Cache!Done(c)
  <2>1. /\ cache_pc[c] \in {"log", "failed"} /\ lock' = Cache!Unlocked(c) /\ key' = key
        /\ \/ cache_pc' = [cache_pc EXCEPT ![c] = "idle"] /\ pins' = Cache!Unpinned(key[c])
           \/ cache_pc' = [cache_pc EXCEPT ![c] = "checkout"] /\ pins' = pins
    BY <1>5 DEF Cache!Done, Cache!Go
  <2>2. /\ {"idle", "checkout"} \subseteq Cache!Places \ Cache!Blocking /\ "checkout" \in Cache!Pinning
        /\ "idle" \notin Cache!Pinning /\ cache_pc[c] \in Cache!Blocking /\ cache_pc[c] \in Cache!Pinning
    BY <2>1 DEF Cache!Places, Cache!Pinning, Cache!Blocking
  <2> QED
    BY <2>1, <2>2, CallerMoves
<1>6. CASE Cache!Abandon(c)
  <2>1. CASE cache_pc[c] = "lock" /\ cache_pc' = [cache_pc EXCEPT ![c] = "idle"]
    <3>1. lock' = lock /\ pins' = pins /\ key' = key
      BY <1>6 DEF Cache!Abandon
    <3>2. "idle" \in Cache!Places /\ "idle" \notin Cache!Pinning /\ "lock" \notin Cache!Pinning /\ "idle" \notin Cache!Blocking
      BY DEF Cache!Places, Cache!Pinning, Cache!Blocking
    <3> QED
      BY <2>1, <3>1, <3>2, CallerMoves
  <2>2. CASE cache_pc[c] \in Cache!Blocking /\ cache_pc' = cache_pc
    <3>1. lock' = lock /\ pins' = pins /\ key' = key /\ cache_pc' = [cache_pc EXCEPT ![c] = cache_pc[c]]
      BY <1>1, <1>6, <2>2 DEF Cache!Abandon
    <3> QED
      BY <1>3, <2>2, <3>1
  <2> QED
    BY <1>6, <2>1, <2>2 DEF Cache!Abandon, Cache!Go
<1>7. CASE Cache!Checkout(c) \/ Cache!Finish(c)
  <2>1. /\ cache_pc[c] \in {"checkout", "using"} /\ lock' = lock /\ key' = key
        /\ \/ cache_pc' = [cache_pc EXCEPT ![c] = "using"] /\ pins' = pins
           \/ cache_pc' = [cache_pc EXCEPT ![c] = "idle"] /\ pins' = Cache!Unpinned(key[c])
           \/ cache_pc' = [cache_pc EXCEPT ![c] = "lock"] /\ pins' = Cache!Unpinned(key[c])
    BY <1>7 DEF Cache!Checkout, Cache!Finish, Cache!Go
  <2>2. /\ {"idle", "lock", "using"} \subseteq Cache!Places \ Cache!Blocking /\ {"idle", "lock"} \cap Cache!Pinning = {}
        /\ "using" \in Cache!Pinning /\ cache_pc[c] \in Cache!Pinning
    BY <2>1 DEF Cache!Places, Cache!Pinning, Cache!Blocking
  <2> QED
    BY <2>1, <2>2, CallerMoves
<1> QED
  BY <1>2, <1>4, <1>5, <1>6, <1>7 DEF Cache!Work

\* A process that starts again has neither locks nor pins, and nobody uses the cache.
LEMMA RestartKeeps ==
  ASSUME Cache!ConstantsOK, CacheInv, Cache!Restart
  PROVE  CacheInv'
<1>1. /\ lock' = [k \in CacheKeys |-> None] /\ pins' = [k \in CacheKeys |-> 0]
      /\ cache_pc' = [c \in Callers |-> "idle"] /\ key' = key
  BY DEF Cache!Restart
<1>2. \A k \in CacheKeys : HoldersOf(cache_pc', key', k) = {}
  BY <1>1 DEF HoldersOf, Cache!Pinning, Cache!Blocking
<1>3. Cardinality({}) = 0
  BY FS_EmptySet
<1>4. CacheTyped' /\ Cache!OneRefresh'
  BY <1>1 DEF CacheInv, CacheTyped, Cache!OneRefresh, Cache!Places, Cache!Blocking
<1>5. PinsCounted'
  BY <1>1, <1>2, <1>3 DEF PinsCounted
<1> QED
  BY <1>4, <1>5 DEF CacheInv

\* A sequence without one of its members has its other members once each.
LEMMA Removed ==
  ASSUME NEW S, NEW s \in Seq(S), Cache!IsInjective(s), NEW e
  PROVE  /\ Cache!RemoveFirst(s, e) \in Seq(S) /\ Cache!IsInjective(Cache!RemoveFirst(s, e))
         /\ \A i \in DOMAIN Cache!RemoveFirst(s, e) : Cache!RemoveFirst(s, e)[i] # e
<1>1. CASE ~\E i \in 1..Len(s) : s[i] = e
  <2>1. Cache!RemoveFirst(s, e) = s
    BY <1>1 DEF Cache!RemoveFirst
  <2> QED
    BY <1>1, <2>1
<1>2. CASE \E i \in 1..Len(s) : s[i] = e
  <2>1. PICK I : I = {i \in 1..Len(s) : s[i] = e}
    OBVIOUS
  <2>2. PICK i \in 1..Len(s) : s[i] = e
    BY <1>2
  <2>3. I = {i} /\ I # {}
    BY <2>1, <2>2 DEF Cache!IsInjective
  <2>4. Cache!Min(I) = i
    BY <2>2, <2>3 DEF Cache!Min
  <2>5. Cache!SelectInSeq(s, LAMBDA v : v = e) = i
    BY <2>1, <2>3, <2>4 DEF Cache!SelectInSeq
  <2>6. Cache!RemoveFirst(s, e) = SubSeq(s, 1, i - 1) \o SubSeq(s, i + 1, Len(s))
    BY <1>2, <2>5 DEF Cache!RemoveFirst, Cache!RemoveAt
  <2>7. PICK t : t = SubSeq(s, 1, i - 1) \o SubSeq(s, i + 1, Len(s))
    OBVIOUS
  <2>8. /\ t \in Seq(S) /\ DOMAIN t = 1..(Len(s) - 1)
        /\ \A j \in DOMAIN t : t[j] = IF j < i THEN s[j] ELSE s[j + 1]
    <3>1. PICK a, b : a = SubSeq(s, 1, i - 1) /\ b = SubSeq(s, i + 1, Len(s))
      OBVIOUS
    <3>2. a \in Seq(S) /\ Len(a) = i - 1 /\ \A j \in 1..(i - 1) : a[j] = s[j]
      BY <2>2, <3>1, SubSeqProperties
    <3>3. b \in Seq(S) /\ Len(b) = Len(s) - i /\ \A j \in 1..(Len(s) - i) : b[j] = s[i + j]
      BY <2>2, <3>1, SubSeqProperties
    <3>4. t = a \o b
      BY <2>7, <3>1
    <3>5. t \in Seq(S) /\ Len(t) = Len(s) - 1
      <4>1. a \o b \in Seq(S) /\ Len(a \o b) = Len(a) + Len(b)
        BY <3>2, <3>3, ConcatProperties
      <4> QED
        BY <2>2, <3>2, <3>3, <3>4, <4>1
    <3>6. \A j \in 1..(Len(s) - 1) : t[j] = IF j < i THEN s[j] ELSE s[j + 1]
      <4> SUFFICES ASSUME NEW j \in 1..(Len(s) - 1)
                   PROVE  t[j] = IF j < i THEN s[j] ELSE s[j + 1]
        OBVIOUS
      <4>1. t[j] = IF j <= Len(a) THEN a[j] ELSE b[j - Len(a)]
        BY <2>2, <3>2, <3>3, <3>4, ConcatProperties
      <4>2. CASE j < i
        BY <2>2, <3>2, <4>1, <4>2
      <4>3. CASE ~(j < i)
        <5>1. j - Len(a) \in 1..(Len(s) - i) /\ i + (j - Len(a)) = j + 1
          BY <2>2, <3>2, <4>3
        <5> QED
          BY <2>2, <3>2, <3>3, <4>1, <4>3, <5>1
      <4> QED
        BY <4>2, <4>3
    <3> QED
      BY <3>5, <3>6
  <2>9. \A j \in DOMAIN t : \E m \in 1..Len(s) :
           t[j] = s[m] /\ m # i /\ m = (IF j < i THEN j ELSE j + 1)
    BY <2>2, <2>8
  <2>10. \A j \in DOMAIN t : t[j] # e
    BY <2>2, <2>9 DEF Cache!IsInjective
  <2>11. Cache!IsInjective(t)
    <3> SUFFICES ASSUME NEW a \in DOMAIN t, NEW b \in DOMAIN t, t[a] = t[b]
                 PROVE  a = b
      BY DEF Cache!IsInjective
    <3>1. PICK m \in 1..Len(s) : t[a] = s[m] /\ m = (IF a < i THEN a ELSE a + 1)
      BY <2>9
    <3>2. PICK n \in 1..Len(s) : t[b] = s[n] /\ n = (IF b < i THEN b ELSE b + 1)
      BY <2>9
    <3>3. m = n
      <4>1. DOMAIN s = 1..Len(s)
        OBVIOUS
      <4>2. s[m] = s[n]
        BY <3>1, <3>2, Zenon
      <4> QED
        BY <4>1, <4>2 DEF Cache!IsInjective
    <3> QED
      BY <2>2, <2>8, <3>1, <3>2, <3>3
  <2> QED
    BY <2>6, <2>7, <2>8, <2>10, <2>11
<1> QED
  BY <1>1, <1>2

\* A key added to a log that does not have it is logged once.
LEMMA Added ==
  ASSUME NEW S, NEW s \in Seq(S), Cache!IsInjective(s), NEW e \in S, \A i \in DOMAIN s : s[i] # e
  PROVE  Append(s, e) \in Seq(S) /\ Cache!IsInjective(Append(s, e))
<1>1. /\ Append(s, e) \in Seq(S) /\ DOMAIN Append(s, e) = 1..(Len(s) + 1) /\ DOMAIN s = 1..Len(s)
      /\ Append(s, e)[Len(s) + 1] = e /\ \A i \in 1..Len(s) : Append(s, e)[i] = s[i]
  OBVIOUS
<1> QED
  BY <1>1 DEF Cache!IsInjective

\* The orders of a finite set are sequences of its members, each of them once.
LEMMA Orders ==
  ASSUME NEW S, NEW T \in SUBSET S, IsFiniteSet(T), NEW s \in Cache!SetToSeqs(T)
  PROVE  s \in Seq(S) /\ Cache!IsInjective(s)
<1>1. PICK n : n = Cardinality(T)
  OBVIOUS
<1>2. n \in Nat
  BY <1>1, FS_CardinalityType
<1>3. s \in [1..n -> T] /\ \A i, j \in 1..n : i # j => s[i] # s[j]
  BY SameCacheCount, <1>1 DEF Cache!SetToSeqs
<1>4. s \in Seq(T)
  BY <1>2, <1>3
<1>5. s \in Seq(S)
  BY <1>2, <1>3
<1> QED
  BY <1>3, <1>5 DEF Cache!IsInjective

\* The clones, the log and what an eviction pass has in hand have their types; a pass that
\* forgets a clone has it in hand.
LogInv ==
  /\ disk \in [CacheKeys -> {"absent", "damaged", "whole"}]
  /\ order \in Seq(CacheKeys) /\ Cache!IsInjective(order)
  /\ force \in [Callers -> BOOLEAN] /\ gone \in [Callers -> BOOLEAN]
  /\ cand \in [Callers -> Seq(CacheKeys)] /\ need \in [Callers -> 0..Cardinality(CacheKeys)]
  /\ \A c \in Callers : cache_pc[c] = "unlog" => cand[c] # <<>>

\* Together with the pins it is what CacheSound says.
LEMMA CacheSoundImplied == Cache!ConstantsOK /\ CacheInv /\ LogInv => Cache!CacheSound
<1> SUFFICES ASSUME Cache!ConstantsOK, CacheInv, LogInv
             PROVE  Cache!CacheSound
  OBVIOUS
<1>1. \A k \in CacheKeys : pins[k] \in 0..Cardinality(Callers)
  <2> SUFFICES ASSUME NEW k \in CacheKeys
               PROVE  pins[k] \in 0..Cardinality(Callers)
    OBVIOUS
  <2>1. pins[k] = Cardinality(HoldersOf(cache_pc, key, k)) /\ pins[k] \in Nat
    BY DEF CacheInv, CacheTyped, PinsCounted
  <2>2. HoldersOf(cache_pc, key, k) \subseteq Callers /\ IsFiniteSet(Callers)
    BY SameCacheCount DEF HoldersOf, Cache!ConstantsOK
  <2>3. Cardinality(HoldersOf(cache_pc, key, k)) <= Cardinality(Callers) /\ Cardinality(Callers) \in Nat
    BY <2>2, FS_Subset, FS_CardinalityType
  <2> QED
    BY <2>1, <2>3
<1>2. pins \in [CacheKeys -> 0..Cardinality(Callers)]
  BY <1>1 DEF CacheInv, CacheTyped
<1>3. Cache!TypeOK
  BY SameCacheCount, <1>2 DEF CacheInv, CacheTyped, LogInv, Cache!TypeOK
<1> QED
  BY <1>3, CacheImplied DEF Cache!CacheSound

\* It holds in an empty cache.
LEMMA LogInitial == Cache!ConstantsOK /\ Cache!Init => LogInv
<1> SUFFICES ASSUME Cache!ConstantsOK, Cache!Init
             PROVE  LogInv
  OBVIOUS
<1>1. Cardinality(CacheKeys) \in Nat
  BY SameCacheCount, FS_CardinalityType DEF Cache!ConstantsOK
<1>2. <<>> \in Seq(CacheKeys) /\ Cache!IsInjective(<<>>)
  BY DEF Cache!IsInjective
<1> QED
  BY <1>1, <1>2 DEF Cache!Init, LogInv

\* What a caller's step leaves of the log and of the passes.
LEMMA LogMoves ==
  ASSUME CacheInv, LogInv, NEW c \in Callers, NEW p \in Cache!Places, p # "unlog",
         cache_pc' = [cache_pc EXCEPT ![c] = p], order' = order, cand' = cand, need' = need,
         disk' \in [CacheKeys -> {"absent", "damaged", "whole"}],
         force' \in [Callers -> BOOLEAN], gone' \in [Callers -> BOOLEAN]
  PROVE  LogInv'
BY DEF CacheInv, CacheTyped, LogInv

\* The steps that neither log nor evict.
LEMMA PlainKeepsLog ==
  ASSUME CacheInv, LogInv, NEW c \in Callers,
         \/ \E k \in CacheKeys : Cache!Ensure(c, k)
         \/ Cache!Acquire(c) \/ Cache!Start(c) \/ Cache!Fetch(c) \/ Cache!Rebuild(c) \/ Cache!Clone(c) \/ Cache!Cloned(c)
         \/ Cache!Checkout(c) \/ Cache!Finish(c)
  PROVE  LogInv'
<1>1. /\ disk \in [CacheKeys -> {"absent", "damaged", "whole"}] /\ force \in [Callers -> BOOLEAN]
      /\ gone \in [Callers -> BOOLEAN] /\ key \in [Callers -> CacheKeys]
  BY DEF LogInv, CacheInv, CacheTyped
<1>2. order' = order /\ cand' = cand /\ need' = need /\ gone' = gone
  BY DEF Cache!Ensure, Cache!Acquire, Cache!Start, Cache!Fetch, Cache!Rebuild, Cache!Clone,
       Cache!Cloned, Cache!Checkout, Cache!Finish, Cache!task
<1>3. force' \in [Callers -> BOOLEAN]
  BY <1>1 DEF Cache!Ensure, Cache!Acquire, Cache!Start, Cache!Fetch, Cache!Rebuild, Cache!Clone,
       Cache!Cloned, Cache!Checkout, Cache!Finish
<1>4. disk' \in [CacheKeys -> {"absent", "damaged", "whole"}]
  BY <1>1 DEF Cache!Ensure, Cache!Acquire, Cache!Start, Cache!Fetch, Cache!Rebuild, Cache!Clone,
       Cache!Cloned, Cache!Checkout, Cache!Finish, Cache!SetDisk, Cache!HalfRemoved
<1>5. \E p \in Cache!Places \ {"unlog"} : cache_pc' = [cache_pc EXCEPT ![c] = p]
  BY DEF Cache!Ensure, Cache!Acquire, Cache!Start, Cache!Fetch, Cache!Rebuild, Cache!Clone,
       Cache!Cloned, Cache!Checkout, Cache!Finish, Cache!Go, Cache!Places
<1> QED
  BY <1>1, <1>2, <1>3, <1>4, <1>5, LogMoves

\* A pass collects logged clones, each once, and no more than there are.
LEMMA ScanKeepsLog ==
  ASSUME Cache!ConstantsOK, CacheInv, LogInv, NEW c \in Callers, Cache!Scan(c)
  PROVE  LogInv'
<1>1. cache_pc[c] = "scan" /\ order' = order /\ disk' = disk /\ force' = force /\ gone' = gone
  BY DEF Cache!Scan
<1>2. CASE Cardinality(Cache!Present) <= MaxCached
  <2>1. cache_pc' = [cache_pc EXCEPT ![c] = "clone"] /\ cand' = cand /\ need' = need /\ "clone" \in Cache!Places
    BY SameCacheCount, <1>2 DEF Cache!Scan, Cache!Go, Cache!task, Cache!Places
  <2> QED
    BY <1>1, <2>1, LogMoves DEF LogInv
<1>3. CASE Cache!Go(c, "failed") /\ UNCHANGED Cache!task
  <2>1. cache_pc' = [cache_pc EXCEPT ![c] = "failed"] /\ cand' = cand /\ need' = need /\ "failed" \in Cache!Places
    BY <1>3 DEF Cache!Go, Cache!task, Cache!Places
  <2> QED
    BY <1>1, <2>1, LogMoves DEF LogInv
<1>4. CASE /\ ~(Cardinality(Cache!Present) <= MaxCached) /\ Cache!Go(c, "evict")
           /\ \E found \in Cache!Candidates : cand' = [cand EXCEPT ![c] = found]
           /\ need' = [need EXCEPT ![c] = Cardinality(Cache!Present) - MaxCached]
  <2>1. PICK found \in Cache!Candidates : cand' = [cand EXCEPT ![c] = found]
    BY <1>4
  <2>2. /\ cache_pc' = [cache_pc EXCEPT ![c] = "evict"] /\ cache_pc \in [Callers -> Cache!Places]
        /\ need' = [need EXCEPT ![c] = Cardinality(Cache!Present) - MaxCached]
    BY <1>4 DEF Cache!Go, CacheInv, CacheTyped
  <2>3. PICK T : T = {k \in Cache!Range(order) : pins[k] = 0 /\ k \in Cache!Present}
    OBVIOUS
  <2>4. found \in Cache!SetToSeqs(T)
    BY <2>1, <2>3 DEF Cache!Candidates
  <2>5. T \in SUBSET CacheKeys /\ IsFiniteSet(T)
    BY SameCacheCount, <2>3, FS_Subset DEF Cache!Present, Cache!ConstantsOK
  <2>6. found \in Seq(CacheKeys)
    BY <2>4, <2>5, Orders
  <2>7. Cache!Present \subseteq CacheKeys /\ IsFiniteSet(CacheKeys) /\ MaxCached \in Nat
    BY SameCacheCount DEF Cache!Present, Cache!ConstantsOK
  <2>8. /\ Cardinality(Cache!Present) \in Nat /\ Cardinality(CacheKeys) \in Nat
        /\ Cardinality(Cache!Present) <= Cardinality(CacheKeys)
    BY <2>7, FS_Subset, FS_CardinalityType
  <2>9. Cardinality(Cache!Present) - MaxCached \in 0..Cardinality(CacheKeys)
    BY <1>4, <2>7, <2>8
  <2>10. cand' \in [Callers -> Seq(CacheKeys)] /\ need' \in [Callers -> 0..Cardinality(CacheKeys)]
    BY <2>1, <2>2, <2>6, <2>9 DEF LogInv
  <2>11. \A d \in Callers : cache_pc'[d] = "unlog" => cand'[d] # <<>>
    BY <2>1, <2>2 DEF LogInv
  <2> QED
    BY <1>1, <2>10, <2>11 DEF LogInv
<1> QED
  BY SameCacheCount, <1>2, <1>3, <1>4 DEF Cache!Scan

\* A pass removes a clone and then forgets it, or passes it over.
LEMMA EvictKeepsLog ==
  ASSUME Cache!ConstantsOK, CacheInv, LogInv, NEW c \in Callers, Cache!Evict(c) \/ Cache!Unlog(c)
  PROVE  LogInv'
<1>1. /\ disk \in [CacheKeys -> {"absent", "damaged", "whole"}] /\ cache_pc \in [Callers -> Cache!Places]
      /\ cand \in [Callers -> Seq(CacheKeys)] /\ need \in [Callers -> 0..Cardinality(CacheKeys)]
      /\ order \in Seq(CacheKeys) /\ Cache!IsInjective(order)
      /\ \A d \in Callers : cache_pc[d] = "unlog" => cand[d] # <<>>
  BY DEF CacheInv, CacheTyped, LogInv
<1>2. force' = force /\ gone' = gone /\ Cardinality(CacheKeys) \in Nat
  BY SameCacheCount, FS_CardinalityType DEF Cache!Evict, Cache!Unlog, Cache!ConstantsOK
<1>3. CASE Cache!Unlog(c)
  <2>1. /\ cache_pc[c] = "unlog" /\ cache_pc' = [cache_pc EXCEPT ![c] = "evict"]
        /\ order' = Cache!RemoveFirst(order, Head(cand[c])) /\ cand' = [cand EXCEPT ![c] = Tail(cand[c])]
        /\ disk' = disk /\ need' = need
    BY <1>3 DEF Cache!Unlog, Cache!Go
  <2>2. order' \in Seq(CacheKeys) /\ Cache!IsInjective(order')
    BY <1>1, <2>1, Removed
  <2>3. cand' \in [Callers -> Seq(CacheKeys)]
    BY <1>1, <2>1
  <2>4. \A d \in Callers : cache_pc'[d] = "unlog" => cand'[d] # <<>>
    BY <1>1, <2>1
  <2> QED
    BY <1>2, <2>1, <2>2, <2>3, <2>4 DEF LogInv
<1>4. CASE Cache!Evict(c) /\ (need[c] = 0 \/ cand[c] = <<>>)
  <2>1. /\ cache_pc' = [cache_pc EXCEPT ![c] = "clone"] /\ disk' = disk /\ order' = order
        /\ cand' = [cand EXCEPT ![c] = <<>>] /\ need' = [need EXCEPT ![c] = 0]
    BY <1>4 DEF Cache!Evict, Cache!Go, Cache!Dropped
  <2> QED
    BY <1>1, <1>2, <2>1 DEF LogInv
<1>5. CASE Cache!Evict(c) /\ ~(need[c] = 0 \/ cand[c] = <<>>)
  <2>1. cache_pc[c] = "evict" /\ order' = order /\ need[c] # 0 /\ cand[c] # <<>>
    BY <1>5 DEF Cache!Evict
  <2>2. CASE /\ Cache!HalfRemoved(Head(cand[c])) \/ UNCHANGED disk
             /\ cand' = [cand EXCEPT ![c] = Tail(cand[c])] /\ cache_pc' = cache_pc /\ need' = need
    <3>1. cand' \in [Callers -> Seq(CacheKeys)] /\ \A d \in Callers : d # c => cand'[d] = cand[d]
      BY <1>1, <2>1, <2>2
    <3>2. disk' \in [CacheKeys -> {"absent", "damaged", "whole"}]
      BY <1>1, <2>2 DEF Cache!HalfRemoved, Cache!SetDisk
    <3> QED
      BY <1>1, <1>2, <2>1, <2>2, <3>1, <3>2 DEF LogInv
  <2>3. CASE Cache!Go(c, "failed") /\ UNCHANGED disk /\ Cache!Dropped(c)
    <3>1. /\ cache_pc' = [cache_pc EXCEPT ![c] = "failed"] /\ disk' = disk
          /\ cand' = [cand EXCEPT ![c] = <<>>] /\ need' = [need EXCEPT ![c] = 0]
      BY <2>3 DEF Cache!Go, Cache!Dropped
    <3> QED
      BY <1>1, <1>2, <2>1, <3>1 DEF LogInv
  <2>4. CASE /\ Head(cand[c]) \in Cache!Present /\ Cache!SetDisk(Head(cand[c]), "absent") /\ Cache!Go(c, "unlog")
             /\ need' = [need EXCEPT ![c] = @ - 1] /\ cand' = cand
    <3>1. disk' \in [CacheKeys -> {"absent", "damaged", "whole"}]
      BY <1>1, <2>4 DEF Cache!SetDisk
    <3>2. need' \in [Callers -> 0..Cardinality(CacheKeys)]
      BY <1>1, <1>2, <2>1, <2>4
    <3>3. \A d \in Callers : cache_pc'[d] = "unlog" => cand'[d] # <<>>
      BY <1>1, <2>1, <2>4 DEF Cache!Go
    <3> QED
      BY <1>1, <1>2, <2>1, <2>4, <3>1, <3>2, <3>3 DEF LogInv
  <2> QED
    BY <1>5, <2>2, <2>3, <2>4 DEF Cache!Evict
<1> QED
  BY <1>3, <1>4, <1>5

\* A refresh that ends logs its repository as the latest.
LEMMA DoneKeepsLog ==
  ASSUME CacheInv, LogInv, NEW c \in Callers, Cache!Done(c)
  PROVE  LogInv'
<1>1. /\ order \in Seq(CacheKeys) /\ Cache!IsInjective(order) /\ key[c] \in CacheKeys /\ cache_pc \in [Callers -> Cache!Places]
      /\ gone \in [Callers -> BOOLEAN]
  BY DEF CacheInv, CacheTyped, LogInv
<1>2. Cache!Logged(c) \in Seq(CacheKeys) /\ Cache!IsInjective(Cache!Logged(c))
  BY <1>1, Removed, Added DEF Cache!Logged
<1>3. order' \in Seq(CacheKeys) /\ Cache!IsInjective(order')
  BY <1>1, <1>2 DEF Cache!Done
<1>4. disk' = disk /\ force' = force /\ cand' = cand /\ need' = need /\ gone' \in [Callers -> BOOLEAN]
  BY <1>1 DEF Cache!Done, Cache!task
<1>5. cache_pc' = [cache_pc EXCEPT ![c] = "idle"] \/ cache_pc' = [cache_pc EXCEPT ![c] = "checkout"]
  BY DEF Cache!Done, Cache!Go
<1> QED
  BY <1>1, <1>3, <1>4, <1>5 DEF LogInv

\* A caller gives up, and the log is made anew when the process starts again.
LEMMA LostKeepsLog ==
  ASSUME Cache!ConstantsOK, CacheInv, LogInv, Cache!Restart \/ \E c \in Callers : Cache!Abandon(c)
  PROVE  LogInv'
<1>1. CASE Cache!Restart
  <2>1. order' \in Cache!SetToSeqs(Cache!Present) /\ Cache!Present \in SUBSET CacheKeys /\ IsFiniteSet(Cache!Present)
    BY SameCacheCount, <1>1, FS_Subset DEF Cache!Restart, Cache!Present, Cache!ConstantsOK
  <2>2. order' \in Seq(CacheKeys) /\ Cache!IsInjective(order')
    BY <2>1, Orders
  <2>3. Cardinality(CacheKeys) \in Nat
    BY SameCacheCount, FS_CardinalityType DEF Cache!ConstantsOK
  <2> QED
    BY <1>1, <2>2, <2>3 DEF Cache!Restart, LogInv
<1>2. ASSUME NEW c \in Callers, Cache!Abandon(c)
      PROVE  LogInv'
  <2>1. /\ cache_pc \in [Callers -> Cache!Places] /\ disk' = disk /\ order' = order /\ force' = force
        /\ cand' = cand /\ need' = need
    BY <1>2 DEF CacheInv, CacheTyped, Cache!Abandon, Cache!task
  <2>2. gone' \in [Callers -> BOOLEAN] /\ (cache_pc' = cache_pc \/ cache_pc' = [cache_pc EXCEPT ![c] = "idle"])
    BY <1>2 DEF Cache!Abandon, Cache!Go, LogInv
  <2> QED
    BY <2>1, <2>2 DEF LogInv
<1> QED
  BY <1>1, <1>2

\* For any number of leases and repositories, through retries, failures, evictions, abandoned
\* refreshes and restarts: one refresh at a time works on a repository, its refcount is the
\* number of guards alive, and a repository is logged once (repo_cache.rs, RepoCache::refresh,
\* evict_if_needed and PinGuard).
THEOREM PinsAreExact == Cache!ConstantsOK => (Cache!Spec => []Cache!CacheSound)
<1> SUFFICES ASSUME Cache!ConstantsOK
             PROVE  Cache!Spec => []Cache!CacheSound
  OBVIOUS
<1>1. CacheInv /\ LogInv /\ [Cache!Next]_(Cache!vars) => CacheInv' /\ LogInv'
  <2> SUFFICES ASSUME CacheInv, LogInv, [Cache!Next]_(Cache!vars)
               PROVE  CacheInv' /\ LogInv'
    OBVIOUS
  <2>1. CASE UNCHANGED Cache!vars
    <3>1. lock' = lock /\ pins' = pins /\ cache_pc' = cache_pc /\ key' = key
      BY <2>1 DEF Cache!vars
    <3>2. /\ disk' = disk /\ order' = order /\ force' = force /\ gone' = gone /\ cand' = cand
          /\ need' = need
      BY <2>1 DEF Cache!vars, Cache!task
    <3> QED
      BY <3>1, <3>2 DEF CacheInv, CacheTyped, Cache!OneRefresh, PinsCounted, LogInv
  <2>2. CASE Cache!Next
    BY <2>2, EnsureKeeps, WorkMoves, RestartKeeps, PlainKeepsLog, ScanKeepsLog, EvictKeepsLog,
       DoneKeepsLog, LostKeepsLog DEF Cache!Next, Cache!Work
  <2> QED
    BY <2>1, <2>2
<1>2. Cache!Init => CacheInv /\ LogInv
  BY CacheInitial, LogInitial
<1>3. CacheInv /\ LogInv => Cache!CacheSound
  BY CacheSoundImplied
<1> QED
  BY <1>1, <1>2, <1>3, PTL DEF Cache!Spec

(***************************************************************************)
(* The sessions of a scan                                                   *)
(***************************************************************************)
\* The instance counts as this module does.
LEMMA SameScanCount ==
  ASSUME NEW S
  PROVE  /\ Fanout!IsFiniteSet(S) <=> IsFiniteSet(S)
         /\ Fanout!Cardinality(S) = Cardinality(S)
BY DEF Fanout!IsFiniteSet, IsFiniteSet, Fanout!Cardinality, Cardinality

Tasks == {"none", "spawned", "running", "complete", "failed", "skipped"}

\* The tasks that hold a permit, where the tasks are.
Holding(tasks) == {f \in ScannedFiles : tasks[f] \in {"spawned", "running"}}

\* Before the fan-out there is no task; from there on every file was discovered.
ScanPlaces ==
  /\ scan_pc \in {"configure", "discover"} => scan_files = {}
  /\ scan_files = {} => \A f \in ScannedFiles : session[f] = "none"
  /\ scan_pc \in {"fan", "join"} => scan_files = ScannedFiles /\ ScannedFiles # {}
  /\ scan_pc = "join" /\ ~ scan_cancelled => \A f \in ScannedFiles : session[f] # "none"

\* The permits are those of the worker's bound or of the lease's.
ScanPermits ==
  /\ patch \in {{}} \cup {{n} : n \in PatchedAtOnce}
  /\ scan_pc = "configure" => limit = FilesAtOnce
  /\ scan_pc # "configure" => limit \in IF patch = {} THEN {FilesAtOnce} ELSE patch
  /\ scan_files # {} => Cardinality(Holding(session)) <= limit

\* What was awaited is over, and only a file without a name is skipped.
ScanTasks ==
  /\ \A f \in joined : Fanout!Ended(f)
  /\ \A f \in ScannedFiles : session[f] = "skipped" => f \in NativeFiles
  /\ scan_pc = "configure" => joined = {}

\* The answer.
ScanAnswer == Fanout!NoneLeftRunning /\ Fanout!EveryFileReviewed /\ Fanout!BrokenScanFails /\ Fanout!HealthySessionCounts

ScanInv == Fanout!TypeOK /\ ScanPlaces /\ ScanPermits /\ ScanTasks /\ ScanAnswer

\* A running task's file was discovered.
LEMMA HoldersRun == Fanout!TypeOK => Fanout!Running = Holding(session) /\ scan_files \subseteq ScannedFiles
BY DEF Fanout!TypeOK, Fanout!Running, Holding

\* Holders of permits are finitely many.
LEMMA HoldersCounted ==
  ASSUME Fanout!ConstantsOK, NEW tasks
  PROVE  IsFiniteSet(Holding(tasks)) /\ Cardinality(Holding(tasks)) \in Nat
BY SameScanCount, FS_Subset, FS_CardinalityType DEF Holding, Fanout!ConstantsOK

\* The inductive invariant implies what the run checks.
LEMMA ScanImplied == Fanout!ConstantsOK /\ ScanInv => Fanout!FanoutSound
<1> SUFFICES ASSUME Fanout!ConstantsOK, ScanInv
             PROVE  Fanout!FanoutSound
  OBVIOUS
<1>1. Fanout!SessionsBounded
  <2>1. Fanout!Running = Holding(session)
    BY HoldersRun DEF ScanInv
  <2>2. CASE scan_files = {}
    <3>1. Fanout!Running = {}
      BY <2>2 DEF Fanout!Running
    <3>2. Cardinality(Fanout!Running) = 0
      BY <3>1, FS_EmptySet
    <3>3. \A n \in IF patch = {} THEN {FilesAtOnce} ELSE patch : n \in Nat
      BY DEF ScanInv, ScanPermits, Fanout!ConstantsOK
    <3> QED
      BY SameScanCount, <3>2, <3>3 DEF Fanout!SessionsBounded
  <2>3. CASE scan_files # {}
    <3>1. scan_pc # "configure" /\ Cardinality(Fanout!Running) <= limit
      BY <2>1, <2>3 DEF ScanInv, ScanPlaces, ScanPermits
    <3>2. \A n \in IF patch = {} THEN {FilesAtOnce} ELSE patch : n = limit
      BY <3>1 DEF ScanInv, ScanPermits
    <3> QED
      BY SameScanCount, <3>1, <3>2 DEF Fanout!SessionsBounded
  <2> QED
    BY <2>2, <2>3
<1> QED
  BY <1>1 DEF ScanInv, ScanAnswer, Fanout!FanoutSound

\* It holds before the scan starts.
LEMMA ScanInitial == Fanout!ConstantsOK /\ Fanout!Init => ScanInv
<1> SUFFICES ASSUME Fanout!ConstantsOK, Fanout!Init
             PROVE  ScanInv
  OBVIOUS
<1>1. Fanout!TypeOK
  BY DEF Fanout!ConstantsOK, Fanout!Init, Fanout!TypeOK, Fanout!Spawned
<1>2. ScanPlaces /\ ScanPermits /\ ScanTasks
  BY DEF Fanout!Init, ScanPlaces, ScanPermits, ScanTasks
<1>3. ScanAnswer
  BY DEF Fanout!Init, ScanAnswer, Fanout!NoneLeftRunning, Fanout!EveryFileReviewed,
       Fanout!BrokenScanFails, Fanout!HealthySessionCounts
<1> QED
  BY <1>1, <1>2, <1>3 DEF ScanInv

\* The configuration and the discovery, and a cancellation.
LEMMA SetupKeeps ==
  ASSUME Fanout!ConstantsOK, ScanInv,
         (\E otherZero \in BOOLEAN : Fanout!Configure(otherZero)) \/ (\E found \in {{}, ScannedFiles} : Fanout!Discover(found))
           \/ Fanout!DiscoverFails \/ Fanout!EndFan \/ Fanout!Cancel
  PROVE  ScanInv'
<1>1. \A f \in ScannedFiles : scan_files = {} => session[f] = "none"
  BY DEF ScanInv, ScanPlaces
<1>2. ASSUME NEW otherZero \in BOOLEAN, Fanout!Configure(otherZero)
      PROVE  ScanInv'
  <2>1. Fanout!Patched \in (IF patch = {} THEN {FilesAtOnce} ELSE patch) /\ Fanout!Patched \in Nat
    BY <1>2 DEF Fanout!Configure, Fanout!Patched, ScanInv, ScanPermits, Fanout!ConstantsOK
  <2>2. /\ limit' = Fanout!Patched /\ scan_pc' \in {"discover", "failed"} /\ scan_pc = "configure"
        /\ UNCHANGED <<patch, scan_files, session, joined, scan_cancelled>>
    BY <1>2 DEF Fanout!Configure
  <2>3. Fanout!TypeOK'
    BY <2>1, <2>2 DEF ScanInv, Fanout!TypeOK, Fanout!Spawned
  <2>4. ScanPlaces' /\ ScanPermits' /\ ScanTasks'
    BY <2>1, <2>2 DEF ScanInv, ScanPlaces, ScanPermits, ScanTasks, Fanout!Ended
  <2>5. ScanAnswer'
    BY <1>1, <2>2 DEF ScanInv, ScanPlaces, ScanAnswer, Fanout!NoneLeftRunning,
         Fanout!EveryFileReviewed,
         Fanout!BrokenScanFails, Fanout!HealthySessionCounts, Fanout!Running
  <2> QED
    BY <2>3, <2>4, <2>5 DEF ScanInv
<1>3. ASSUME NEW found \in {{}, ScannedFiles}, Fanout!Discover(found)
      PROVE  ScanInv'
  <2>1. /\ scan_pc = "discover" /\ found \in {{}, ScannedFiles}
        /\ scan_files' = found /\ scan_pc' = (IF found = {} THEN "ok" ELSE "fan")
        /\ UNCHANGED <<patch, limit, session, joined, scan_cancelled>>
    BY <1>3 DEF Fanout!Discover
  <2>2. scan_files = {} /\ \A f \in ScannedFiles : session[f] = "none"
    BY <1>1, <2>1 DEF ScanInv, ScanPlaces
  <2>3. joined = {}
    BY <2>2 DEF ScanInv, Fanout!TypeOK, Fanout!Spawned
  <2>4. Fanout!TypeOK'
    BY <2>1, <2>2, <2>3 DEF ScanInv, Fanout!TypeOK, Fanout!Spawned
  <2>5. Cardinality(Holding(session)) = 0 /\ limit \in Nat
    <3>1. Holding(session) = {}
      BY <2>2 DEF Holding
    <3> QED
      BY <3>1, FS_EmptySet DEF ScanInv, Fanout!TypeOK
  <2>6. ScanPlaces' /\ ScanPermits' /\ ScanTasks'
    BY <2>1, <2>2, <2>3, <2>5 DEF ScanInv, ScanPlaces, ScanPermits, ScanTasks, Fanout!Ended, Holding
  <2>7. ScanAnswer'
    BY <2>1, <2>2 DEF ScanAnswer, Fanout!NoneLeftRunning, Fanout!EveryFileReviewed,
         Fanout!BrokenScanFails,
         Fanout!HealthySessionCounts, Fanout!Running, Fanout!ConstantsOK
  <2> QED
    BY <2>4, <2>6, <2>7 DEF ScanInv
<1>4. CASE Fanout!DiscoverFails
  <2>1. /\ scan_pc = "discover" /\ scan_pc' = "failed"
        /\ UNCHANGED <<patch, limit, scan_files, session, joined, scan_cancelled>>
    BY <1>4 DEF Fanout!DiscoverFails
  <2>2. scan_files = {} /\ \A f \in ScannedFiles : session[f] = "none"
    BY <1>1, <2>1 DEF ScanInv, ScanPlaces
  <2>3. Fanout!TypeOK'
    BY <2>1 DEF ScanInv, Fanout!TypeOK, Fanout!Spawned
  <2>4. ScanPlaces' /\ ScanPermits' /\ ScanTasks'
    BY <2>1, <2>2 DEF ScanInv, ScanPlaces, ScanPermits, ScanTasks, Fanout!Ended
  <2>5. ScanAnswer'
    BY <2>1, <2>2 DEF ScanAnswer, Fanout!NoneLeftRunning, Fanout!EveryFileReviewed,
         Fanout!BrokenScanFails,
         Fanout!HealthySessionCounts, Fanout!Running
  <2> QED
    BY <2>3, <2>4, <2>5 DEF ScanInv
<1>5. CASE Fanout!EndFan
  <2>1. /\ scan_pc = "fan" /\ (scan_cancelled \/ Fanout!Spawned = scan_files) /\ scan_pc' = "join"
        /\ UNCHANGED <<patch, limit, scan_files, session, joined, scan_cancelled>>
    BY <1>5 DEF Fanout!EndFan
  <2>2. Fanout!TypeOK' /\ ScanPermits' /\ ScanTasks'
    BY <2>1 DEF ScanInv, Fanout!TypeOK, Fanout!Spawned, ScanPermits, ScanTasks, Fanout!Ended,
         Holding
  <2>3. ScanPlaces'
    BY <2>1 DEF ScanInv, ScanPlaces, Fanout!Spawned
  <2>4. ScanAnswer'
    BY <2>1 DEF ScanAnswer, Fanout!NoneLeftRunning, Fanout!EveryFileReviewed,
         Fanout!BrokenScanFails, Fanout!HealthySessionCounts
  <2> QED
    BY <2>2, <2>3, <2>4 DEF ScanInv
<1>6. CASE Fanout!Cancel
  <2>1. scan_cancelled' = TRUE /\ UNCHANGED <<scan_pc, patch, limit, scan_files, session, joined>>
    BY <1>6 DEF Fanout!Cancel
  <2>2. Fanout!TypeOK' /\ ScanPlaces' /\ ScanPermits' /\ ScanTasks'
    BY <2>1 DEF ScanInv, Fanout!TypeOK, Fanout!Spawned, ScanPlaces, ScanPermits, ScanTasks,
         Fanout!Ended, Holding
  <2>3. ScanAnswer'
    BY <2>1 DEF ScanInv, ScanAnswer, Fanout!NoneLeftRunning, Fanout!EveryFileReviewed,
         Fanout!BrokenScanFails,
         Fanout!HealthySessionCounts, Fanout!Running
  <2> QED
    BY <2>2, <2>3 DEF ScanInv
<1> QED
  BY <1>2, <1>3, <1>4, <1>5, <1>6

\* A task of one discovered file goes on; the permits are counted again.
LEMMA TaskMoves ==
  ASSUME Fanout!ConstantsOK, ScanInv, NEW f \in scan_files, NEW to \in Tasks \ {"none"},
         scan_pc \notin {"ok", "failed"},
         session' = [session EXCEPT ![f] = to],
         UNCHANGED <<scan_pc, patch, limit, scan_files, joined, scan_cancelled>>, ~ Fanout!Ended(f),
         to = "skipped" => f \in NativeFiles,
         Cardinality(Holding(session')) <= limit
  PROVE  ScanInv'
<1>1. /\ f \in ScannedFiles /\ session' \in [ScannedFiles -> Tasks] /\ session'[f] = to
      /\ \A g \in ScannedFiles : g # f => session'[g] = session[g]
  BY HoldersRun DEF ScanInv, Fanout!TypeOK, Tasks
<1>2. Fanout!TypeOK'
  BY <1>1 DEF ScanInv, Fanout!TypeOK, Tasks, Fanout!Spawned
<1>3. ScanPlaces'
  BY <1>1 DEF ScanInv, ScanPlaces
<1>4. ScanPermits'
  BY DEF ScanInv, ScanPermits
<1>5. ScanTasks'
  <2>1. joined \subseteq ScannedFiles /\ f \notin joined
    BY HoldersRun DEF ScanInv, Fanout!TypeOK, Fanout!Spawned, ScanTasks
  <2> QED
    BY <1>1, <2>1 DEF ScanInv, ScanTasks, Fanout!Ended
<1>6. ScanAnswer'
  BY DEF ScanAnswer, Fanout!NoneLeftRunning, Fanout!EveryFileReviewed, Fanout!BrokenScanFails,
       Fanout!HealthySessionCounts
<1> QED
  BY <1>2, <1>3, <1>4, <1>5, <1>6 DEF ScanInv

\* The steps of the sessions: a permit is taken at the spawn and given back at the end.
LEMMA ScanTaskKeeps ==
  ASSUME Fanout!ConstantsOK, ScanInv, NEW f \in ScannedFiles, Fanout!Spawn(f) \/ Fanout!Task(f)
  PROVE  ScanInv'
<1>1. /\ session \in [ScannedFiles -> Tasks] /\ limit \in Nat /\ Fanout!Running = Holding(session)
      /\ \A g \in ScannedFiles : session[g] # "none" => g \in scan_files
  BY HoldersRun DEF ScanInv, Fanout!TypeOK, Tasks
<1>2. IsFiniteSet(Holding(session)) /\ Cardinality(Holding(session)) \in Nat
  BY HoldersCounted
<1>3. CASE Fanout!Spawn(f)
  <2>1. /\ scan_pc = "fan" /\ f \in scan_files /\ session[f] = "none" /\ Cardinality(Holding(session)) < limit
        /\ session' = [session EXCEPT ![f] = "spawned"]
        /\ UNCHANGED <<scan_pc, patch, limit, scan_files, joined, scan_cancelled>>
    BY SameScanCount, <1>1, <1>3 DEF Fanout!Spawn, Fanout!Spawned
  <2>2. Holding(session') = Holding(session) \cup {f}
    BY <1>1, <2>1 DEF Holding
  <2>3. f \notin Holding(session)
    BY <2>1 DEF Holding
  <2>4. Cardinality(Holding(session')) = Cardinality(Holding(session)) + 1
    BY <1>2, <2>2, <2>3, FS_AddElement
  <2>5. Cardinality(Holding(session')) <= limit
    BY <1>1, <1>2, <2>1, <2>4
  <2> QED
    BY <2>1, <2>5, TaskMoves DEF Tasks, Fanout!Ended
<1>4. ASSUME NEW to \in Tasks \ {"none"}, session' = [session EXCEPT ![f] = to],
             session[f] \in {"spawned", "running"}, to = "skipped" => f \in NativeFiles,
             UNCHANGED <<scan_pc, patch, limit, scan_files, joined, scan_cancelled>>
      PROVE  ScanInv'
  <2>1. f \in scan_files /\ f \in Fanout!Running
    BY <1>1, <1>4 DEF Holding
  <2>2. scan_pc \notin {"ok", "failed"} /\ Cardinality(Holding(session)) <= limit
    BY <2>1 DEF ScanInv, ScanAnswer, Fanout!NoneLeftRunning, ScanPermits
  <2>3. Holding(session') \subseteq Holding(session)
    BY <1>1, <1>4 DEF Holding
  <2>4. Cardinality(Holding(session')) <= Cardinality(Holding(session))
    BY <1>2, <2>3, FS_Subset
  <2>5. Cardinality(Holding(session')) \in Nat
    BY HoldersCounted
  <2>6. Cardinality(Holding(session')) <= limit
    BY <1>1, <1>2, <2>2, <2>4, <2>5
  <2> QED
    BY <1>4, <2>1, <2>2, <2>6, TaskMoves DEF Fanout!Ended
<1>5. ASSUME NEW next \in {"running", "failed", "skipped"}, Fanout!Start(f, next)
      PROVE  ScanInv'
  BY <1>4, <1>5 DEF Fanout!Start, Tasks
<1>6. ASSUME NEW how \in {"complete", "failed"}, Fanout!SessionEnds(f, how)
      PROVE  ScanInv'
  BY <1>4, <1>6 DEF Fanout!SessionEnds, Tasks
<1> QED
  BY <1>3, <1>5, <1>6 DEF Fanout!Task

\* A handle is awaited.
LEMMA JoinKeeps ==
  ASSUME Fanout!ConstantsOK, ScanInv, NEW f \in ScannedFiles, Fanout!Join(f)
  PROVE  ScanInv'
<1>1. /\ scan_pc = "join" /\ f \in Fanout!Spawned /\ Fanout!Ended(f) /\ joined' = joined \cup {f}
      /\ UNCHANGED <<scan_pc, patch, limit, scan_files, session, scan_cancelled>>
  BY DEF Fanout!Join
<1>2. Fanout!TypeOK' /\ ScanPlaces' /\ ScanPermits' /\ ScanTasks'
  BY <1>1 DEF ScanInv, Fanout!TypeOK, Fanout!Spawned, ScanPlaces, ScanPermits, ScanTasks,
       Fanout!Ended, Holding
<1>3. ScanAnswer'
  BY <1>1 DEF ScanAnswer, Fanout!NoneLeftRunning, Fanout!EveryFileReviewed,
       Fanout!BrokenScanFails, Fanout!HealthySessionCounts
<1> QED
  BY <1>2, <1>3 DEF ScanInv

\* The scan's answer: errors, skipped files and the others are counted once each.
LEMMA FinishKeeps ==
  ASSUME Fanout!ConstantsOK, ScanInv, Fanout!Finish
  PROVE  ScanInv'
<1>1. /\ scan_pc = "join" /\ joined = Fanout!Spawned /\ scan_pc' \in {"ok", "failed"}
      /\ scan_pc' = "failed" <=> /\ Fanout!Errors # {}
                            /\ Cardinality(Fanout!Errors) = Cardinality(scan_files) - Cardinality(Fanout!Skipped)
      /\ UNCHANGED <<patch, limit, scan_files, session, joined, scan_cancelled>>
  BY SameScanCount DEF Fanout!Finish
<1>2. /\ scan_files = ScannedFiles /\ joined = {f \in ScannedFiles : session[f] # "none"}
      /\ \A f \in joined : session[f] \in {"complete", "failed", "skipped"}
      /\ Fanout!Running = Holding(session)
  BY <1>1, HoldersRun DEF ScanInv, ScanPlaces, ScanTasks, Fanout!Spawned, Fanout!Ended
<1>3. /\ IsFiniteSet(ScannedFiles) /\ Fanout!Errors \cup Fanout!Skipped \subseteq ScannedFiles /\ Fanout!Errors \cap Fanout!Skipped = {}
  BY SameScanCount, <1>2 DEF Fanout!ConstantsOK, Fanout!Errors, Fanout!Skipped
<1>4. /\ IsFiniteSet(Fanout!Errors) /\ IsFiniteSet(Fanout!Skipped) /\ IsFiniteSet(Fanout!Errors \cup Fanout!Skipped)
      /\ Cardinality(Fanout!Errors) \in Nat /\ Cardinality(Fanout!Skipped) \in Nat /\ Cardinality(ScannedFiles) \in Nat
  BY <1>3, FS_Subset, FS_CardinalityType
<1>5. Cardinality(Fanout!Errors \cup Fanout!Skipped) = Cardinality(Fanout!Errors) + Cardinality(Fanout!Skipped)
  <2>1. Cardinality(Fanout!Errors \cap Fanout!Skipped) = 0
    BY <1>3, FS_EmptySet
  <2>2. Cardinality(Fanout!Errors \cup Fanout!Skipped)
          = Cardinality(Fanout!Errors) + Cardinality(Fanout!Skipped) - Cardinality(Fanout!Errors \cap Fanout!Skipped)
    BY <1>4, FS_Union
  <2> QED
    BY <1>4, <2>1, <2>2
<1>6. ASSUME scan_pc' = "failed", NEW f \in ScannedFiles, session[f] = "complete"
      PROVE  FALSE
  <2>1. Fanout!Errors \cup Fanout!Skipped # ScannedFiles
    BY <1>6 DEF Fanout!Errors, Fanout!Skipped
  <2>2. Cardinality(Fanout!Errors \cup Fanout!Skipped) < Cardinality(ScannedFiles)
    <3>1. Cardinality(Fanout!Errors \cup Fanout!Skipped) <= Cardinality(ScannedFiles) /\ Cardinality(Fanout!Errors \cup Fanout!Skipped) \in Nat
      BY <1>3, <1>4, FS_Subset, FS_CardinalityType
    <3>2. Cardinality(Fanout!Errors \cup Fanout!Skipped) # Cardinality(ScannedFiles)
      BY <1>3, <2>1, FS_Subset
    <3> QED
      BY <1>4, <3>1, <3>2
  <2> QED
    BY <1>1, <1>2, <1>4, <1>5, <1>6, <2>2
<1>7. ASSUME scan_pc' = "ok", ~ scan_cancelled, \A f \in ScannedFiles : session[f] # "complete"
      PROVE  ScannedFiles = NativeFiles
  <2>1. joined = ScannedFiles
    BY <1>1, <1>2, <1>7 DEF ScanInv, ScanPlaces
  <2>2. ScannedFiles = Fanout!Errors \cup Fanout!Skipped
    BY <1>2, <1>7, <2>1 DEF Fanout!Errors, Fanout!Skipped
  <2>3. Fanout!Errors = {}
    BY <1>1, <1>2, <1>4, <1>5, <1>7, <2>2
  <2> QED
    BY <2>2, <2>3 DEF Fanout!Skipped, ScanInv, ScanTasks, Fanout!ConstantsOK
<1>8. Fanout!TypeOK' /\ ScanPlaces' /\ ScanPermits' /\ ScanTasks'
  BY <1>1 DEF ScanInv, Fanout!TypeOK, Fanout!Spawned, ScanPlaces, ScanPermits, ScanTasks,
       Fanout!Ended, Holding
<1>9. Fanout!NoneLeftRunning'
  <2>1. Fanout!Running = {}
    BY <1>2 DEF Holding
  <2> QED
    BY <1>1, <2>1 DEF Fanout!NoneLeftRunning, Fanout!Running
<1>10. Fanout!EveryFileReviewed'
  BY <1>1, <1>2 DEF ScanInv, ScanPlaces, Fanout!EveryFileReviewed, Fanout!Ended
<1>11. Fanout!BrokenScanFails'
  BY <1>1, <1>2, <1>7 DEF Fanout!BrokenScanFails
<1>12. Fanout!HealthySessionCounts'
  BY <1>1, <1>6 DEF Fanout!HealthySessionCounts
<1> QED
  BY <1>8, <1>9, <1>10, <1>11, <1>12 DEF ScanInv, ScanAnswer

\* A scan never has more sessions than the bound of its worker or its lease, returns with none
\* of them at work, looks at every file unless it is cancelled, and fails just when no session
\* worked, for any number of files (llm_code_review.rs, source_discovery.rs).
THEOREM FanoutIsSound == Fanout!ConstantsOK => (Fanout!Spec => []Fanout!FanoutSound)
<1> SUFFICES ASSUME Fanout!ConstantsOK
             PROVE  Fanout!Spec => []Fanout!FanoutSound
  OBVIOUS
<1>1. ScanInv /\ [Fanout!Next]_(Fanout!vars) => ScanInv'
  <2> SUFFICES ASSUME ScanInv, [Fanout!Next]_(Fanout!vars)
               PROVE  ScanInv'
    OBVIOUS
  <2>1. CASE \/ \E otherZero \in BOOLEAN : Fanout!Configure(otherZero)
             \/ \E found \in {{}, ScannedFiles} : Fanout!Discover(found)
             \/ Fanout!DiscoverFails \/ Fanout!EndFan \/ Fanout!Cancel
    BY <2>1, SetupKeeps
  <2>2. ASSUME NEW f \in ScannedFiles, Fanout!Spawn(f) \/ Fanout!Task(f)
        PROVE  ScanInv'
    BY <2>2, ScanTaskKeeps
  <2>3. ASSUME NEW f \in ScannedFiles, Fanout!Join(f)
        PROVE  ScanInv'
    BY <2>3, JoinKeeps
  <2>4. CASE Fanout!Finish
    BY <2>4, FinishKeeps
  <2>5. CASE UNCHANGED Fanout!vars
    <3>1. UNCHANGED <<scan_pc, patch, limit, scan_files, session, joined, scan_cancelled>>
      BY <2>5 DEF Fanout!vars
    <3>2. Fanout!TypeOK' /\ ScanPlaces' /\ ScanPermits' /\ ScanTasks'
      BY <3>1 DEF ScanInv, Fanout!TypeOK, Fanout!Spawned, ScanPlaces, ScanPermits, ScanTasks,
           Fanout!Ended, Holding
    <3>3. ScanAnswer'
      BY <3>1 DEF ScanInv, ScanAnswer, Fanout!NoneLeftRunning, Fanout!EveryFileReviewed,
           Fanout!BrokenScanFails,
           Fanout!HealthySessionCounts, Fanout!Running, Fanout!Ended
    <3> QED
      BY <3>2, <3>3 DEF ScanInv
  <2> QED
    BY <2>1, <2>2, <2>3, <2>4, <2>5 DEF Fanout!Next, Fanout!Own, Fanout!Returned
<1> QED
  BY <1>1, ScanInitial, ScanImplied, PTL DEF Fanout!Spec

(***************************************************************************)
(* The supervisor of a sandbox's network                                    *)
(***************************************************************************)
\* A packet gets the verdict of the first rule that matches it.
LEMMA FirstRule ==
  ASSUME NEW rules, Len(rules) \in Nat, NEW p, NEW i \in 1..Len(rules), p \in rules[i].matches,
         \A k \in 1..Len(rules) : k < i => p \notin rules[k].matches
  PROVE  Network!Decision(rules, p) = rules[i].verdict
<1>1. PICK I : I = {k \in 1..Len(rules) : p \in rules[k].matches}
  OBVIOUS
<1>2. i \in I /\ I \subseteq Nat /\ \A k \in I : i <= k
  BY <1>1
<1>3. Network!Min(I) = i
  <2>1. PICK first : first = Network!Min(I)
    OBVIOUS
  <2>2. \E x \in I : \A y \in I : x <= y
    BY <1>2
  <2>3. first \in I /\ \A y \in I : first <= y
    BY <2>1, <2>2 DEF Network!Min
  <2> QED
    BY <1>2, <2>1, <2>3
<1>4. Network!SelectInSeq(rules, LAMBDA r : p \in r.matches) = Network!Min(I)
  BY <1>1, <1>2 DEF Network!SelectInSeq
<1> QED
  BY <1>3, <1>4 DEF Network!Decision

\* The rules of the public mode.
LEMMA PublicRules ==
  ASSUME NEW a
  PROVE  /\ Len(Network!Rules("public", a)) = 7
         /\ Network!Rules("public", a)[1] = Network!Rule(Network!To("lo"), "accept")
         /\ Network!Rules("public", a)[2] = Network!Rule(Network!To("dns"), "accept")
         /\ Network!Rules("public", a)[3] = Network!Rule({p \in Network!Packets : p.reply}, "accept")
         /\ Network!Rules("public", a)[4] = Network!Rule(Network!V4("required"), "accept")
         /\ Network!Rules("public", a)[5] = Network!Rule(Network!V4("private"), "reject")
         /\ Network!Rules("public", a)[6] = Network!Rule(Network!To("v6"), "reject")
         /\ Network!Rules("public", a)[7] = Network!Rule(Network!Packets, "accept")
BY DEF Network!Rules, Network!Local

\* ... and those of the allow list.
LEMMA AllowlistRules ==
  ASSUME NEW a
  PROVE  /\ Len(Network!Rules("allowlist", a)) = 5
         /\ Network!Rules("allowlist", a)[1] = Network!Rule(Network!To("lo"), "accept")
         /\ Network!Rules("allowlist", a)[2] = Network!Rule(Network!To("dns"), "accept")
         /\ Network!Rules("allowlist", a)[3] = Network!Rule({p \in Network!Packets : p.reply}, "accept")
         /\ Network!Rules("allowlist", a)[4]
              = Network!Rule(Network!V4("required") \cup (IF a THEN Network!V4("extra") ELSE {}), "accept")
         /\ Network!Rules("allowlist", a)[5] = Network!Rule(Network!Packets, "reject")
BY DEF Network!Rules, Network!Local

\* Whom a rule's set holds.
LEMMA Matching ==
  ASSUME NEW p \in Network!Packets
  PROVE  /\ p \in Network!To("lo") <=> p.to = "lo"
         /\ p \in Network!To("dns") <=> p.to = "dns"
         /\ p \in Network!To("v6") <=> p.to = "v6"
         /\ p \in Network!V4("required") <=> p.to = "v4" /\ p.required
         /\ p \in Network!V4("extra") <=> p.to = "v4" /\ p.extra
         /\ p \in Network!V4("private") <=> p.to = "v4" /\ p.private
         /\ p.to \in {"lo", "dns", "v4", "v6"}
BY DEF Network!To, Network!V4, Network!Packets

\* The rules in their order say what is permitted.
LEMMA RulesDecide ==
  ASSUME NEW m \in {"public", "allowlist"}, NEW a \in BOOLEAN, NEW p \in Network!Packets
  PROVE  Network!Decision(Network!Rules(m, a), p) = "accept" <=> Network!Permitted(m, a, p)
<1>1. PICK rules : rules = Network!Rules(m, a)
  OBVIOUS
<1>2. CASE m = "public"
  <2>1. /\ Len(rules) = 7
        /\ rules[1] = Network!Rule(Network!To("lo"), "accept") /\ rules[2] = Network!Rule(Network!To("dns"), "accept")
        /\ rules[3] = Network!Rule({q \in Network!Packets : q.reply}, "accept")
        /\ rules[4] = Network!Rule(Network!V4("required"), "accept") /\ rules[5] = Network!Rule(Network!V4("private"), "reject")
        /\ rules[6] = Network!Rule(Network!To("v6"), "reject") /\ rules[7] = Network!Rule(Network!Packets, "accept")
    BY <1>1, <1>2, PublicRules
  <2>2. /\ rules[1].verdict = "accept" /\ rules[2].verdict = "accept" /\ rules[3].verdict = "accept"
        /\ rules[4].verdict = "accept" /\ rules[5].verdict = "reject" /\ rules[6].verdict = "reject"
        /\ rules[7].verdict = "accept"
    BY <2>1 DEF Network!Rule
  <2>3. /\ p \in rules[1].matches <=> p.to = "lo"
        /\ p \in rules[2].matches <=> p.to = "dns"
        /\ p \in rules[3].matches <=> p.reply
        /\ p \in rules[4].matches <=> p.to = "v4" /\ p.required
        /\ p \in rules[5].matches <=> p.to = "v4" /\ p.private
        /\ p \in rules[6].matches <=> p.to = "v6"
        /\ p \in rules[7].matches
    BY <2>1, Matching DEF Network!Rule
  <2>4. ASSUME NEW i \in 1..7, p \in rules[i].matches,
               \A k \in 1..7 : k < i => p \notin rules[k].matches
        PROVE  Network!Decision(rules, p) = rules[i].verdict
    BY <2>1, <2>4, FirstRule
  <2>5. Network!Permitted(m, a, p) <=>
          \/ p.to \in {"lo", "dns"} \/ p.reply
          \/ p.to = "v4" /\ (p.required \/ ~ p.private)
    BY <1>2 DEF Network!Permitted
  <2>6. CASE p.to = "lo"
    BY <1>1, <2>2, <2>3, <2>4, <2>5, <2>6
  <2>7. CASE p.to = "dns"
    BY <1>1, <2>2, <2>3, <2>4, <2>5, <2>7
  <2>8. CASE p.to \notin {"lo", "dns"} /\ p.reply
    BY <1>1, <2>2, <2>3, <2>4, <2>5, <2>8
  <2>9. CASE p.to = "v4" /\ ~ p.reply /\ p.required
    BY <1>1, <2>2, <2>3, <2>4, <2>5, <2>9
  <2>10. CASE p.to = "v4" /\ ~ p.reply /\ ~ p.required /\ p.private
    BY <1>1, <2>2, <2>3, <2>4, <2>5, <2>10
  <2>11. CASE p.to = "v4" /\ ~ p.reply /\ ~ p.required /\ ~ p.private
    BY <1>1, <2>2, <2>3, <2>4, <2>5, <2>11
  <2>12. CASE p.to = "v6" /\ ~ p.reply
    BY <1>1, <2>2, <2>3, <2>4, <2>5, <2>12
  <2> QED
    BY <2>6, <2>7, <2>8, <2>9, <2>10, <2>11, <2>12, Matching
<1>3. CASE m = "allowlist"
  <2>1. /\ Len(rules) = 5
        /\ rules[1] = Network!Rule(Network!To("lo"), "accept") /\ rules[2] = Network!Rule(Network!To("dns"), "accept")
        /\ rules[3] = Network!Rule({q \in Network!Packets : q.reply}, "accept")
        /\ rules[4] = Network!Rule(Network!V4("required") \cup (IF a THEN Network!V4("extra") ELSE {}), "accept")
        /\ rules[5] = Network!Rule(Network!Packets, "reject")
    BY <1>1, <1>3, AllowlistRules
  <2>2. /\ rules[1].verdict = "accept" /\ rules[2].verdict = "accept" /\ rules[3].verdict = "accept"
        /\ rules[4].verdict = "accept" /\ rules[5].verdict = "reject"
    BY <2>1 DEF Network!Rule
  <2>3. /\ p \in rules[1].matches <=> p.to = "lo"
        /\ p \in rules[2].matches <=> p.to = "dns"
        /\ p \in rules[3].matches <=> p.reply
        /\ p \in rules[4].matches <=> p.to = "v4" /\ (p.required \/ (a /\ p.extra))
        /\ p \in rules[5].matches
    BY <2>1, Matching DEF Network!Rule
  <2>4. ASSUME NEW i \in 1..5, p \in rules[i].matches,
               \A k \in 1..5 : k < i => p \notin rules[k].matches
        PROVE  Network!Decision(rules, p) = rules[i].verdict
    BY <2>1, <2>4, FirstRule
  <2>5. Network!Permitted(m, a, p) <=>
          \/ p.to \in {"lo", "dns"} \/ p.reply
          \/ p.to = "v4" /\ (p.required \/ (a /\ p.extra))
    BY <1>3 DEF Network!Permitted
  <2>6. CASE p.to = "lo"
    BY <1>1, <2>2, <2>3, <2>4, <2>5, <2>6
  <2>7. CASE p.to = "dns"
    BY <1>1, <2>2, <2>3, <2>4, <2>5, <2>7
  <2>8. CASE p.to \notin {"lo", "dns"} /\ p.reply
    BY <1>1, <2>2, <2>3, <2>4, <2>5, <2>8
  <2>9. CASE p.to = "v4" /\ ~ p.reply /\ (p.required \/ (a /\ p.extra))
    BY <1>1, <2>2, <2>3, <2>4, <2>5, <2>9
  <2>10. CASE p.to \notin {"lo", "dns"} /\ ~ p.reply /\ ~ (p.to = "v4" /\ (p.required \/ (a /\ p.extra)))
    BY <1>1, <2>2, <2>3, <2>4, <2>5, <2>10
  <2> QED
    BY <2>6, <2>7, <2>8, <2>9, <2>10, Matching
<1> QED
  BY <1>2, <1>3

\* The policy exists before a process, the filter before the release, and a helper is gone
\* before its supervisor passes it.
Guarded ==
  /\ net_mode \in {"public", "allowlist"} /\ allow \in BOOLEAN
  /\ net_pc = "resolve" => filter = <<>>
  /\ net_pc \in {"start", "pid", "userns", "slirp", "ready", "policy", "release"}
       => pending = Network!Rules(net_mode, allow)
  /\ net_pc = "release" => filter = Network!Rules(net_mode, allow)
  /\ bwrap = "running" => net_pc = "killed" \/ (net_pc = "wait" /\ filter = Network!Rules(net_mode, allow))
  /\ net_pc = "unwind_bwrap" => ~ Network!Alive(slirp)
  /\ net_pc = "slirp_left" => ~ Network!Alive(bwrap)

NetworkInv == Network!TypeOK /\ Guarded /\ Network!NoHelperLeft

\* The inductive invariant implies what the run checks.
LEMMA NetworkImplied == NetworkInv => Network!NetworkSound
<1> SUFFICES ASSUME NetworkInv
             PROVE  Network!NetworkSound
  OBVIOUS
<1>1. Network!RunsFiltered
  <2> SUFFICES ASSUME bwrap = "running", net_pc # "killed"
               PROVE  /\ filter # <<>>
                      /\ \A p \in Network!Packets : Network!Decision(filter, p) = "accept" <=> Network!Permitted(net_mode, allow, p)
    BY DEF Network!RunsFiltered
  <2>1. filter = Network!Rules(net_mode, allow) /\ net_mode \in {"public", "allowlist"} /\ allow \in BOOLEAN
    BY DEF NetworkInv, Guarded
  <2>2. Len(filter) \in {5, 7}
    BY <2>1, PublicRules, AllowlistRules
  <2>3. filter # <<>>
    BY <2>2
  <2> QED
    BY <2>1, <2>3, RulesDecide
<1> QED
  BY <1>1 DEF NetworkInv, Network!NetworkSound

\* Every step keeps it.
LEMMA NetworkStep ==
  ASSUME NetworkInv, [Network!Next]_(Network!vars)
  PROVE  NetworkInv'
<1> USE DEF NetworkInv, Network!TypeOK, Guarded, Network!NoHelperLeft, Network!Alive,
     Network!Terminated, Network!input
<1>1. CASE Network!Resolve
  BY <1>1 DEF Network!Resolve
<1>2. CASE Network!StartBwrap \/ Network!ReadPid \/ Network!UsernsReady
  BY <1>2 DEF Network!StartBwrap, Network!ReadPid, Network!UsernsReady
<1>3. CASE Network!StartSlirp \/ Network!SlirpReady
  BY <1>3 DEF Network!StartSlirp, Network!SlirpReady
<1>4. CASE Network!ApplyPolicy \/ Network!Release
  BY <1>4 DEF Network!ApplyPolicy, Network!Release
<1>5. CASE Network!Fail
  BY <1>5 DEF Network!Fail
<1>6. CASE Network!UnwindSlirp \/ Network!UnwindBwrap
  BY <1>6 DEF Network!UnwindSlirp, Network!UnwindBwrap
<1>7. CASE Network!Wait \/ Network!StopSlirp
  BY <1>7 DEF Network!Wait, Network!StopSlirp
<1>8. CASE Network!Killed \/ Network!BlockPipeCloses \/ Network!OrphansDie
  BY <1>8 DEF Network!Killed, Network!BlockPipeCloses, Network!OrphansDie
<1>9. CASE Network!BwrapDies \/ Network!SlirpDies
  BY <1>9 DEF Network!BwrapDies, Network!SlirpDies
<1>10. CASE UNCHANGED Network!vars
  BY <1>10 DEF Network!vars
<1> QED
  BY <1>1, <1>2, <1>3, <1>4, <1>5, <1>6, <1>7, <1>8, <1>9, <1>10 DEF Network!Next,
       Network!Supervisor, Network!Returned

\* In either mode, and whichever helper dies and whichever step fails: as long as its
\* supervisor lives a sandboxed command runs only behind the whole filter, whose rules in
\* their order let through what is permitted and nothing else, and no helper outlives the
\* supervisor (sandbox_network.rs).
THEOREM NetworkIsSound == Network!Spec => []Network!NetworkSound
<1>1. Network!Init => NetworkInv
  BY DEF Network!Init, NetworkInv, Network!TypeOK, Guarded, Network!NoHelperLeft, Network!Alive
<1> QED
  BY <1>1, NetworkStep, NetworkImplied, PTL DEF Network!Spec

(***************************************************************************)
(* The token of a Git operation                                             *)
(***************************************************************************)
\* A row for every helper Git may start, idle ones included.
HelperRow == [pc : {"none", "asked", "connected", "written", "answered", "closed", "ended"},
              asks : GitUrls \cup {Git!Nothing}, answer : {Git!Nothing, "token", "quit"}]

\* A helper that was not started has no answer, so that an answer is never about another URL.
HelpersTyped ==
  /\ helper \in [GitHelpers -> HelperRow]
  /\ \A h \in GitHelpers : helper[h].pc = "none" => helper[h].answer = Git!Nothing

\* What TypeOK leaves open of the operation and of the socket's queue.
SessionTyped ==
  /\ url \in GitUrls /\ token \in {"none", "ok", "bad"} /\ rewritten \in GitUrls /\ stop \in BOOLEAN
  /\ backlog \in Seq(GitHelpers) /\ conn \in GitHelpers \cup {Git!Nothing}

\* The thread is started once, for a destination reached over TLS.
ThreadStarted ==
  /\ op \in {"new", "failed"} => thread = "none"
  /\ thread # "none" => url \in HttpsUrls

\* The projection's process lives during its step only.
ChildReaped ==
  /\ op \in {"new", "project", "failed"} => git_child = "none"
  /\ op \in {"run", "git", "drop", "ended"} => git_child \in {"none", "reaped"}

\* What Git is run with was projected and validated.
Checked ==
  /\ op \in {"run", "git"} /\ token # "none" => effective \notin MalformedUrls
  /\ op = "git" /\ token # "none" => contacts = effective
  /\ op = "ended" => thread \in {"none", "ended"}

CredentialInv ==
  /\ Git!TypeOK /\ SessionTyped /\ HelpersTyped /\ Git!TokenForItsRepository
  /\ ThreadStarted /\ ChildReaped /\ Checked

\* The inductive invariant implies what the run checks.
LEMMA CredentialImplied == CredentialInv => Git!CredentialSafe
BY DEF CredentialInv, Git!CredentialSafe, Git!ContactsWhatWasChecked, Git!NothingOutlives,
     Checked, ThreadStarted,
       ChildReaped

\* It holds before the operation starts.
LEMMA CredentialInitial == Git!ConstantsOK /\ Git!Init => CredentialInv
<1> SUFFICES ASSUME Git!ConstantsOK, Git!Init
             PROVE  CredentialInv
  OBVIOUS
<1>1. Git!Idle \in HelperRow /\ Git!Idle.pc = "none" /\ Git!Idle.answer = Git!Nothing
  BY DEF Git!Idle, HelperRow, Git!Nothing
<1>2. HelpersTyped /\ \A h \in GitHelpers : helper[h].answer = Git!Nothing
  BY <1>1 DEF Git!Init, HelpersTyped
<1>3. Git!TokenForItsRepository
  BY <1>2 DEF Git!TokenForItsRepository, Git!Nothing
<1>4. SessionTyped
  <2>1. << >> \in Seq(GitHelpers)
    OBVIOUS
  <2> QED
    BY <2>1 DEF Git!Init, SessionTyped
<1>5. Git!TypeOK
  BY DEF Git!Init, Git!TypeOK, Git!ConstantsOK
<1> QED
  BY <1>2, <1>3, <1>4, <1>5 DEF Git!Init, CredentialInv, ThreadStarted, ChildReaped, Checked

\* What a step owes: the invariant, and that a helper it ends has answered Git.
StepKeeps == CredentialInv' /\ Git!AnsweredOrQuitStep

\* The worker's steps leave the helpers alone.
LEMMA WorkerSteps ==
  ASSUME Git!ConstantsOK, CredentialInv, Git!Worker \/ Git!Projected \/ \E u \in GitUrls : Git!Reconfigure(u)
  PROVE  StepKeeps
<1> USE DEF CredentialInv
<1>1. /\ helper' = helper /\ url' = url /\ token' = token /\ conn' = conn /\ served' = served
      /\ backlog' = backlog /\ rewritten' \in GitUrls /\ stop' \in BOOLEAN
      /\ thread' = thread \/ (op = "new" /\ thread' = "accept" /\ token = "ok" /\ url \in HttpsUrls)
  BY DEF Git!Worker, Git!New, Git!Project, Git!ProjectEnds, Git!RunGit, Git!GitEnds, Git!Drop,
       Git!Projected, Git!Reconfigure, Git!session,
         SessionTyped, Git!Acceptable
<1>2. HelpersTyped' /\ Git!TokenForItsRepository' /\ Git!AnsweredOrQuitStep /\ SessionTyped'
  BY <1>1 DEF HelpersTyped, Git!TokenForItsRepository, Git!AnsweredOrQuitStep, SessionTyped
<1>3. Git!TypeOK' /\ ThreadStarted' /\ ChildReaped' /\ Checked'
  <2>1. CASE \E ready \in BOOLEAN : Git!New(ready)
    BY <1>1, <2>1 DEF Git!New, Git!TypeOK, SessionTyped, ThreadStarted, ChildReaped, Checked,
         Git!Acceptable
  <2>2. CASE Git!Project \/ Git!ProjectEnds
    BY <1>1, <2>2 DEF Git!Project, Git!ProjectEnds, Git!session, Git!TypeOK, ThreadStarted,
         ChildReaped, Checked, Git!Unambiguous
  <2>3. CASE Git!RunGit \/ Git!GitEnds
    BY <1>1, <2>3 DEF Git!RunGit, Git!GitEnds, Git!session, Git!TypeOK, SessionTyped,
         ThreadStarted, ChildReaped, Checked, Git!Pinned
  <2>4. CASE Git!Drop
    BY <1>1, <2>4 DEF Git!Drop, Git!TypeOK, ThreadStarted, ChildReaped, Checked
  <2>5. CASE Git!Projected
    BY <1>1, <2>5 DEF Git!Projected, Git!session, Git!TypeOK, SessionTyped, ThreadStarted,
         ChildReaped, Checked
  <2>6. CASE \E u \in GitUrls : Git!Reconfigure(u)
    BY <1>1, <2>6 DEF Git!Reconfigure, Git!session, Git!TypeOK, ThreadStarted, ChildReaped, Checked
  <2> QED
    BY <2>1, <2>2, <2>3, <2>4, <2>5, <2>6 DEF Git!Worker
<1> QED
  BY <1>2, <1>3 DEF StepKeeps

\* What the others leave to the worker.
\* The broker's thread and the helpers leave the operation's own variables alone.
WorkerStays == UNCHANGED <<url, token, op, rewritten, effective, git_child, contacts, stop>>

\* A helper's row may be written by its process or its answer come in, and the thread moves on.
LEMMA OthersKeep ==
  ASSUME CredentialInv, WorkerStays, HelpersTyped', Git!AnsweredOrQuitStep,
         (thread # "none" /\ thread' \in {"accept", "read", "ended"}) \/ thread' = thread,
         thread \in {"none", "ended"} => thread' = thread,
         thread' = "read" <=> conn' \in GitHelpers, conn' \in GitHelpers \cup {Git!Nothing},
         served' \in 0 .. ConnectionLimit, backlog' \in Seq(GitHelpers),
         \A h \in GitHelpers : helper'[h].answer = "token" => helper'[h].asks = url /\ url \in HttpsUrls
  PROVE  StepKeeps
<1> USE DEF CredentialInv
<1>1. Git!TypeOK'
  BY DEF Git!TypeOK, WorkerStays
<1>2. SessionTyped'
  BY DEF SessionTyped, WorkerStays
<1>3. Git!TokenForItsRepository'
  BY DEF Git!TokenForItsRepository, WorkerStays
<1>4. ThreadStarted' /\ ChildReaped' /\ Checked'
  BY DEF ThreadStarted, ChildReaped, Checked, WorkerStays
<1> QED
  BY <1>1, <1>2, <1>3, <1>4 DEF StepKeeps

\* The thread accepts a connection, answers it, or ends.
LEMMA ThreadSteps ==
  ASSUME Git!ConstantsOK, CredentialInv, Git!Thread
  PROVE  StepKeeps
<1> USE DEF CredentialInv
<1>1. /\ thread \in {"none", "accept", "read", "ended"} /\ (thread = "read" <=> conn \in GitHelpers)
      /\ served \in 0 .. ConnectionLimit /\ ConnectionLimit \in Nat /\ Git!Nothing \notin GitHelpers
      /\ backlog \in Seq(GitHelpers) /\ conn \in GitHelpers \cup {Git!Nothing}
      /\ helper \in [GitHelpers -> HelperRow]
  BY DEF Git!TypeOK, SessionTyped, HelpersTyped, Git!ConstantsOK
<1>2. \A h \in GitHelpers : helper[h].answer = "token" => helper[h].asks = url /\ url \in HttpsUrls
  BY DEF Git!TokenForItsRepository
<1>3. CASE Git!Accept
  <2>1. Head(backlog) \in GitHelpers /\ Tail(backlog) \in Seq(GitHelpers)
    BY <1>1, <1>3 DEF Git!Accept
  <2>2. /\ WorkerStays /\ helper' = helper /\ thread = "accept" /\ thread' = "read"
        /\ conn' \in GitHelpers /\ backlog' \in Seq(GitHelpers)
        /\ served' \in 0 .. ConnectionLimit
    BY <1>1, <1>3, <2>1 DEF Git!Accept, WorkerStays
  <2>3. HelpersTyped' /\ Git!AnsweredOrQuitStep
    BY <2>2 DEF HelpersTyped, Git!AnsweredOrQuitStep
  <2> QED
    BY <1>2, <2>2, <2>3, OthersKeep
<1>4. CASE Git!ThreadEnds
  <2>1. /\ WorkerStays /\ thread = "accept" /\ thread' = "ended" /\ conn' = conn /\ served' = served
        /\ backlog' = << >>
    BY <1>4 DEF Git!ThreadEnds, WorkerStays
  <2>2. \A h \in GitHelpers : /\ helper'[h] \in HelperRow
                           /\ helper'[h].asks = helper[h].asks /\ helper'[h].answer = helper[h].answer
                           /\ helper'[h].pc \in {helper[h].pc, "closed"}
    <3> SUFFICES ASSUME NEW h \in GitHelpers
                 PROVE  /\ helper'[h] \in HelperRow
                        /\ helper'[h].asks = helper[h].asks /\ helper'[h].answer = helper[h].answer
                        /\ helper'[h].pc \in {helper[h].pc, "closed"}
      OBVIOUS
    <3>1. helper[h] \in HelperRow
      BY <1>1
    <3>2. \/ helper'[h] = helper[h]
          \/ helper'[h] = [helper[h] EXCEPT !.pc = IF @ = "ended" THEN @ ELSE "closed"]
      BY <1>4 DEF Git!ThreadEnds
    <3> QED
      BY <3>1, <3>2 DEF HelperRow
  <2>3. helper' \in [GitHelpers -> HelperRow]
    BY <1>4, <2>2 DEF Git!ThreadEnds
  <2>4. HelpersTyped' /\ Git!AnsweredOrQuitStep
    BY <2>2, <2>3 DEF HelpersTyped, Git!AnsweredOrQuitStep
  <2> QED
    BY <1>1, <1>2, <2>1, <2>2, <2>4, OthersKeep
<1>5. CASE Git!Reply \/ Git!ReplyQuit
  <2>1. PICK answer \in {"token", "quit"} :
          /\ thread = "read" /\ Git!Answer(answer)
          /\ answer = "token" => helper[conn].asks = url
    BY <1>5 DEF Git!Reply, Git!ReplyQuit, Git!Matches
  <2>2. /\ WorkerStays /\ thread' = "accept" /\ conn' = Git!Nothing /\ served' = served /\ backlog' = backlog
    BY <2>1 DEF Git!Answer, WorkerStays
  <2>3. conn \in GitHelpers /\ url \in HttpsUrls /\ helper[conn] \in HelperRow
    BY <1>1, <2>1 DEF ThreadStarted
  <2>4. PICK row : row = [helper[conn] EXCEPT !.answer = IF @ = Git!Nothing THEN answer ELSE @,
                                              !.pc = IF @ = "ended" THEN @ ELSE "answered"]
    OBVIOUS
  <2>5. /\ row \in HelperRow /\ row.asks = helper[conn].asks /\ row.answer # Git!Nothing
        /\ row.answer = "token" => answer = "token" \/ helper[conn].answer = "token"
        /\ row.pc \in {"ended", "answered"}
    BY <2>3, <2>4 DEF HelperRow, Git!Nothing
  <2>6. helper' = [helper EXCEPT ![conn] = row]
    BY <1>1, <2>1, <2>3, <2>4 DEF Git!Answer
  <2>7. HelpersTyped' /\ Git!AnsweredOrQuitStep
    BY <1>1, <2>3, <2>5, <2>6 DEF HelpersTyped, Git!AnsweredOrQuitStep
  <2>8. \A h \in GitHelpers : helper'[h].answer = "token" => helper'[h].asks = url /\ url \in HttpsUrls
    BY <1>1, <1>2, <2>1, <2>3, <2>5, <2>6
  <2> QED
    BY <1>1, <2>1, <2>2, <2>7, <2>8, OthersKeep
<1> QED
  BY <1>3, <1>4, <1>5 DEF Git!Thread

\* A helper is started, connects, writes its request or ends.
LEMMA HelperSteps ==
  ASSUME Git!ConstantsOK, CredentialInv, NEW h \in GitHelpers,
         Git!Help(h) \/ \E u \in GitUrls : Git!HelperStarts(h, u)
  PROVE  StepKeeps
<1> USE DEF CredentialInv
<1>1. /\ thread \in {"none", "accept", "read", "ended"} /\ (thread = "read" <=> conn \in GitHelpers)
      /\ served \in 0 .. ConnectionLimit /\ backlog \in Seq(GitHelpers) /\ conn \in GitHelpers \cup {Git!Nothing}
      /\ helper \in [GitHelpers -> HelperRow] /\ helper[h] \in HelperRow
  BY DEF Git!TypeOK, SessionTyped, HelpersTyped
<1>2. \A i \in GitHelpers : helper[i].answer = "token" => helper[i].asks = url /\ url \in HttpsUrls
  BY DEF Git!TokenForItsRepository
<1>3. /\ WorkerStays /\ thread' = thread /\ conn' = conn /\ served' = served
      /\ backlog' = backlog \/ backlog' = Append(backlog, h)
  BY DEF Git!Help, Git!HelperIgnores, Git!Connect, Git!HelperWrites, Git!HelperEnds,
       Git!HelperStarts, Git!session, WorkerStays
<1>4. backlog' \in Seq(GitHelpers)
  BY <1>1, <1>3
<1>5. \E row \in HelperRow :
        /\ helper' = [helper EXCEPT ![h] = row] /\ row.pc # "none"
        /\ row.answer = "token" => helper[h].answer = "token" /\ row.asks = helper[h].asks
        /\ row.pc = "ended" => helper[h].pc = "asked" \/ row.answer # Git!Nothing
  <2>1. CASE \E u \in GitUrls : Git!HelperStarts(h, u)
    <3>1. PICK u \in GitUrls : Git!HelperStarts(h, u)
      BY <2>1
    <3>2. PICK row : row = [helper[h] EXCEPT !.pc = "asked", !.asks = u]
      OBVIOUS
    <3>3. row \in HelperRow /\ row.pc = "asked" /\ row.answer = helper[h].answer
      BY <1>1, <3>2 DEF HelperRow
    <3>4. helper[h].answer = Git!Nothing /\ helper' = [helper EXCEPT ![h] = row]
      BY <1>1, <3>1, <3>2 DEF Git!HelperStarts, HelpersTyped
    <3> QED
      BY <3>3, <3>4 DEF Git!Nothing
  <2>2. CASE Git!HelperIgnores(h) \/ Git!Connect(h) \/ Git!HelperWrites(h)
    <3>1. PICK s \in {"ended", "connected", "closed", "written"} :
            helper' = [helper EXCEPT ![h].pc = s] /\ (s = "ended" => helper[h].pc = "asked")
      BY <2>2 DEF Git!HelperIgnores, Git!Connect, Git!HelperWrites
    <3>2. PICK row : row = [helper[h] EXCEPT !.pc = s]
      OBVIOUS
    <3>3. row \in HelperRow /\ row.pc = s /\ row.answer = helper[h].answer /\ row.asks = helper[h].asks
      BY <1>1, <3>2 DEF HelperRow
    <3>4. helper' = [helper EXCEPT ![h] = row]
      BY <1>1, <3>1, <3>2
    <3> QED
      BY <3>1, <3>3, <3>4
  <2>3. CASE Git!HelperEnds(h)
    <3>1. PICK row : row = [helper[h] EXCEPT !.pc = "ended", !.answer = IF @ = Git!Nothing THEN "quit" ELSE @]
      OBVIOUS
    <3>2. /\ row \in HelperRow /\ row.pc = "ended" /\ row.answer # Git!Nothing /\ row.asks = helper[h].asks
          /\ row.answer = "token" => helper[h].answer = "token"
      BY <1>1, <3>1 DEF HelperRow, Git!Nothing
    <3>3. helper' = [helper EXCEPT ![h] = row]
      BY <1>1, <2>3, <3>1 DEF Git!HelperEnds
    <3> QED
      BY <3>2, <3>3
  <2> QED
    BY <2>1, <2>2, <2>3 DEF Git!Help
<1>6. PICK row \in HelperRow :
        /\ helper' = [helper EXCEPT ![h] = row] /\ row.pc # "none"
        /\ row.answer = "token" => helper[h].answer = "token" /\ row.asks = helper[h].asks
        /\ row.pc = "ended" => helper[h].pc = "asked" \/ row.answer # Git!Nothing
  BY <1>5
<1>7. HelpersTyped' /\ Git!AnsweredOrQuitStep
  BY <1>1, <1>6 DEF HelpersTyped, Git!AnsweredOrQuitStep
<1>8. \A i \in GitHelpers : helper'[i].answer = "token" => helper'[i].asks = url /\ url \in HttpsUrls
  BY <1>1, <1>2, <1>6
<1> QED
  BY <1>1, <1>3, <1>4, <1>7, <1>8, OthersKeep

\* Every step keeps the credential.
LEMMA CredentialStep ==
  ASSUME Git!ConstantsOK, CredentialInv, [Git!Next]_(Git!vars)
  PROVE  StepKeeps
<1>1. CASE Git!Worker \/ Git!Projected \/ \E u \in GitUrls : Git!Reconfigure(u)
  BY <1>1, WorkerSteps
<1>2. CASE Git!Thread
  BY <1>2, ThreadSteps
<1>3. CASE \E h \in GitHelpers : Git!Help(h) \/ \E u \in GitUrls : Git!HelperStarts(h, u)
  BY <1>3, HelperSteps
<1>4. CASE UNCHANGED Git!vars
  <2>1. UNCHANGED <<url, token, op, rewritten, effective, git_child, contacts, stop, thread, conn, served,
                    backlog, helper>>
    BY <1>4 DEF Git!vars
  <2>2. Git!TypeOK' /\ SessionTyped' /\ HelpersTyped' /\ Git!TokenForItsRepository'
    BY <2>1 DEF CredentialInv, Git!TypeOK, SessionTyped, HelpersTyped, Git!TokenForItsRepository
  <2>3. ThreadStarted' /\ ChildReaped' /\ Checked' /\ Git!AnsweredOrQuitStep
    BY <2>1 DEF CredentialInv, ThreadStarted, ChildReaped, Checked, Git!AnsweredOrQuitStep
  <2> QED
    BY <2>2, <2>3 DEF CredentialInv, StepKeeps
<1> QED
  BY <1>1, <1>2, <1>3, <1>4 DEF Git!Next, Git!Ended

\* The inductive invariant holds in every state.
LEMMA CredentialAlways ==
  ASSUME Git!ConstantsOK
  PROVE  Git!Spec => []CredentialInv
<1>1. CredentialInv /\ [Git!Next]_(Git!vars) => CredentialInv'
  BY CredentialStep DEF StepKeeps
<1> QED
  BY <1>1, CredentialInitial, PTL DEF Git!Spec

\* For any set of URLs and any number of helpers and connections: a helper is given the
\* token only for the repository the operation was started for, Git contacts the URL that
\* was projected and validated even when the configuration is rewritten in between, and
\* neither the thread nor the projection's process outlives the operation
\* (GitCredentialOperation, Session).
THEOREM TokenIsSafe == Git!ConstantsOK => (Git!Spec => []Git!CredentialSafe)
<1> SUFFICES ASSUME Git!ConstantsOK
             PROVE  Git!Spec => []Git!CredentialSafe
  OBVIOUS
<1> QED
  BY CredentialAlways, CredentialImplied, PTL

\* And a helper that was asked for a credential ends having given Git the token or told it to
\* quit, whatever became of its connection (run_git_credential_helper).
THEOREM HelpersAnswer == Git!ConstantsOK => (Git!Spec => Git!AnsweredOrQuit)
<1> SUFFICES ASSUME Git!ConstantsOK
             PROVE  Git!Spec => Git!AnsweredOrQuit
  OBVIOUS
<1>1. CredentialInv /\ [Git!Next]_(Git!vars) => [Git!AnsweredOrQuitStep]_(Git!vars)
  BY CredentialStep DEF StepKeeps
<1> QED
  BY <1>1, CredentialAlways, PTL DEF Git!Spec, Git!AnsweredOrQuit

(***************************************************************************)
(* The components together                                                  *)
(***************************************************************************)
\* What leaves a component's variables alone leaves its state alone.
LEMMA SameWorkerState ==
  /\ UNCHANGED brokerVars => UNCHANGED Broker!vars
  /\ UNCHANGED sessionVars => UNCHANGED Session!vars
  /\ UNCHANGED cacheVars => UNCHANGED Cache!vars
  /\ UNCHANGED fanoutVars => UNCHANGED Fanout!vars
  /\ UNCHANGED networkVars => UNCHANGED Network!vars
  /\ UNCHANGED gitVars => UNCHANGED Git!vars
<1>1. UNCHANGED brokerVars => UNCHANGED Broker!vars
  BY DEF brokerVars, Broker!vars, Broker!counters, Broker!security, Broker!session, Broker!history
<1>2. UNCHANGED sessionVars => UNCHANGED Session!vars
  BY DEF sessionVars, Session!vars
<1>3. UNCHANGED cacheVars => UNCHANGED Cache!vars
  BY DEF cacheVars, Cache!vars, Cache!task
<1>4. UNCHANGED fanoutVars => UNCHANGED Fanout!vars
  BY DEF fanoutVars, Fanout!vars
<1>5. UNCHANGED networkVars => UNCHANGED Network!vars
  BY DEF networkVars, Network!vars
<1>6. UNCHANGED gitVars => UNCHANGED Git!vars
  BY DEF gitVars, Git!vars
<1> QED
  BY <1>1, <1>2, <1>3, <1>4, <1>5, <1>6

\* A step of the worker's modules is a step of each of them or leaves it alone.
LEMMA WorkerStep ==
  ASSUME [RunNext \/ Rest]_runVars
  PROVE  /\ [Broker!Next]_(Broker!vars) /\ [Session!Next]_(Session!vars)
         /\ [Cache!Next]_(Cache!vars) /\ [Fanout!Next]_(Fanout!vars)
         /\ [Network!Next]_(Network!vars) /\ [Git!Next]_(Git!vars)
<1>1. CASE UNCHANGED runVars
  <2>1. /\ UNCHANGED brokerVars /\ UNCHANGED sessionVars /\ UNCHANGED cacheVars
        /\ UNCHANGED fanoutVars /\ UNCHANGED networkVars /\ UNCHANGED gitVars
    BY <1>1 DEF runVars
  <2> QED
    BY <2>1, SameWorkerState
<1>2. ASSUME NEW p \in {"job", "broker", "cache", "session", "network", "discovery", "fanout", "git"},
             Others(p)
      PROVE  /\ p # "broker" => UNCHANGED Broker!vars
             /\ p # "session" => UNCHANGED Session!vars
             /\ p # "cache" => UNCHANGED Cache!vars
             /\ p # "fanout" => UNCHANGED Fanout!vars
             /\ p # "network" => UNCHANGED Network!vars
             /\ p # "git" => UNCHANGED Git!vars
  BY <1>2, SameWorkerState DEF Others
<1> QED
  BY <1>1, <1>2 DEF RunNext, Rest

\* Whichever component runs beside the others, each one's state goes through a behaviour of
\* its own specification.
THEOREM WorkerComposes ==
  RunSpec => /\ Broker!Spec /\ Session!Spec /\ Cache!Spec
             /\ Fanout!Spec /\ Network!Spec /\ Git!Spec
<1>1. RunInit => /\ Broker!Init /\ Session!Init /\ Cache!Init
                 /\ Fanout!Init /\ Network!Init /\ Git!Init
  BY DEF RunInit
<1>2. [RunNext \/ Rest]_runVars => /\ [Broker!Next]_(Broker!vars) /\ [Session!Next]_(Session!vars)
                                   /\ [Cache!Next]_(Cache!vars) /\ [Fanout!Next]_(Fanout!vars)
                                   /\ [Network!Next]_(Network!vars) /\ [Git!Next]_(Git!vars)
  BY WorkerStep
<1> QED
  BY <1>1, <1>2, PTL DEF RunSpec, Broker!Spec, Session!Spec, Cache!Spec, Fanout!Spec,
                         Network!Spec, Git!Spec

\* The connections of a broker session keep its ceilings and its secret (model_broker.rs), for
\* any number of connections and any ceilings.
THEOREM WorkerCeilings == Broker!ConstantsOK => (RunSpec => []CeilingsHold)
BY WorkerComposes, CeilingsKept, PTL DEF CeilingsHold

\* What an agent was told is accepted is what the server gets (mcp.rs and the agent runners),
\* for any set of findings and patches.
THEOREM WorkerVerdicts == Session!ConstantsOK => (RunSpec => []VerdictsDelivered)
BY WorkerComposes, VerdictsAreDelivered, PTL DEF VerdictsDelivered

\* A clone is refreshed by one job at a time and pinned as often as it is used
\* (repo_cache.rs), for any number of jobs and repositories.
THEOREM WorkerClones == Cache!ConstantsOK => (RunSpec => []CacheSound)
BY WorkerComposes, PinsAreExact, PTL DEF CacheSound

\* The sessions of a scan keep to their bound and decide its answer, for any number of files
\* and any bound a lease may carry.
THEOREM WorkerScans == Fanout!ConstantsOK => (RunSpec => []FanoutSound)
BY WorkerComposes, FanoutIsSound, PTL DEF FanoutSound

\* A sandboxed command runs behind the whole filter and no helper outlives it, whatever fails.
THEOREM WorkerNetwork == RunSpec => []NetworkSound
BY WorkerComposes, NetworkIsSound, PTL DEF NetworkSound

\* A job's token is told for its own repository only and ends with the operation, for any
\* number of helpers and any set of URLs.
THEOREM WorkerTokens == Git!ConstantsOK => (RunSpec => []CredentialSafe)
BY WorkerComposes, TokenIsSafe, PTL DEF CredentialSafe

\* No child of the worker is left to itself: nothing is sent in the name of a run that has
\* returned, and no credential helper ends without an answer while Git waits for one.
THEOREM WorkerChildren ==
  Session!ConstantsOK /\ Git!ConstantsOK => (RunSpec => ChildrenAccounted)
<1> SUFFICES ASSUME Session!ConstantsOK, Git!ConstantsOK
             PROVE  RunSpec => ChildrenAccounted
  OBVIOUS
<1>1. Session!vars = sessionVars /\ Git!vars = gitVars
  BY DEF Session!vars, sessionVars, Git!vars, gitVars
<1> QED
  BY <1>1, WorkerComposes, ReturnIsFinal, HelpersAnswer, PTL
     DEF ChildrenAccounted, NothingAfterReturn, AnsweredOrQuit, Session!NothingAfterReturn,
         Git!AnsweredOrQuit, Session!vars, sessionVars, Git!vars, gitVars

=============================================================================
