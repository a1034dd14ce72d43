-------------------------- MODULE TaskDelivery_proofs --------------------------
(***************************************************************************)
(* The gateway implements TaskDelivery: for any number of agents, tasks    *)
(* and concurrent tool calls, with Redis failures and restarts, every step *)
(* moves each task along TaskDelivery's moves or leaves it where it is.    *)
(***************************************************************************)
EXTENDS TaskGateway_proofs

-------------------------------------------------------------------------------
(* What is skipped stays out of reach.                                     *)

\* A channel receives well-formed entries only, one at a time, and the cursor only
\* ever moves to an entry of the stream.
LEMMA SkipNext == ASSUME TypeOK, OneWay, SkipInv, [Next]_vars PROVE SkipInv'
<1> USE TransportAssumption DEF SkipInv, Agents
<1>t. TransportTypeOK /\ handed \in [Agents -> SUBSET Ids]
  BY DEF TypeOK
<1>f. ASSUME UNCHANGED <<stream, cursor, chan, handed>> PROVE SkipInv'
  BY <1>f
<1>g. ASSUME NEW t \in Topics, CreateGroup(t), UNCHANGED handed,
             \A s \in Subscribers : chan'[s] \in {chan[s], NoId}
      PROVE  SkipInv'
  <2>1. cursor'[t] \in stream'[t] \cup {NoGroup, 0} /\ stream' = stream
        /\ \A a \in Topics \ {t} : cursor'[a] = cursor[a]
    BY <1>g, <1>t DEF CreateGroup, TransportTypeOK
  <2>2. \A s \in Subscribers : NoId \notin Malformed[TopicOf[s]]
    BY DEF NoId, Ids
  <2>3. QED
    BY <1>g, <2>1, <2>2
<1>c. ASSUME NEW t \in Topics, NEW B \in NextBatches(t), Claim(t, B), UNCHANGED <<chan, handed>>
      PROVE  SkipInv'
  <2>1. cursor'[t] \in B /\ stream' = stream /\ \A a \in Topics \ {t} : cursor'[a] = cursor[a]
    BY <1>c, <1>t DEF Claim, TransportTypeOK
  <2>2. B \subseteq stream[t]
    BY DEF NextBatches, Undelivered
  <2>3. QED
    BY <1>c, <2>1, <2>2
<1>1. ASSUME NEW a \in Agents, NEW i \in Ids, Enqueue(a, i) PROVE SkipInv'
  BY <1>1, <1>t DEF Enqueue, Add, readerVars, gatewayVars, TransportTypeOK
<1>2. ASSUME NEW s \in Subscribers, SubscribeStep(s) PROVE SkipInv'
  <2>1. CASE Subscribe(s)
    BY <1>2, <2>1, <1>g, <1>t DEF SubscribeStep, Subscribe, TransportTypeOK
  <2>2. CASE SubscribeFails(s)
    BY <1>2, <2>2, <1>f, <1>g DEF SubscribeStep, SubscribeFails, readerVars, redisVars
  <2>3. QED
    BY <1>2, <2>1, <2>2 DEF SubscribeStep
<1>3. ASSUME NEW s \in Subscribers, ReturnTask(s) PROVE SkipInv'
  <2>1. UNCHANGED <<stream, cursor>> /\ chan' = [chan EXCEPT ![s] = NoId]
        /\ handed' = [handed EXCEPT ![TopicOf[s]] = @ \cup {chan[s]}]
    BY <1>3 DEF ReturnTask, TakeFrom, redisVars
  <2>2. \A u \in Subscribers : chan'[u] \in {chan[u], NoId} /\ NoId \notin Malformed[TopicOf[u]]
    BY <2>1, <1>t DEF NoId, Ids, TransportTypeOK
  <2>3. \A a \in Agents : handed'[a] \cap Malformed[a] = {}
    BY <2>1, <1>t
  <2>4. QED
    BY <2>1, <2>2, <2>3
<1>4. ASSUME NEW s \in Subscribers, Reader(s) PROVE SkipInv'
  <2>1. CASE Poll(s) \/ ReadNothing(s) \/ ReadCancelled(s)
    BY <1>4, <2>1, <1>f DEF Reader, gatewayVars, Poll, ReadNothing, ReadCancelled, redisVars
  <2>2. CASE ReadBatch(s)
    BY <1>4, <2>2, <1>c DEF Reader, gatewayVars, ReadBatch
  <2>3. CASE ReadFails(s)
    BY <1>4, <2>3, <1>c, <1>f DEF Reader, gatewayVars, ReadFails, redisVars
  <2>4. ASSUME NEW i \in batch[s], EmitMalformed(s, i) \/ EmitAbandon(s, i) PROVE SkipInv'
    BY <1>4, <2>4, <1>f DEF Reader, gatewayVars, EmitMalformed, EmitAbandon, redisVars
  <2>5. ASSUME NEW i \in batch[s], EmitSend(s, i) PROVE SkipInv'
    BY <1>4, <2>5, <1>t DEF Reader, gatewayVars, EmitSend, redisVars, TransportTypeOK
  <2>6. QED
    BY <1>4, <2>1, <2>2, <2>3, <2>4, <2>5 DEF Reader, ReaderStep
<1>5. CASE Restart
  <2>1. \A s \in Subscribers : NoId \notin Malformed[TopicOf[s]]
    BY DEF NoId, Ids
  <2>2. QED
    BY <1>5, <2>1 DEF Restart, Vanish, redisVars
<1>6. CASE \/ \E s \in Subscribers : StartGet(s) \/ ReturnEmpty(s) \/ CancelRequest(s)
           \/ \E r \in Reporters, a \in Agents, k \in Kinds, i \in Ids : LoadAndDelete(r, a, k, i)
           \/ \E r \in Reporters : ReportStep(r)
           \/ \E i \in Ids : Age(i)
           \/ Evict
           \/ UNCHANGED vars
  BY <1>6, <1>f
  DEF StartGet, OpenRequest, ReturnEmpty, CancelRequest, Cancel, LoadAndDelete, ReportStep,
      PublishRetried, Publish, PublishFails, AckTask, AckFails, Ack, Age, Evict, vars,
      gatewayVars, transportVars, redisVars, readerVars
<1>7. QED
  BY <1>1, <1>2, <1>3, <1>4, <1>5, <1>6 DEF Next

\* Hence it always holds.
LEMMA SkipInvariant == ASSUME DistinctIds PROVE Spec => []SkipInv
<1>1. Init => SkipInv
  <2> SUFFICES ASSUME Init PROVE SkipInv
    OBVIOUS
  <2>1. \A s \in Subscribers : NoId \notin Malformed[TopicOf[s]]
    BY TransportAssumption DEF NoId, Ids
  <2>2. QED
    BY <2>1 DEF Init, TransportInit, SkipInv, Agents
<1>2. TypeOK /\ OneWay /\ SkipInv /\ [Next]_vars => SkipInv'
  BY SkipNext
<1>3. QED
  BY <1>1, <1>2, TypeCorrect, TasksMoveOneWay, PTL DEF Spec

-------------------------------------------------------------------------------
(* One task: what the invariants say of its stage.                         *)

Moved(a, i) ==
  \/ StageOf(a, i)' = StageOf(a, i)
  \/ <<StageOf(a, i), StageOf(a, i)'>> \in Delivery!Moves

InReport(i) == \E r \in Reporters : report[r] # Idle /\ report[r].id = i

InCall(a, i) == \E s \in Subscribers : TopicOf[s] = a /\ i \in InTransit(s)

\* All that the invariants say of a task i of agent a.
Placed(a, i) ==
  /\ i \in pel[a] \cup handed[a] => i \in stream[a] /\ PastCursor(a, i)
  /\ i \in handed[a] => i \notin Malformed[a]
  /\ Reported(i) => i \in handed[a]
  /\ pending[i] # NoAgent =>
       /\ pending[i] = a /\ i \in handed[a] /\ i \in pel[a]
       /\ ~Reported(i) /\ ~InReport(i) /\ ~InCall(a, i)
  /\ InReport(i) => i \in handed[a] /\ ~InCall(a, i)
  /\ \A s \in Subscribers : i \in Carried(s) =>
       TopicOf[s] = a /\ i \in pel[a] \ handed[a]
  /\ \A r \in Reporters : report[r] # Idle /\ report[r].id = i =>
       /\ report[r].topic = a /\ i \in handed[a] /\ pending[i] = NoAgent
       /\ report[r].at = "taken" => i \in pel[a]
       /\ report[r].at = "published" => Reported(i)
       /\ \A q \in Reporters \ {r} : report[q] # Idle => report[q].id # i

\* An id belongs to one stream, so all that holds it holds it for that stream's agent.
LEMMA TaskIsPlaced ==
  ASSUME DistinctIds, TypeOK, OneWay, SkipInv, NEW a \in Agents, NEW i \in IdsOf[a]
  PROVE  Placed(a, i)
<1> USE TransportAssumption, GatewayAssumption DEF Agents
<1>i. ClaimInv /\ CarryInv /\ PendingIsOpen /\ ReportInv /\ ResultInv
  BY DEF OneWay
<1>1. \A b \in Agents : i \in pel[b] \cup handed[b] => b = a /\ i \in stream[a] /\ PastCursor(a, i)
  BY <1>i DEF ClaimInv, DistinctIds
<1>2. i \in handed[a] => i \notin Malformed[a]
  BY DEF SkipInv
<1>3. Reported(i) => i \in handed[a]
  <2>1. i \in Ids
    BY DEF Ids
  <2>2. QED
    BY <2>1, <1>1, <1>i DEF ResultInv
<1>4. \A s \in Subscribers : i \in Carried(s) => TopicOf[s] = a /\ i \in pel[a] \ handed[a]
  <2> SUFFICES ASSUME NEW s \in Subscribers, i \in Carried(s)
               PROVE  TopicOf[s] = a /\ i \in pel[a] \ handed[a]
    OBVIOUS
  <2>1. TopicOf[s] \in Agents /\ i \in pel[TopicOf[s]] \ handed[TopicOf[s]]
    BY <1>i DEF CarryInv
  <2>2. QED
    BY <2>1, <1>1
<1>5. i \in handed[a] => ~InCall(a, i)
  BY <1>4 DEF InCall, InTransit, Carried
<1>6. \A r \in Reporters : report[r] # Idle /\ report[r].id = i =>
        /\ report[r].topic = a /\ i \in handed[a] /\ pending[i] = NoAgent
        /\ report[r].at = "taken" => i \in pel[a]
        /\ report[r].at = "published" => Reported(i)
        /\ \A q \in Reporters \ {r} : report[q] # Idle => report[q].id # i
  <2> SUFFICES ASSUME NEW r \in Reporters, report[r] # Idle, report[r].id = i
               PROVE  /\ report[r].topic = a /\ i \in handed[a] /\ pending[i] = NoAgent
                      /\ report[r].at = "taken" => i \in pel[a]
                      /\ report[r].at = "published" => Reported(i)
                      /\ \A q \in Reporters \ {r} : report[q] # Idle => report[q].id # i
    OBVIOUS
  <2>1. report[r].topic \in Agents /\ i \in handed[report[r].topic]
    BY <1>i DEF ReportInv, TypeOK, Reporting
  <2>2. report[r].topic = a
    BY <2>1, <1>1
  <2>3. QED
    BY <2>1, <2>2, <1>i DEF ReportInv
<1>7. InReport(i) => i \in handed[a] /\ ~InCall(a, i) /\ pending[i] = NoAgent
  BY <1>5, <1>6 DEF InReport
<1>8. pending[i] # NoAgent =>
        pending[i] = a /\ i \in handed[a] /\ i \in pel[a] /\ ~Reported(i)
  <2> SUFFICES ASSUME pending[i] # NoAgent
               PROVE  pending[i] = a /\ i \in handed[a] /\ i \in pel[a] /\ ~Reported(i)
    OBVIOUS
  <2>1. i \in Ids
    BY DEF Ids
  <2>2. pending[i] \in Agents /\ i \in handed[pending[i]] /\ i \in pel[pending[i]] /\ ~Reported(i)
    BY <2>1, <1>i DEF PendingIsOpen, TypeOK
  <2>3. QED
    BY <2>2, <1>1
<1>9. QED
  BY <1>1, <1>2, <1>3, <1>4, <1>5, <1>6, <1>7, <1>8 DEF Placed

\* A task whose entry is left alone, and that at most loses its holder, stays in its
\* stage or is stranded.
LEMMA OnlyStranded ==
  ASSUME NEW a \in Agents, NEW i \in IdsOf[a], Placed(a, i),
         i \in stream'[a] <=> i \in stream[a],
         i \in stream[a] => (PastCursor(a, i)' <=> PastCursor(a, i)),
         i \in pel'[a] <=> i \in pel[a],
         Reported(i)' <=> Reported(i),
         pending'[i] \in {pending[i], NoAgent},
         InReport(i)' => InReport(i),
         InCall(a, i)' => InCall(a, i)
  PROVE  Moved(a, i)
<1>1. pending[i] = a => ~InReport(i) /\ ~InCall(a, i)
  BY GatewayAssumption DEF Placed
<1>2. InReport(i) => ~InCall(a, i)
  BY DEF Placed
<1>3. pending'[i] = a => pending[i] = a
  BY GatewayAssumption
<1>4. QED
  BY <1>1, <1>2, <1>3
  DEF Moved, StageOf, InReport, InCall, Delivery!Moves

-------------------------------------------------------------------------------
(* How each operation moves one task.                                      *)

\* What one call does with its batch and channel is the business of that call.
LEMMA OneCallMoves ==
  ASSUME NEW a \in Agents, NEW i, NEW s \in Subscribers,
         \A u \in Subscribers \ {s} : InTransit(u)' = InTransit(u),
         i \in InTransit(s)' => i \in InTransit(s)
  PROVE  InCall(a, i)' => InCall(a, i)
BY DEF InCall

\* XADD queues its entry: the ids ascend, so it lies before the group's cursor.
LEMMA EnqueueMoves ==
  ASSUME TypeOK, SkipInv, NEW a \in Agents, NEW i \in IdsOf[a], Placed(a, i),
         NEW b \in Agents, NEW j \in Ids, Enqueue(b, j)
  PROVE  Moved(a, i)
<1> USE TransportAssumption DEF Agents
<1>1. /\ stream' = [stream EXCEPT ![b] = @ \cup {j}] /\ j \in IdsOf[b]
      /\ \A k \in stream[b] : k < j
      /\ UNCHANGED <<cursor, pel, readerVars, gatewayVars>>
  BY DEF Enqueue, Add
<1>2. InReport(i)' = InReport(i) /\ InCall(a, i)' = InCall(a, i) /\ Reported(i)' = Reported(i)
  BY <1>1 DEF InReport, InCall, InTransit, Reported, gatewayVars, readerVars
<1>3. CASE a = b /\ i = j
  <2>1. i \notin stream[a] /\ i \in stream'[a]
    BY <1>1, <1>3 DEF TypeOK, TransportTypeOK, Ids
  <2>2. ~PastCursor(a, i)'
    <3>1. cursor[a] \in stream[a] \cup {NoGroup, 0} /\ i \in Nat \ {0} /\ stream[a] \subseteq Nat
      BY DEF SkipInv, TypeOK, TransportTypeOK, Ids
    <3>2. cursor[a] = NoGroup \/ cursor[a] < i
      BY <3>1, <1>1, <1>3
    <3>3. QED
      BY <3>1, <3>2, <1>1 DEF PastCursor, NoGroup
  <2>3. QED
    BY <2>1, <2>2 DEF Moved, StageOf, Delivery!Moves
<1>4. CASE ~(a = b /\ i = j)
  <2>1. i \in stream'[a] <=> i \in stream[a]
    BY <1>1, <1>4 DEF TypeOK, TransportTypeOK
  <2>2. QED
    BY <2>1, <1>1, <1>2, OnlyStranded DEF PastCursor, gatewayVars
<1>5. QED
  BY <1>3, <1>4

\* A group that is created skips what is in the stream, and only that.
LEMMA CreateGroupMoves ==
  ASSUME TypeOK, NEW a \in Agents, NEW i \in IdsOf[a], Placed(a, i),
         NEW t \in Topics, CreateGroup(t), UNCHANGED <<pending, report, results>>,
         InCall(a, i)' => InCall(a, i)
  PROVE  Moved(a, i)
<1> USE TransportAssumption DEF Agents
<1>1. PICK newest \in stream[t] \cup {0} :
        /\ \A j \in stream[t] : j <= newest
        /\ cursor' = [cursor EXCEPT ![t] = IF @ = NoGroup THEN newest ELSE @]
  BY DEF CreateGroup
<1>2. UNCHANGED <<stream, pel>>
  BY DEF CreateGroup
<1>3. InReport(i)' = InReport(i) /\ Reported(i)' = Reported(i)
  BY DEF InReport, Reported
<1>4. CASE a = t /\ cursor[t] = NoGroup /\ i \in stream[a]
  <2>1. ~PastCursor(a, i) /\ i \notin pel[a] /\ ~Reported(i)
    BY <1>4 DEF PastCursor, Placed
  <2>2. PastCursor(a, i)'
    <3>1. newest # NoGroup
      BY DEF NoGroup, TypeOK, TransportTypeOK, Ids
    <3>2. cursor'[t] = newest
      BY <1>1, <1>4 DEF TypeOK, TransportTypeOK
    <3>3. QED
      BY <3>1, <3>2, <1>1, <1>4 DEF PastCursor
  <2>3. QED
    BY <2>1, <2>2, <1>2, <1>3, <1>4 DEF Moved, StageOf, Delivery!Moves
<1>5. CASE ~(a = t /\ cursor[t] = NoGroup /\ i \in stream[a])
  <2>1. i \in stream[a] => (PastCursor(a, i)' <=> PastCursor(a, i))
    BY <1>1, <1>5 DEF PastCursor, TypeOK, TransportTypeOK
  <2>2. QED
    BY <2>1, <1>2, <1>3, OnlyStranded
<1>6. QED
  BY <1>4, <1>5

\* What one XREADGROUP hands out was queued; what it leaves stays queued, for the
\* batch is the oldest there is.
LEMMA ClaimMoves ==
  ASSUME TypeOK, NEW a \in Agents, NEW i \in IdsOf[a], Placed(a, i), DistinctIds, ClaimInv,
         NEW t \in Topics, NEW B \in NextBatches(t), Claim(t, B),
         UNCHANGED <<pending, report, results>>,
         i \in B \/ (InCall(a, i)' => InCall(a, i))
  PROVE  Moved(a, i)
<1> USE TransportAssumption DEF Agents
<1>1. PICK last \in B : (\A j \in B : j <= last) /\ cursor' = [cursor EXCEPT ![t] = last]
  BY DEF Claim
<1>2. stream' = stream /\ pel' = [pel EXCEPT ![t] = @ \cup B]
  BY DEF Claim
<1>3. InReport(i)' = InReport(i) /\ Reported(i)' = Reported(i)
  BY DEF InReport, Reported
<1>4. /\ B \subseteq stream[t] /\ stream[t] \subseteq IdsOf[t] /\ stream[t] \subseteq Nat \ {0}
      /\ cursor[t] # NoGroup /\ cursor[t] \in Int
      /\ \A j \in B : j > cursor[t]
      /\ \A j \in B, k \in Undelivered(t) \ B : j < k
  BY DEF NextBatches, Undelivered, ClaimInv, TypeOK, TransportTypeOK, Ids
<1>5. cursor'[t] = last /\ last # NoGroup /\ last > cursor[t]
  BY <1>1, <1>4 DEF TypeOK, TransportTypeOK, NoGroup
<1>6. CASE i \in B
  <2>1. a = t
    BY <1>4, <1>6 DEF DistinctIds
  <2>2. ~PastCursor(a, i) /\ i \in stream[a]
    BY <2>1, <1>4, <1>6 DEF PastCursor
  <2>3. PastCursor(a, i)'
    BY <2>1, <1>1, <1>5, <1>6 DEF PastCursor
  <2>4. i \notin handed[a] /\ ~Reported(i) /\ pending[i] # a /\ ~InReport(i)
    BY <2>2, GatewayAssumption DEF Placed
  <2>5. QED
    BY <2>2, <2>3, <2>4, <1>2, <1>3 DEF Moved, StageOf, InReport, InCall, Delivery!Moves
<1>7. CASE i \notin B
  <2>1. i \in pel'[a] <=> i \in pel[a]
    BY <1>2, <1>7 DEF TypeOK, TransportTypeOK
  <2>2. ASSUME i \in stream[a] PROVE PastCursor(a, i)' <=> PastCursor(a, i)
    <3>1. CASE a # t
      BY <3>1, <1>1 DEF PastCursor, TypeOK, TransportTypeOK
    <3>2. CASE a = t /\ PastCursor(a, i)
      BY <3>2, <1>4, <1>5 DEF PastCursor, TypeOK, TransportTypeOK, Ids
    <3>3. CASE a = t /\ ~PastCursor(a, i)
      <4>1. i \in Undelivered(t) \ B
        BY <2>2, <3>3, <1>4, <1>7 DEF PastCursor, Undelivered
      <4>2. last < i /\ last \in Int /\ i \in Int
        BY <4>1, <1>4
      <4>3. QED
        BY <4>2, <3>3, <1>5 DEF PastCursor
    <3>4. QED
      BY <3>1, <3>2, <3>3
  <2>3. QED
    BY <2>1, <2>2, <1>2, <1>3, <1>7, OnlyStranded
<1>8. QED
  BY <1>6, <1>7

\* Subscribing may create the group; the call that begins to wait has nothing yet.
LEMMA SubscribeMoves ==
  ASSUME TypeOK, OneWay, NEW a \in Agents, NEW i \in IdsOf[a], Placed(a, i),
         NEW s \in Subscribers, SubscribeStep(s)
  PROVE  Moved(a, i)
<1> USE TransportAssumption DEF Agents
<1>t. /\ call \in [Subscribers -> {"idle", "admitted", "waiting"}]
      /\ chan \in [Subscribers -> Ids \cup {NoId}] /\ batch \in [Subscribers -> SUBSET Ids]
  BY DEF TypeOK, TransportTypeOK
<1>1. UNCHANGED <<pending, report, results>> /\ call[s] = "admitted"
  BY DEF SubscribeStep
<1>2. CASE Subscribe(s) /\ call' = [call EXCEPT ![s] = "waiting"]
  <2>1. CreateGroup(TopicOf[s])
    BY <1>2 DEF Subscribe
  <2>2. \A u \in Subscribers \ {s} : InTransit(u)' = InTransit(u)
    BY <1>2, <1>t DEF Subscribe, InTransit
  <2>3. InTransit(s)' = {}
    BY <1>2, <1>t DEF Subscribe, InTransit
  <2>4. InCall(a, i)' => InCall(a, i)
    BY <2>2, <2>3, OneCallMoves
  <2>5. QED
    BY <1>1, <2>1, <2>4, CreateGroupMoves
<1>3. CASE SubscribeFails(s) /\ call' = [call EXCEPT ![s] = "idle"]
  <2>1. \A u \in Subscribers : InTransit(u)' = InTransit(u)
    BY <1>1, <1>3, <1>t DEF SubscribeFails, InTransit, readerVars
  <2>2. InCall(a, i)' => InCall(a, i)
    BY <2>1 DEF InCall
  <2>3. CASE CreateGroup(TopicOf[s])
    BY <1>1, <2>2, <2>3, CreateGroupMoves
  <2>4. CASE UNCHANGED redisVars
    <3>1. InReport(i)' = InReport(i) /\ Reported(i)' = Reported(i)
      BY <1>1 DEF InReport, Reported
    <3>2. QED
      BY <1>1, <2>2, <2>4, <3>1, OnlyStranded DEF redisVars, PastCursor
  <2>5. QED
    BY <1>3, <2>3, <2>4 DEF SubscribeFails
<1>4. QED
  BY <1>2, <1>3 DEF SubscribeStep

\* get_task records the one task it returns; the rest of its batch is stranded.
LEMMA ReturnTaskMoves ==
  ASSUME DistinctIds, TypeOK, OneWay, SkipInv, NEW a \in Agents, NEW i \in IdsOf[a], Placed(a, i),
         NEW s \in Subscribers, ReturnTask(s)
  PROVE  Moved(a, i)
<1> USE TransportAssumption, GatewayAssumption DEF Agents
<1>t. /\ call \in [Subscribers -> {"idle", "admitted", "waiting"}]
      /\ chan \in [Subscribers -> Ids \cup {NoId}] /\ batch \in [Subscribers -> SUBSET Ids]
      /\ pending \in [Ids -> Agents \cup {NoAgent}]
  BY DEF TypeOK, TransportTypeOK
<1>1. /\ call[s] = "waiting" /\ chan[s] # NoId /\ call' = [call EXCEPT ![s] = "idle"]
      /\ pending' = [pending EXCEPT ![chan[s]] = TopicOf[s]]
      /\ chan' = [chan EXCEPT ![s] = NoId]
      /\ UNCHANGED <<stream, cursor, pel, batch, report, results>>
  BY DEF ReturnTask, TakeFrom, Store, redisVars
<1>2. InReport(i)' = InReport(i) /\ Reported(i)' = Reported(i) /\ PastCursor(a, i)' = PastCursor(a, i)
  BY <1>1 DEF InReport, Reported, PastCursor
<1>3. InCall(a, i)' => InCall(a, i)
  <2>1. \A u \in Subscribers \ {s} : InTransit(u)' = InTransit(u)
    BY <1>1, <1>t DEF InTransit
  <2>2. InTransit(s)' = {}
    BY <1>1, <1>t DEF InTransit
  <2>3. QED
    BY <2>1, <2>2, OneCallMoves
<1>4. CASE chan[s] = i
  <2>1. i \in Carried(s) /\ i \in InTransit(s)
    BY <1>1, <1>4 DEF Carried, InTransit
  <2>2. TopicOf[s] = a /\ i \in pel[a] \ handed[a]
    BY <2>1 DEF Placed
  <2>3. /\ i \in stream[a] /\ PastCursor(a, i) /\ ~Reported(i) /\ i \notin Malformed[a]
        /\ pending[i] # a /\ ~InReport(i)
    BY <2>2, <1>4 DEF Placed, SkipInv
  <2>4. InCall(a, i)
    BY <2>1, <2>2 DEF InCall
  <2>5. StageOf(a, i) = "claimed"
    BY <2>2, <2>3, <2>4 DEF StageOf, InReport, InCall
  <2>6. pending'[i] = a
    BY <1>1, <1>4, <1>t, <2>2 DEF Ids
  <2>7. StageOf(a, i)' = "held"
    BY <2>2, <2>3, <2>6, <1>1, <1>2 DEF StageOf
  <2>8. QED
    BY <2>5, <2>7 DEF Moved, Delivery!Moves
<1>5. CASE chan[s] # i
  <2>1. pending'[i] = pending[i]
    BY <1>1, <1>5, <1>t DEF Ids
  <2>2. QED
    BY <2>1, <1>1, <1>2, <1>3, OnlyStranded
<1>6. QED
  BY <1>4, <1>5

\* The reader goroutine claims what is queued, and acknowledges malformed entries
\* only; what it gives up is stranded.
LEMMA ReaderMoves ==
  ASSUME DistinctIds, TypeOK, OneWay, NEW a \in Agents, NEW i \in IdsOf[a], Placed(a, i),
         NEW s \in Subscribers, Reader(s)
  PROVE  Moved(a, i)
<1> USE TransportAssumption DEF Agents
<1>t. /\ chan \in [Subscribers -> Ids \cup {NoId}] /\ batch \in [Subscribers -> SUBSET Ids]
      /\ pel \in [Topics -> SUBSET Ids] /\ NoId \notin Ids
  BY DEF TypeOK, TransportTypeOK, NoId, Ids
<1>g. UNCHANGED <<call, pending, report, results>>
  BY DEF Reader, gatewayVars
<1>r. InReport(i)' = InReport(i) /\ Reported(i)' = Reported(i)
  BY <1>g DEF InReport, Reported
<1>i. ClaimInv /\ CarryInv
  BY DEF OneWay
<1>s. ASSUME UNCHANGED <<stream, cursor>>, i \in pel'[a] <=> i \in pel[a],
             \A u \in Subscribers \ {s} : batch'[u] = batch[u] /\ chan'[u] = chan[u],
             i \in Carried(s)' => i \in Carried(s)
      PROVE  Moved(a, i)
  <2>1. InCall(a, i)' => InCall(a, i)
    BY <1>s, <1>g, OneCallMoves DEF InTransit, Carried
  <2>2. QED
    BY <2>1, <1>s, <1>g, <1>r, OnlyStranded DEF PastCursor
<1>1. CASE Poll(s) \/ ReadNothing(s) \/ ReadCancelled(s)
  <2>1. UNCHANGED <<stream, cursor, pel, chan>> /\ (batch' = batch \/ Stop(s))
    BY <1>1 DEF Poll, ReadNothing, ReadCancelled, redisVars
  <2>2. QED
    BY <2>1, <1>s, <1>t DEF Stop, Carried
<1>2. CASE ReadBatch(s)
  <2>1. PICK B \in NextBatches(TopicOf[s]) :
          Claim(TopicOf[s], B) /\ batch' = [batch EXCEPT ![s] = B]
    BY <1>2 DEF ReadBatch
  <2>2. UNCHANGED chan /\ reader[s] = "read"
    BY <1>2 DEF ReadBatch
  <2>3. batch[s] = {}
    BY <2>2, <1>i DEF CarryInv
  <2>4. ASSUME i \notin B PROVE InCall(a, i)' => InCall(a, i)
    <3>1. \A u \in Subscribers \ {s} : InTransit(u)' = InTransit(u)
      BY <2>1, <2>2, <1>g, <1>t DEF InTransit
    <3>2. i \in InTransit(s)' => i \in InTransit(s)
      BY <2>1, <2>2, <2>4, <1>g, <1>t DEF InTransit
    <3>3. QED
      BY <3>1, <3>2, OneCallMoves
  <2>5. QED
    BY <2>1, <2>4, <1>g, <1>i, ClaimMoves
<1>3. CASE ReadFails(s)
  <2>1. UNCHANGED <<batch, chan>>
    BY <1>3 DEF ReadFails
  <2>2. InCall(a, i)' => InCall(a, i)
    BY <2>1, <1>g DEF InCall, InTransit
  <2>3. CASE UNCHANGED redisVars
    BY <2>1, <2>3, <1>s DEF redisVars, Carried
  <2>4. ASSUME NEW B \in NextBatches(TopicOf[s]), Claim(TopicOf[s], B) PROVE Moved(a, i)
    BY <2>2, <2>4, <1>g, <1>i, ClaimMoves
  <2>5. QED
    BY <1>3, <2>3, <2>4 DEF ReadFails
<1>4. ASSUME NEW j \in batch[s], EmitMalformed(s, j) PROVE Moved(a, i)
  <2>1. /\ UNCHANGED <<stream, cursor, chan>> /\ batch' = [batch EXCEPT ![s] = @ \ {j}]
        /\ pel' = [pel EXCEPT ![TopicOf[s]] = @ \ {j}] \/ pel' = pel
        /\ j \in Malformed[TopicOf[s]]
    BY <1>4 DEF EmitMalformed, Passed
  <2>2. CASE i = j
    <3>1. i \in Malformed[a]
      BY <2>1, <2>2, <1>4 DEF Placed, Carried
    <3>2. QED
      BY <3>1, <2>1, <1>r DEF Moved, StageOf, PastCursor
  <2>3. CASE i # j
    <3>1. i \in pel'[a] <=> i \in pel[a]
      BY <2>1, <2>3, <1>t
    <3>2. Carried(s)' \subseteq Carried(s)
      BY <2>1, <1>t DEF Carried
    <3>3. QED
      BY <3>1, <3>2, <2>1, <1>s, <1>t
  <2>4. QED
    BY <2>2, <2>3
<1>5. ASSUME NEW j \in batch[s], EmitSend(s, j) PROVE Moved(a, i)
  <2>1. /\ UNCHANGED <<stream, cursor, pel>> /\ batch' = [batch EXCEPT ![s] = @ \ {j}]
        /\ chan' = [chan EXCEPT ![s] = j]
    BY <1>5 DEF EmitSend, Passed, redisVars
  <2>2. Carried(s)' \subseteq Carried(s)
    BY <2>1, <1>5, <1>t DEF Carried
  <2>3. QED
    BY <2>1, <2>2, <1>s, <1>t
<1>6. ASSUME NEW j \in batch[s], EmitAbandon(s, j) PROVE Moved(a, i)
  <2>1. UNCHANGED <<stream, cursor, pel, chan>> /\ batch' = [batch EXCEPT ![s] = {}]
    BY <1>6 DEF EmitAbandon, Stop, redisVars
  <2>2. QED
    BY <2>1, <1>s, <1>t DEF Carried
<1>7. QED
  BY <1>1, <1>2, <1>3, <1>4, <1>5, <1>6 DEF Reader, ReaderStep

\* A report takes its task out of the map.
LEMMA LoadAndDeleteMoves ==
  ASSUME TypeOK, NEW a \in Agents, NEW i \in IdsOf[a], Placed(a, i),
         NEW r \in Reporters, NEW b \in Agents, NEW k \in Kinds, NEW j \in Ids,
         LoadAndDelete(r, b, k, j)
  PROVE  Moved(a, i)
<1> USE GatewayAssumption DEF Agents
<1> DEFINE new == [at |-> "taken", kind |-> k, to |-> b, topic |-> pending[j], id |-> j,
                    lost |-> 0]
<1>t. pending \in [Ids -> Agents \cup {NoAgent}] /\ report \in [Reporters -> Reporting \cup {Idle}]
      /\ i \in Ids
  BY TransportAssumption DEF TypeOK, Ids
<1>1. /\ report[r] = Idle /\ pending[j] # NoAgent
      /\ pending' = [pending EXCEPT ![j] = NoAgent]
      /\ report' = [report EXCEPT ![r] = new]
      /\ UNCHANGED <<transportVars, call, results>>
  BY DEF LoadAndDelete
<1>2. /\ UNCHANGED <<stream, cursor, pel>> /\ Reported(i)' = Reported(i)
      /\ PastCursor(a, i)' = PastCursor(a, i) /\ InCall(a, i)' = InCall(a, i)
  BY <1>1 DEF transportVars, redisVars, readerVars, Reported, PastCursor, InCall, InTransit
<1>3. new # Idle /\ new.id = j
  BY DEF Idle
<1>4. report'[r] = new /\ \A q \in Reporters \ {r} : report'[q] = report[q]
  BY <1>1, <1>t
<1> HIDE DEF new
<1>5. CASE i = j
  <2>1. /\ pending[i] = a /\ i \in handed[a] /\ i \in pel[a] /\ i \notin Malformed[a]
        /\ ~Reported(i) /\ i \in stream[a] /\ PastCursor(a, i)
    BY <1>1, <1>5 DEF Placed
  <2>2. StageOf(a, i) = "held"
    BY <2>1 DEF StageOf
  <2>3. pending'[i] # a /\ InReport(i)'
    BY <1>1, <1>3, <1>4, <1>5, <1>t DEF InReport
  <2>4. StageOf(a, i)' = "reporting"
    BY <2>1, <2>3, <1>2 DEF StageOf, InReport
  <2>5. QED
    BY <2>2, <2>4 DEF Moved, Delivery!Moves
<1>6. CASE i # j
  <2>1. pending'[i] = pending[i]
    BY <1>1, <1>6, <1>t
  <2>2. InReport(i)' => InReport(i)
    BY <1>3, <1>4, <1>6 DEF InReport
  <2>3. QED
    BY <2>1, <2>2, <1>2, OnlyStranded
<1>7. QED
  BY <1>5, <1>6

\* Only a report's own task is reported by it; failing, it strands that task at most.
LEMMA ReportMoves ==
  ASSUME TypeOK, OneWay, NEW a \in Agents, NEW i \in IdsOf[a], Placed(a, i),
         NEW r \in Reporters, ReportStep(r)
  PROVE  Moved(a, i)
<1> USE DEF Agents
<1>0. report[r].at # "idle"
  BY DEF ReportStep, PublishRetried, Publish, PublishFails, AckTask, AckFails
<1>h. report[r] \in Reporting /\ report[r] # Idle
  BY <1>0, HeldReport
<1>t. /\ report \in [Reporters -> Reporting \cup {Idle}] /\ results \in [Result -> Nat]
      /\ pel \in [Topics -> SUBSET Ids]
  BY DEF TypeOK, TransportTypeOK
<1>1. UNCHANGED <<stream, cursor, pending, call, batch, chan>>
  BY DEF ReportStep, PublishRetried, Publish, PublishFails, AckTask, AckFails, Ack,
         transportVars, redisVars, readerVars
<1>2. InCall(a, i)' = InCall(a, i) /\ PastCursor(a, i)' = PastCursor(a, i)
  BY <1>1 DEF InCall, InTransit, PastCursor
<1>d. DocumentOf(r) \in Result /\ DocumentOf(r).exec_id = report[r].id
  BY <1>h DEF DocumentOf, Result, Reporting
<1>3. ASSUME AddResult(r)
      PROVE  Reported(i)' <=> (Reported(i) \/ report[r].id = i)
  <2>1. \A d \in Result : results'[d] = IF d = DocumentOf(r) THEN results[d] + 1 ELSE results[d]
    BY <1>3, <1>t DEF AddResult
  <2>2. results'[DocumentOf(r)] > 0
    BY <2>1, <1>d, <1>t
  <2>3. CASE report[r].id = i
    BY <2>2, <2>3, <1>d DEF Reported
  <2>4. CASE report[r].id # i
    BY <2>1, <2>4, <1>d DEF Reported
  <2>5. QED
    BY <2>3, <2>4
<1>4. Finish(r) => \A q \in Reporters : report'[q] = IF q = r THEN Idle ELSE report[q]
  BY <1>t DEF Finish
<1>f. Finish(r) => (InReport(i)' => InReport(i))
  BY <1>4 DEF InReport
<1>5. ASSUME report[r].id = i, report[r].at = "taken"
      PROVE  /\ i \in stream[a] /\ PastCursor(a, i) /\ i \notin Malformed[a]
             /\ i \in pel[a] /\ pending[i] # a /\ InReport(i) /\ ~InCall(a, i)
             /\ \A q \in Reporters \ {r} : report[q] # Idle => report[q].id # i
  BY <1>5, <1>h, GatewayAssumption DEF Placed, InReport
<1>6. ASSUME report[r].id = i, report[r].at = "taken"
      PROVE  StageOf(a, i) = IF Reported(i) THEN "reported" ELSE "reporting"
  BY <1>5, <1>6 DEF StageOf, InReport
<1>7. ASSUME report[r].id = i, report[r].at = "taken", Reported(i)' PROVE Moved(a, i)
  <2>1. StageOf(a, i)' = "reported"
    BY <1>1, <1>2, <1>5, <1>7 DEF StageOf
  <2>2. QED
    BY <2>1, <1>6, <1>7 DEF Moved, Delivery!Moves
<1>8. CASE PublishRetried(r) \/ Publish(r)
  <2>1. /\ report[r].at = "taken" /\ AddResult(r) /\ pel' = pel
        /\ \/ report' = [report EXCEPT ![r].lost = @ + 1]
           \/ report' = [report EXCEPT ![r].at = "published"]
    BY <1>8 DEF PublishRetried, Publish, transportVars, redisVars
  <2>2. CASE report[r].id = i
    BY <2>1, <2>2, <1>3, <1>7
  <2>3. CASE report[r].id # i
    <3>1. report'[r].id = report[r].id /\ \A q \in Reporters \ {r} : report'[q] = report[q]
      BY <2>1, <1>h, <1>t DEF Reporting
    <3>2. InReport(i)' => InReport(i)
      BY <3>1, <2>3 DEF InReport
    <3>3. QED
      BY <3>2, <2>1, <2>3, <1>1, <1>2, <1>3, OnlyStranded
  <2>4. QED
    BY <2>2, <2>3
<1>9. CASE PublishFails(r)
  <2>1. /\ report[r].at = "taken" /\ Finish(r) /\ pel' = pel
        /\ results' = results \/ AddResult(r)
    BY <1>9 DEF PublishFails, transportVars, redisVars
  <2>2. CASE Reported(i)' <=> Reported(i)
    BY <2>1, <2>2, <1>1, <1>2, <1>f, OnlyStranded
  <2>3. CASE ~(Reported(i)' <=> Reported(i))
    <3>1. report[r].id = i /\ Reported(i)'
      BY <2>1, <2>3, <1>3 DEF Reported
    <3>2. QED
      BY <3>1, <2>1, <1>7
  <2>4. QED
    BY <2>2, <2>3
<1>10. CASE AckTask(r)
  <2>1. /\ report[r].at = "published" /\ Finish(r) /\ results' = results
        /\ pel' = [pel EXCEPT ![report[r].topic] = @ \ {report[r].id}]
    BY <1>10 DEF AckTask, Ack
  <2>2. Reported(i)' = Reported(i)
    BY <2>1 DEF Reported
  <2>3. CASE report[r].id = i
    <3>1. Reported(i) /\ i \in stream[a] /\ PastCursor(a, i)
      BY <2>1, <2>3, <1>h DEF Placed
    <3>2. QED
      BY <3>1, <2>2, <1>1, <1>2 DEF Moved, StageOf
  <2>4. CASE report[r].id # i
    <3>1. i \in pel'[a] <=> i \in pel[a]
      BY <2>1, <2>4, <1>t
    <3>2. QED
      BY <3>1, <2>1, <2>2, <1>1, <1>2, <1>f, OnlyStranded
  <2>5. QED
    BY <2>3, <2>4
<1>11. CASE AckFails(r)
  <2>1. Finish(r) /\ results' = results /\ pel' = pel
    BY <1>11 DEF AckFails, transportVars, redisVars
  <2>2. Reported(i)' = Reported(i)
    BY <2>1 DEF Reported
  <2>3. QED
    BY <2>1, <2>2, <1>1, <1>2, <1>f, OnlyStranded
<1>12. QED
  BY <1>8, <1>9, <1>10, <1>11 DEF ReportStep

\* A restart strands whatever the process held.
LEMMA RestartMoves ==
  ASSUME NEW a \in Agents, NEW i \in IdsOf[a], Placed(a, i), Restart
  PROVE  Moved(a, i)
<1>1. i \in Ids
  BY DEF Ids, Agents
<1>2. UNCHANGED <<stream, cursor, pel, results>> /\ pending'[i] = NoAgent
  BY <1>1 DEF Restart, Vanish, redisVars
<1>3. ~InReport(i)' /\ ~InCall(a, i)'
  BY DEF Restart, InReport, InCall, InTransit
<1>4. QED
  BY <1>2, <1>3, OnlyStranded DEF PastCursor, Reported

\* Whatever the gateway and the orchestrator do, a task moves as TaskDelivery says.
LEMMA StepMoves ==
  ASSUME DistinctIds, TypeOK, OneWay, SkipInv, Next, NEW a \in Agents, NEW i \in IdsOf[a]
  PROVE  Moved(a, i)
<1>p. Placed(a, i)
  BY TaskIsPlaced
<1>i. i \in Ids
  BY DEF Ids, Agents
<1>s. ASSUME UNCHANGED <<stream, cursor, pel, results, report>>,
             pending'[i] \in {pending[i], NoAgent},
             InCall(a, i)' => InCall(a, i)
      PROVE  Moved(a, i)
  BY <1>s, <1>p, OnlyStranded DEF PastCursor, Reported, InReport
<1>c. ASSUME NEW s \in Subscribers, NEW at \in {"idle", "admitted"}, call' = [call EXCEPT ![s] = at],
             UNCHANGED <<stream, cursor, pel, results, report, pending, batch, chan>>
      PROVE  Moved(a, i)
  <2>1. \A u \in Subscribers \ {s} : InTransit(u)' = InTransit(u)
    BY <1>c DEF InTransit, TypeOK
  <2>2. InTransit(s)' = {}
    BY <1>c DEF InTransit, TypeOK
  <2>3. QED
    BY <2>1, <2>2, <1>c, <1>s, OneCallMoves
<1>1. ASSUME NEW s \in Subscribers, StartGet(s) \/ ReturnEmpty(s) PROVE Moved(a, i)
  BY <1>1, <1>c DEF StartGet, OpenRequest, ReturnEmpty, transportVars, redisVars, readerVars
<1>2. CASE (\E s \in Subscribers : CancelRequest(s)) \/ \E j \in Ids : Age(j)
  BY <1>2, <1>s DEF CancelRequest, Cancel, gatewayVars, redisVars, Age, transportVars, readerVars,
                    InCall, InTransit
<1>3. CASE Evict
  BY <1>3, <1>i, <1>s DEF Evict, transportVars, redisVars, readerVars, InCall, InTransit
<1>4. QED
  BY <1>1, <1>2, <1>3, <1>p, EnqueueMoves, SubscribeMoves, ReturnTaskMoves, ReaderMoves,
     LoadAndDeleteMoves, ReportMoves, RestartMoves DEF Next

-------------------------------------------------------------------------------
(* The refinement.                                                         *)

\* Every behaviour of the gateway is one of TaskDelivery: a task reaches its agent at
\* most once, is reported at most once and only after that, and leaves Redis's pending
\* entries only with a result, whatever calls race, fail or are cut off by a restart.
THEOREM GatewayImplementsDelivery == ASSUME DistinctIds PROVE Spec => Implements
<1>1. Init => Delivery!Init
  <2> SUFFICES ASSUME Init PROVE \A t \in AllTasks : StageOf(t[1], t[2]) = "absent"
    BY DEF Delivery!Init, StageOfTasks
  <2>1. QED
    BY DEF Init, TransportInit, StageOf, AllTasks, Agents
<1>2. TypeOK /\ OneWay /\ SkipInv /\ [Next]_vars => [Delivery!Next]_StageOfTasks
  <2> SUFFICES ASSUME TypeOK, OneWay, SkipInv, [Next]_vars PROVE [Delivery!Next]_StageOfTasks
    OBVIOUS
  <2>1. CASE Next
    <3>1. StageOfTasks' \in [AllTasks -> Delivery!Stages]
      <4>1. \A t \in AllTasks : StageOf(t[1], t[2])' \in Delivery!Stages
        BY DEF StageOf, Delivery!Stages
      <4>2. AllTasks' = AllTasks
        BY DEF AllTasks, Agents
      <4>3. QED
        BY <4>1 DEF StageOfTasks, AllTasks
    <3>2. ASSUME NEW t \in AllTasks, StageOfTasks'[t] # StageOfTasks[t]
          PROVE  <<StageOfTasks[t], StageOfTasks'[t]>> \in Delivery!Moves
      <4>1. t[1] \in Agents /\ t[2] \in IdsOf[t[1]]
        BY DEF AllTasks
      <4>2. StageOfTasks[t] = StageOf(t[1], t[2]) /\ StageOfTasks'[t] = StageOf(t[1], t[2])'
        BY DEF StageOfTasks
      <4>3. QED
        BY <2>1, <3>2, <4>1, <4>2, StepMoves DEF Moved
    <3>3. QED
      BY <3>1, <3>2 DEF Delivery!Next
  <2>2. CASE UNCHANGED vars
    BY <2>2 DEF vars, gatewayVars, transportVars, redisVars, readerVars, StageOfTasks, StageOf,
                PastCursor, Reported, InTransit
  <2>3. QED
    BY <2>1, <2>2
<1>3. QED
  BY <1>1, <1>2, TypeCorrect, TasksMoveOneWay, SkipInvariant, PTL
  DEF Implements, Delivery!Spec, Spec
===============================================================================
