-------------------------- MODULE TaskGateway_proofs --------------------------
(***************************************************************************)
(* Proofs about TaskGateway: type correctness, and the safety of the task  *)
(* lifecycle for any number of agents, tasks and concurrent tool calls,    *)
(* with Redis failures and restarts.                                       *)
(***************************************************************************)
EXTENDS TaskGateway, RedisTransport_proofs, FiniteSetTheorems, TLAPS

-------------------------------------------------------------------------------
(* Type correctness.                                                       *)

\* Every variable keeps its type: Redis's streams, the PendingMap, the calls and
\* the published results.
THEOREM TypeCorrect == Spec => []TypeOK
<1> USE TransportAssumption, GatewayAssumption
<1>1. Init => TypeOK
  BY DEF Init, TransportInit, TypeOK, TransportTypeOK, Ids, NoGroup
<1>2. TypeOK /\ [Next]_vars => TypeOK'
  <2> SUFFICES ASSUME TypeOK, [Next]_vars PROVE TypeOK'
    OBVIOUS
  <2>t. TransportTypeOK
    BY DEF TypeOK
  <2> USE DEF TypeOK, gatewayVars
  <2>1. ASSUME NEW a \in Agents, NEW i \in Ids, Enqueue(a, i) PROVE TypeOK'
    BY <2>1 DEF Enqueue, Add, readerVars, TransportTypeOK, Agents
  <2>2. ASSUME NEW s \in Subscribers, StartGet(s) PROVE TypeOK'
    BY <2>2 DEF StartGet, OpenRequest, redisVars, TransportTypeOK
  <2>3. ASSUME NEW s \in Subscribers, SubscribeStep(s) PROVE TypeOK'
    <3>1. call' \in [Subscribers -> {"idle", "admitted", "waiting"}]
      BY <2>3 DEF SubscribeStep
    <3>2. UNCHANGED <<pending, aged, report, results, handed>>
      BY <2>3 DEF SubscribeStep
    <3>3. CASE Subscribe(s)
      BY <3>1, <3>2, <3>3, CreateGroupTypeOK DEF Subscribe, TransportTypeOK
    <3>4. CASE SubscribeFails(s)
      BY <3>1, <3>2, <3>4, CreateGroupTypeOK
      DEF SubscribeFails, redisVars, readerVars, TransportTypeOK
    <3>5. QED
      BY <2>3, <3>3, <3>4 DEF SubscribeStep
  <2>4. ASSUME NEW s \in Subscribers, ReturnTask(s) PROVE TypeOK'
    BY <2>4 DEF ReturnTask, TakeFrom, Store, redisVars, TransportTypeOK, Agents
  <2>5. ASSUME NEW s \in Subscribers, ReturnEmpty(s) PROVE TypeOK'
    BY <2>5 DEF ReturnEmpty, transportVars, redisVars, readerVars, TransportTypeOK
  <2>6. ASSUME NEW s \in Subscribers, CancelRequest(s) PROVE TypeOK'
    BY <2>6 DEF CancelRequest, Cancel, redisVars, TransportTypeOK
  <2>7. ASSUME NEW s \in Subscribers, Reader(s) PROVE TypeOK'
    BY <2>7, <2>t, ReaderTypeOK DEF Reader
  <2>8. ASSUME NEW r \in Reporters, NEW a \in Agents, NEW k \in Kinds, NEW i \in Ids,
               LoadAndDelete(r, a, k, i)
        PROVE  TypeOK'
    BY <2>8 DEF LoadAndDelete, transportVars, redisVars, readerVars, TransportTypeOK,
                Reporting, Idle
  <2>9. ASSUME NEW r \in Reporters, ReportStep(r) PROVE TypeOK'
    <3> USE DEF Finish, Ack, Idle, Reporting, transportVars, redisVars, readerVars,
                TransportTypeOK
    <3>0. CASE PublishRetried(r)
      <4>1. report[r] \in Reporting /\ report[r].lost + 1 \in 0 .. Retries
        BY <3>0 DEF PublishRetried
      <4>2. [report[r] EXCEPT !.lost = @ + 1] \in Reporting
        BY <4>1
      <4>3. report' \in [Reporters -> Reporting \cup {Idle}]
        BY <3>0, <4>2 DEF PublishRetried
      <4>4. results' \in [Result -> Nat]
        <5>1. DocumentOf(r) \in Result
          BY <4>1 DEF DocumentOf, Result
        <5>2. QED
          BY <3>0, <5>1 DEF PublishRetried, AddResult
      <4>5. QED
        BY <3>0, <4>3, <4>4 DEF PublishRetried
    <3>1. CASE Publish(r)
      <4>1. report[r] \in Reporting
        BY <3>1 DEF Publish
      <4>2. [report[r] EXCEPT !.at = "published"] \in Reporting
        BY <4>1
      <4>3. report' \in [Reporters -> Reporting \cup {Idle}]
        BY <3>1, <4>2 DEF Publish
      <4>4. results' \in [Result -> Nat]
        <5>1. DocumentOf(r) \in Result
          BY <4>1 DEF DocumentOf, Result
        <5>2. QED
          BY <3>1, <5>1 DEF Publish, AddResult
      <4>5. QED
        BY <3>1, <4>3, <4>4 DEF Publish
    <3>2. CASE PublishFails(r)
      <4>1. results' \in [Result -> Nat]
        BY <3>2 DEF PublishFails, AddResult
      <4>2. QED
        BY <3>2, <4>1 DEF PublishFails
    <3>3. CASE AckTask(r) BY <3>3 DEF AckTask
    <3>4. CASE AckFails(r) BY <3>4 DEF AckFails
    <3>5. QED BY <2>9, <3>0, <3>1, <3>2, <3>3, <3>4 DEF ReportStep
  <2>10. ASSUME NEW i \in Ids, Age(i) PROVE TypeOK'
    BY <2>10 DEF Age, transportVars, redisVars, readerVars, TransportTypeOK
  <2>11. CASE Evict
    BY <2>11 DEF Evict, transportVars, redisVars, readerVars, TransportTypeOK
  <2>12. CASE Restart
    BY <2>12 DEF Restart, Vanish, redisVars, TransportTypeOK
  <2>13. CASE UNCHANGED vars
    BY <2>13 DEF vars, transportVars, redisVars, readerVars, TransportTypeOK
  <2>14. QED
    BY <2>1, <2>2, <2>3, <2>4, <2>5, <2>6, <2>7, <2>8, <2>9, <2>10, <2>11, <2>12,
       <2>13 DEF Next
<1>3. QED
  BY <1>1, <1>2, PTL DEF Spec

-------------------------------------------------------------------------------
(* The inductive invariant.                                                *)

\* What each part of the invariant does not depend on cannot disturb it.
LEMMA Frames ==
  /\ ClaimInv /\ UNCHANGED <<stream, cursor, pel, handed>> => ClaimInv'
  /\ CarryInv /\ UNCHANGED <<reader, batch, chan, pel, handed>> => CarryInv'
  /\ PendingIsOpen /\ UNCHANGED <<pending, handed, pel, results>> => PendingIsOpen'
  /\ ReportInv /\ UNCHANGED <<report, handed, pending, pel, results>> => ReportInv'
  /\ ResultInv /\ UNCHANGED <<results, report, handed, pel>> => ResultInv'
<1>1. ClaimInv /\ UNCHANGED <<stream, cursor, pel, handed>> => ClaimInv'
  BY DEF ClaimInv, PastCursor
<1>2. CarryInv /\ UNCHANGED <<reader, batch, chan, pel, handed>> => CarryInv'
  BY DEF CarryInv, Carried
<1>3. PendingIsOpen /\ UNCHANGED <<pending, handed, pel, results>> => PendingIsOpen'
  BY DEF PendingIsOpen, Reported
<1>4. ReportInv /\ UNCHANGED <<report, handed, pending, pel, results>> => ReportInv'
  BY DEF ReportInv, Reported
<1>5. ResultInv /\ UNCHANGED <<results, report, handed, pel>> => ResultInv'
  BY DEF ResultInv, OneReportPerTask, DocumentOf, ResultBeforeAck, Reported
<1>6. QED
  BY <1>1, <1>2, <1>3, <1>4, <1>5

\* A report that stops publishing leaves the results as they are.
LEMMA ResultsOfReports ==
  ASSUME OneReportPerTask, UNCHANGED results,
         \A q \in Reporters : report'[q].at = "taken" => report'[q] = report[q]
  PROVE  OneReportPerTask'
BY DEF OneReportPerTask, DocumentOf

\* An id belongs to one stream, so what is known of it there is known of it.
LEMMA OneStream ==
  ASSUME DistinctIds, ClaimInv, NEW a \in Agents, NEW b \in Agents,
         NEW i \in pel[a] \cup handed[a], i \in pel[b] \cup handed[b]
  PROVE  a = b
BY DEF DistinctIds, ClaimInv

\* What one XREADGROUP hands out was never handed out before.
LEMMA ClaimIsFresh ==
  ASSUME TypeOK, ClaimInv, NEW t \in Topics, NEW B \in NextBatches(t), Claim(t, B),
         UNCHANGED handed
  PROVE  /\ ClaimInv'
         /\ B \subseteq stream[t]
         /\ B \cap (pel[t] \cup handed[t]) = {}
         /\ pel' = [pel EXCEPT ![t] = @ \cup B]
<1> USE TransportAssumption DEF TypeOK, TransportTypeOK, Agents
<1>1. B \subseteq stream[t] /\ B # {}
  BY DEF NextBatches, Undelivered
<1>2. \A i \in B : cursor[t] # NoGroup /\ i > cursor[t]
  BY DEF NextBatches, Undelivered
<1>i. stream[t] \subseteq Int /\ cursor[t] \in Int
  BY DEF Ids
<1>3. B \cap (pel[t] \cup handed[t]) = {}
  BY <1>2, <1>1, <1>i DEF ClaimInv, PastCursor
<1>4. pel' = [pel EXCEPT ![t] = @ \cup B] /\ UNCHANGED stream
  BY DEF Claim
<1>5. PICK last \in B : (\A i \in B : i <= last) /\ cursor' = [cursor EXCEPT ![t] = last]
  BY DEF Claim
<1>6. ClaimInv'
  <2> SUFFICES ASSUME NEW a \in Agents
               PROVE  /\ stream'[a] \subseteq IdsOf[a]
                      /\ pel'[a] \cup handed'[a] \subseteq stream'[a]
                      /\ \A i \in pel'[a] \cup handed'[a] : PastCursor(a, i)'
    BY DEF ClaimInv
  <2>1. CASE a # t
    BY <1>4, <1>5, <2>1 DEF ClaimInv, PastCursor
  <2>2. CASE a = t
    <3>1. last \in Nat \ {0}
      BY <1>1, <1>5 DEF Ids
    <3>2. last > cursor[t] /\ last # NoGroup
      BY <1>2, <3>1 DEF NoGroup
    <3>3. cursor'[t] = last /\ pel'[t] = pel[t] \cup B
      BY <1>4, <1>5
    <3>4. ASSUME NEW i \in pel'[t] \cup handed'[t] PROVE i <= last
      <4>1. CASE i \in B
        BY <4>1, <1>5
      <4>2. CASE i \in pel[t] \cup handed[t]
        BY <4>2, <3>2, <1>i, <3>1 DEF ClaimInv, PastCursor
      <4>3. QED
        BY <3>4, <3>3, <4>1, <4>2
    <3>5. QED
      BY <2>2, <1>1, <1>4, <3>2, <3>3, <3>4 DEF ClaimInv, PastCursor
  <2>3. QED
    BY <2>1, <2>2
<1>7. QED
  BY <1>1, <1>3, <1>4, <1>6

\* The carriers stay exclusive when only slot s changes what it carries, and takes
\* up nothing new.
LEMMA CarryShrinks ==
  ASSUME CarryInv, NEW s \in Subscribers,
         \A u \in Subscribers \ {s} :
           /\ reader'[u] = reader[u]
           /\ batch'[u] = batch[u]
           /\ chan'[u] = chan[u],
         reader'[s] # "emit" => batch'[s] = {},
         chan'[s] \notin batch'[s],
         Carried(s)' \subseteq Carried(s),
         \A u \in Subscribers :
           Carried(u)' \subseteq pel'[TopicOf[u]] \ handed'[TopicOf[u]]
  PROVE  CarryInv'
<1>1. \A u \in Subscribers \ {s} : Carried(u)' = Carried(u)
  BY DEF Carried
<1>2. SUFFICES ASSUME NEW u \in Subscribers
               PROVE  /\ reader'[u] # "emit" => batch'[u] = {}
                      /\ chan'[u] \notin batch'[u]
                      /\ \A w \in Subscribers \ {u} : Carried(u)' \cap Carried(w)' = {}
  BY DEF CarryInv
<1>3. reader'[u] # "emit" => batch'[u] = {}
  BY DEF CarryInv
<1>4. chan'[u] \notin batch'[u]
  BY DEF CarryInv
<1>5. ASSUME NEW w \in Subscribers \ {u} PROVE Carried(u)' \cap Carried(w)' = {}
  <2>1. Carried(u)' \subseteq Carried(u) /\ Carried(w)' \subseteq Carried(w)
    BY <1>1
  <2>2. Carried(u) \cap Carried(w) = {}
    BY DEF CarryInv
  <2>3. QED
    BY <2>1, <2>2
<1>6. QED
  BY <1>3, <1>4, <1>5

\* What has been handed to an agent stays as it is while the pel keeps its entry.
LEMMA PelKeepsHeld ==
  ASSUME PendingIsOpen, ReportInv, ResultInv, TypeOK,
         UNCHANGED <<pending, handed, report, results>>,
         \A a \in Agents : pel[a] \cap handed[a] \subseteq pel'[a]
  PROVE  PendingIsOpen' /\ ReportInv' /\ ResultInv'
<1>1. PendingIsOpen'
  BY DEF PendingIsOpen, Reported, TypeOK
<1>2. ReportInv'
  <2>1. \A r \in Reporters : report[r] # Idle => report[r].topic \in Agents
    BY DEF TypeOK, Reporting
  <2>2. QED
    BY <2>1 DEF ReportInv, Reported
<1>3. ResultInv'
  BY DEF ResultInv, OneReportPerTask, DocumentOf, ResultBeforeAck, Reported
<1>4. QED
  BY <1>1, <1>2, <1>3

\* The reader goroutines keep the invariant, whatever becomes of the calls that
\* started them.
LEMMA ReaderKeepsOneWay ==
  ASSUME DistinctIds, TypeOK, OneWay, NEW s \in Subscribers, Reader(s)
  PROVE  OneWay'
<1> USE TransportAssumption DEF Agents
<1> DEFINE t == TopicOf[s]
<1>g. UNCHANGED <<call, pending, report, results, handed>>
  BY DEF Reader, gatewayVars
<1>i. ClaimInv /\ CarryInv /\ PendingIsOpen /\ ReportInv /\ ResultInv
  BY DEF OneWay
<1>t. t \in Topics /\ TransportTypeOK
  BY DEF TypeOK
<1>1. CASE Poll(s) \/ ReadNothing(s) \/ ReadCancelled(s)
  <2>1. UNCHANGED <<stream, cursor, pel, chan>>
    BY <1>1 DEF Poll, ReadNothing, ReadCancelled, redisVars
  <2>2. reader[s] # "emit" /\ reader'[s] # "emit"
    BY <1>1, <1>t DEF Poll, ReadNothing, ReadCancelled, Stop, TransportTypeOK
  <2>3. batch' = batch
    <3>1. batch[s] = {}
      BY <1>i, <2>2 DEF CarryInv
    <3>2. batch' = batch \/ batch' = [batch EXCEPT ![s] = {}]
      BY <1>1 DEF Poll, ReadNothing, ReadCancelled, Stop
    <3>3. QED
      BY <3>1, <3>2, <1>t, ZenonT(60) DEF TransportTypeOK
  <2>4. \A u \in Subscribers \ {s} : reader'[u] = reader[u]
    BY <1>1, <1>t DEF Poll, ReadNothing, ReadCancelled, Stop, TransportTypeOK
  <2>5. CarryInv'
    BY <1>i, <1>g, <2>1, <2>2, <2>3, <2>4 DEF CarryInv, Carried
  <2>6. QED
    BY <1>i, <1>g, <2>1, <2>5, Frames DEF OneWay
<1>2. ASSUME NEW B \in NextBatches(t), Claim(t, B)
      PROVE  /\ ClaimInv' /\ PendingIsOpen' /\ ReportInv' /\ ResultInv'
             /\ \A u \in Subscribers :
                  /\ Carried(u) \subseteq pel'[TopicOf[u]] \ handed'[TopicOf[u]]
                  /\ B \cap Carried(u) = {}
             /\ B \subseteq pel'[t] \ handed'[t]
  <2>1. /\ ClaimInv'
        /\ B \subseteq stream[t]
        /\ B \cap (pel[t] \cup handed[t]) = {}
        /\ pel' = [pel EXCEPT ![t] = @ \cup B]
    BY <1>2, <1>g, <1>i, <1>t, ClaimIsFresh
  <2>2. \A a \in Topics : pel[a] \subseteq pel'[a]
    BY <2>1, <1>t DEF TransportTypeOK
  <2>3. PendingIsOpen' /\ ReportInv' /\ ResultInv'
    BY <2>2, <1>g, <1>i, PelKeepsHeld
  <2>4. ASSUME NEW u \in Subscribers
        PROVE  /\ Carried(u) \subseteq pel'[TopicOf[u]] \ handed'[TopicOf[u]]
               /\ B \cap Carried(u) = {}
    <3>1. Carried(u) \subseteq pel[TopicOf[u]] \ handed[TopicOf[u]]
      BY <1>i DEF CarryInv
    <3>2. CASE TopicOf[u] = t
      BY <3>1, <3>2, <2>1, <2>2, <1>g
    <3>3. CASE TopicOf[u] # t
      <4>1. stream[t] \cap stream[TopicOf[u]] = {}
        BY <3>3, <1>i, <1>t DEF ClaimInv, DistinctIds
      <4>2. pel[TopicOf[u]] \subseteq stream[TopicOf[u]]
        BY <1>i DEF ClaimInv
      <4>3. QED
        BY <3>1, <4>1, <4>2, <2>1, <2>2, <1>g
    <3>4. QED
      BY <3>2, <3>3
  <2>5. B \subseteq pel'[t] \ handed'[t]
    BY <2>1, <1>g, <1>t DEF TransportTypeOK
  <2>6. QED
    BY <2>1, <2>3, <2>4, <2>5
<1>3. CASE ReadBatch(s)
  <2>1. PICK B \in NextBatches(t) : Claim(t, B) /\ batch' = [batch EXCEPT ![s] = B]
    BY <1>3 DEF ReadBatch
  <2>2. /\ reader[s] = "read"
        /\ reader' = [reader EXCEPT ![s] = "emit"]
        /\ UNCHANGED chan
    BY <1>3 DEF ReadBatch
  <2>3. batch[s] = {}
    BY <2>2, <1>i DEF CarryInv
  <2>4. chan[s] \notin B
    <3>1. B \cap Carried(s) = {}
      BY <2>1, <1>2
    <3>2. B \subseteq Ids /\ NoId \notin Ids
      BY <2>1, <1>t DEF NextBatches, Undelivered, TransportTypeOK, Ids, NoId
    <3>3. QED
      BY <3>1, <3>2 DEF Carried
  <2>5. /\ Carried(s)' = Carried(s) \cup B
        /\ batch'[s] = B
        /\ \A u \in Subscribers \ {s} :
             /\ Carried(u)' = Carried(u)
             /\ reader'[u] = reader[u]
             /\ batch'[u] = batch[u]
    BY <2>1, <2>2, <2>3, <1>t DEF Carried, TransportTypeOK
  <2>6. ASSUME NEW u \in Subscribers
        PROVE  /\ Carried(u)' \subseteq pel'[TopicOf[u]] \ handed'[TopicOf[u]]
               /\ \A w \in Subscribers \ {u} : Carried(u)' \cap Carried(w)' = {}
    BY <2>1, <2>5, <1>2, <1>i DEF CarryInv
  <2>7. CarryInv'
    BY <2>2, <2>4, <2>5, <2>6, <1>i, <1>t DEF CarryInv, TransportTypeOK
  <2>8. QED
    BY <2>1, <2>7, <1>2 DEF OneWay
<1>4. CASE ReadFails(s)
  <2>1. UNCHANGED <<batch, chan>> /\ reader[s] = "read"
    BY <1>4 DEF ReadFails
  <2>2. reader'[s] # "emit" /\ \A u \in Subscribers \ {s} : reader'[u] = reader[u]
    BY <1>4, <1>t DEF ReadFails, TransportTypeOK
  <2>3. batch'[s] = {}
    BY <2>1, <1>i DEF CarryInv
  <2>4. CASE UNCHANGED redisVars
    <3>1. CarryInv'
      BY <1>i, <1>g, <2>1, <2>2, <2>3, <2>4 DEF CarryInv, Carried, redisVars
    <3>2. QED
      BY <1>i, <1>g, <2>4, <3>1, Frames DEF OneWay, redisVars
  <2>5. ASSUME NEW B \in NextBatches(t), Claim(t, B) PROVE OneWay'
    <3>1. \A u \in Subscribers :
            /\ Carried(u)' = Carried(u)
            /\ Carried(u)' \subseteq pel'[TopicOf[u]] \ handed'[TopicOf[u]]
      BY <2>1, <2>5, <1>2 DEF Carried
    <3>2. CarryInv'
      BY <1>i, <2>1, <2>2, <2>3, <3>1 DEF CarryInv
    <3>3. QED
      BY <2>5, <3>2, <1>2 DEF OneWay
  <2>6. QED
    BY <1>4, <2>4, <2>5 DEF ReadFails
<1>5. ASSUME NEW i \in batch[s], EmitMalformed(s, i) \/ EmitSend(s, i) \/ EmitAbandon(s, i)
      PROVE  OneWay'
  <2>1. /\ UNCHANGED <<stream, cursor>>
        /\ \A u \in Subscribers \ {s} :
             /\ reader'[u] = reader[u]
             /\ batch'[u] = batch[u]
             /\ chan'[u] = chan[u]
    BY <1>5, <1>t
    DEF EmitMalformed, EmitSend, EmitAbandon, Passed, Stop, redisVars, TransportTypeOK
  <2>2. i \in pel[t] \ handed[t] /\ i # chan[s]
    BY <1>i DEF CarryInv, Carried
  <2>3. /\ \A a \in Topics : pel'[a] \subseteq pel[a]
        /\ \A a \in Topics : pel[a] \ {i} \subseteq pel'[a]
        /\ \A a \in Topics \ {t} : pel'[a] = pel[a]
        /\ Carried(s)' \subseteq Carried(s)
        /\ pel' # pel => i \notin Carried(s)'
        /\ chan'[s] \notin batch'[s]
        /\ reader'[s] # "emit" => batch'[s] = {}
    <3>1. CASE EmitMalformed(s, i)
      <4>1. /\ batch'[s] = batch[s] \ {i}
            /\ reader'[s] # "emit" => batch[s] = {i}
            /\ chan' = chan
        BY <3>1, <1>t DEF EmitMalformed, Passed, TransportTypeOK
      <4>2. pel' = [pel EXCEPT ![t] = @ \ {i}] \/ pel' = pel
        BY <3>1 DEF EmitMalformed
      <4>3. /\ \A a \in Topics : pel'[a] \subseteq pel[a]
            /\ \A a \in Topics : pel[a] \ {i} \subseteq pel'[a]
            /\ \A a \in Topics \ {t} : pel'[a] = pel[a]
        BY <4>2, <1>t DEF TransportTypeOK
      <4>4. chan[s] \notin batch[s]
        BY <1>i DEF CarryInv
      <4>5. QED
        BY <4>1, <4>3, <4>4, <2>2 DEF Carried
    <3>2. CASE EmitSend(s, i)
      BY <3>2, <2>2, <1>t, <1>i
      DEF EmitSend, Passed, TransportTypeOK, Carried, CarryInv, redisVars
    <3>3. CASE EmitAbandon(s, i)
      BY <3>3, <2>2, <1>t, <1>i
      DEF EmitAbandon, Stop, TransportTypeOK, Carried, CarryInv, redisVars
    <3>4. QED
      BY <1>5, <3>1, <3>2, <3>3
  <2>4. PendingIsOpen' /\ ReportInv' /\ ResultInv'
    <3>1. \A a \in Agents : pel[a] \cap handed[a] \subseteq pel'[a]
      BY <2>2, <2>3
    <3>2. QED
      BY <3>1, <1>g, <1>i, PelKeepsHeld
  <2>5. ClaimInv'
    BY <1>i, <1>g, <2>1, <2>3 DEF ClaimInv, PastCursor
  <2>6. ASSUME NEW u \in Subscribers
        PROVE  Carried(u)' \subseteq pel'[TopicOf[u]] \ handed'[TopicOf[u]]
    <3>1. Carried(u) \subseteq pel[TopicOf[u]] \ handed[TopicOf[u]]
      BY <1>i DEF CarryInv
    <3>2. CASE u = s
      BY <3>1, <3>2, <2>3, <1>g
    <3>3. CASE u # s
      <4>1. Carried(u)' = Carried(u)
        BY <3>3, <2>1 DEF Carried
      <4>2. i \notin Carried(u)
        BY <3>3, <1>i DEF CarryInv, Carried
      <4>3. QED
        BY <3>1, <4>1, <4>2, <2>3, <1>g
    <3>4. QED
      BY <3>2, <3>3
  <2>7. CarryInv'
    BY <1>i, <2>1, <2>3, <2>6, CarryShrinks
  <2>8. QED
    BY <2>4, <2>5, <2>7 DEF OneWay
<1>6. QED
  BY <1>1, <1>3, <1>4, <1>5 DEF Reader, ReaderStep

\* Subscribing moves no cursor that has handed anything out, and starts its reader
\* with nothing to carry.
LEMMA SubscribeKeepsOneWay ==
  ASSUME TypeOK, OneWay, NEW s \in Subscribers, SubscribeStep(s)
  PROVE  OneWay'
<1> USE TransportAssumption DEF Agents
<1>g. UNCHANGED <<pending, aged, report, results, handed>>
  BY DEF SubscribeStep
<1>i. ClaimInv /\ CarryInv /\ PendingIsOpen /\ ReportInv /\ ResultInv
  BY DEF OneWay
<1>t. TopicOf[s] \in Topics /\ TransportTypeOK
  BY DEF TypeOK
<1>1. ASSUME CreateGroup(TopicOf[s]) PROVE ClaimInv' /\ UNCHANGED <<stream, pel>>
  <2>1. UNCHANGED <<stream, pel>>
    BY <1>1 DEF CreateGroup
  <2>2. \A a \in Topics : cursor[a] # NoGroup => cursor'[a] = cursor[a]
    BY <1>1, <1>t DEF CreateGroup, TransportTypeOK
  <2>3. QED
    BY <2>1, <2>2, <1>g, <1>i DEF ClaimInv, PastCursor
<1>2. CASE Subscribe(s)
  <2>1. ClaimInv' /\ UNCHANGED <<stream, pel>>
    BY <1>1, <1>2 DEF Subscribe
  <2>2. /\ \A u \in Subscribers \ {s} :
             /\ reader'[u] = reader[u]
             /\ batch'[u] = batch[u]
             /\ chan'[u] = chan[u]
        /\ batch'[s] = {}
        /\ Carried(s)' = {}
    BY <1>2, <1>t DEF Subscribe, TransportTypeOK, Carried
  <2>3. \A u \in Subscribers :
          Carried(u)' \subseteq pel'[TopicOf[u]] \ handed'[TopicOf[u]]
    BY <2>1, <2>2, <1>g, <1>i DEF CarryInv, Carried
  <2>4. CarryInv'
    BY <1>i, <2>2, <2>3, CarryShrinks
  <2>5. QED
    BY <1>g, <1>i, <2>1, <2>4, Frames DEF OneWay
<1>3. CASE SubscribeFails(s)
  <2>1. ClaimInv' /\ UNCHANGED <<stream, pel>>
    BY <1>1, <1>3, <1>g, <1>i, Frames DEF SubscribeFails, redisVars
  <2>2. UNCHANGED <<reader, batch, chan>>
    BY <1>3 DEF SubscribeFails, readerVars
  <2>3. QED
    BY <1>g, <1>i, <2>1, <2>2, Frames DEF OneWay
<1>4. QED
  BY <1>2, <1>3 DEF SubscribeStep

\* get_task returns what no agent was given before, no report holds, and no result
\* names.
LEMMA ReturnTaskIsFresh ==
  ASSUME DistinctIds, TypeOK, OneWay, NEW s \in Subscribers, ReturnTask(s)
  PROVE  /\ chan[s] \in pel[TopicOf[s]]
         /\ \A a \in Agents : chan[s] \notin handed[a]
         /\ pending[chan[s]] = NoAgent
         /\ \A r \in Reporters : report[r] # Idle => report[r].id # chan[s]
         /\ ~Reported(chan[s])
<1> USE TransportAssumption DEF Agents
<1> DEFINE i == chan[s]
           t == TopicOf[s]
<1>i. ClaimInv /\ CarryInv /\ PendingIsOpen /\ ReportInv /\ ResultInv
  BY DEF OneWay
<1>t. t \in Topics /\ i \in Ids
  BY DEF TypeOK, TransportTypeOK, ReturnTask, TakeFrom
<1>1. i \in pel[t] \ handed[t]
  BY <1>i DEF CarryInv, Carried, ReturnTask, TakeFrom
<1>2. ASSUME NEW a \in Topics PROVE i \notin handed[a]
  BY <1>1, <1>i, <1>t, OneStream
<1>3. pending[i] = NoAgent
  BY <1>2, <1>i, <1>t DEF PendingIsOpen, TypeOK
<1>4. ASSUME NEW r \in Reporters, report[r] # Idle PROVE report[r].id # i
  <2>1. report[r].topic \in Topics
    BY <1>4 DEF TypeOK, Reporting
  <2>2. QED
    BY <2>1, <1>2, <1>4, <1>i DEF ReportInv
<1>5. ~Reported(i)
  BY <1>2, <1>i, <1>t DEF ResultInv
<1>6. QED
  BY <1>1, <1>2, <1>3, <1>4, <1>5

\* Handing a task to its agent keeps the one way of a task.
LEMMA ReturnTaskKeepsOneWay ==
  ASSUME DistinctIds, TypeOK, OneWay, NEW s \in Subscribers, ReturnTask(s)
  PROVE  OneWay'
<1> USE TransportAssumption DEF Agents
<1> DEFINE i == chan[s]
           t == TopicOf[s]
<1>i. ClaimInv /\ CarryInv /\ PendingIsOpen /\ ReportInv /\ ResultInv
  BY DEF OneWay
<1>t. t \in Topics /\ i \in Ids /\ i # NoId
  BY DEF TypeOK, TransportTypeOK, ReturnTask, TakeFrom
<1>f. /\ i \in pel[t]
      /\ \A a \in Topics : i \notin handed[a]
      /\ pending[i] = NoAgent
      /\ \A r \in Reporters : report[r] # Idle => report[r].id # i
      /\ ~Reported(i)
  BY ReturnTaskIsFresh
<1>1. /\ UNCHANGED <<stream, cursor, pel, reader, batch, report, results>>
      /\ chan' = [chan EXCEPT ![s] = NoId]
      /\ pending' = [pending EXCEPT ![i] = t]
      /\ handed' = [handed EXCEPT ![t] = @ \cup {i}]
  BY DEF ReturnTask, TakeFrom, Store, redisVars
<1>2. /\ \A a \in Topics \ {t} : handed'[a] = handed[a]
      /\ handed'[t] = handed[t] \cup {i}
      /\ \A j \in Ids \ {i} : pending'[j] = pending[j]
      /\ pending'[i] = t
      /\ \A u \in Subscribers \ {s} : chan'[u] = chan[u]
      /\ chan'[s] = NoId
      /\ \A j \in Ids : Reported(j)' = Reported(j)
  BY <1>1, <1>t DEF TypeOK, TransportTypeOK, Reported
<1>3. ClaimInv'
  BY <1>1, <1>2, <1>f, <1>i DEF ClaimInv, PastCursor
<1>4. CarryInv'
  <2>1. NoId \notin batch'[s]
    BY <1>1 DEF TypeOK, TransportTypeOK, Ids, NoId
  <2>2. Carried(s)' = Carried(s) \ {i}
    BY <1>1, <1>2, <1>t, <1>i, <2>1 DEF Carried, CarryInv
  <2>3. \A u \in Subscribers \ {s} : Carried(u)' = Carried(u) /\ i \notin Carried(u)
    BY <1>1, <1>2, <1>t, <1>i DEF Carried, CarryInv
  <2>4. \A u \in Subscribers :
          Carried(u)' \subseteq pel'[TopicOf[u]] \ handed'[TopicOf[u]]
    BY <1>1, <1>2, <2>2, <2>3, <1>i DEF CarryInv
  <2>5. QED
    BY <1>1, <1>2, <1>i, <2>1, <2>2, <2>4, CarryShrinks DEF CarryInv
<1>5. PendingIsOpen'
  <2> SUFFICES ASSUME NEW j \in Ids, pending'[j] # NoAgent
               PROVE  /\ j \in handed'[pending'[j]]
                      /\ j \in pel'[pending'[j]]
                      /\ ~Reported(j)'
    BY DEF PendingIsOpen
  <2>1. CASE j = i
    BY <2>1, <1>1, <1>2, <1>f
  <2>2. CASE j # i
    BY <2>2, <1>1, <1>2, <1>i DEF PendingIsOpen, TypeOK
  <2>3. QED
    BY <2>1, <2>2
<1>6. ReportInv'
  <2>1. \A r \in Reporters : report[r] # Idle => report[r].topic \in Topics /\ report[r].id \in Ids
    BY DEF TypeOK, Reporting
  <2>2. QED
    BY <2>1, <1>1, <1>2, <1>f, <1>i DEF ReportInv
<1>7. ResultInv'
  <2>1. OneReportPerTask'
    BY <1>1, <1>i, ResultsOfReports DEF ResultInv
  <2>2. ASSUME NEW a \in Agents, NEW j \in handed'[a], j \notin pel'[a] PROVE Reported(j)'
    <3>1. j \in handed[a]
      BY <2>2, <1>1, <1>2, <1>f
    <3>2. QED
      BY <3>1, <2>2, <1>1, <1>i DEF ResultInv, ResultBeforeAck, Reported
  <2>3. \A j \in Ids : Reported(j)' => \E a \in Agents : j \in handed'[a]
    BY <1>2, <1>i DEF ResultInv
  <2>4. QED
    BY <2>1, <2>2, <2>3 DEF ResultInv, ResultBeforeAck
<1>8. QED
  BY <1>3, <1>4, <1>5, <1>6, <1>7 DEF OneWay

\* Of the calls that race for a pending entry, one takes it, and it takes an entry
\* that no report holds.
LEMMA LoadAndDeleteKeepsOneWay ==
  ASSUME TypeOK, OneWay, NEW r \in Reporters, NEW a \in Agents, NEW k \in Kinds,
         NEW i \in Ids, LoadAndDelete(r, a, k, i)
  PROVE  OneWay'
<1>i. ClaimInv /\ CarryInv /\ PendingIsOpen /\ ReportInv /\ ResultInv
  BY DEF OneWay
<1>1. /\ UNCHANGED <<stream, cursor, pel, reader, batch, chan, results, handed>>
      /\ pending[i] # NoAgent
      /\ pending' = [pending EXCEPT ![i] = NoAgent]
      /\ report' = [report EXCEPT ![r] =
           [at |-> "taken", kind |-> k, to |-> a, topic |-> pending[i], id |-> i,
            lost |-> 0]]
  BY DEF LoadAndDelete, transportVars, redisVars, readerVars
<1>2. /\ \A q \in Reporters \ {r} : report'[q] = report[q]
      /\ report'[r].at = "taken"
      /\ report'[r].topic = pending[i]
      /\ report'[r].id = i
      /\ report'[r].lost = 0
      /\ \A j \in Ids \ {i} : pending'[j] = pending[j]
      /\ pending'[i] = NoAgent
      /\ \A j \in Ids : Reported(j)' = Reported(j)
  BY <1>1 DEF TypeOK, Reported
<1>3. i \in handed[pending[i]] /\ i \in pel[pending[i]] /\ ~Reported(i)
  BY <1>1, <1>i DEF PendingIsOpen
<1>4. PendingIsOpen'
  BY <1>1, <1>2, <1>i DEF PendingIsOpen
<1>5. ReportInv'
  <2>1. \A q \in Reporters \ {r} : report[q] # Idle => report[q].id \in Ids /\ report[q].id # i
    BY <1>1, <1>i DEF ReportInv, TypeOK, Reporting
  <2> SUFFICES ASSUME NEW q \in Reporters, report'[q] # Idle
               PROVE  /\ report'[q].id \in handed'[report'[q].topic]
                      /\ pending'[report'[q].id] = NoAgent
                      /\ \A w \in Reporters \ {q} :
                           report'[w] # Idle => report'[w].id # report'[q].id
                      /\ report'[q].at = "taken" =>
                           report'[q].id \in pel'[report'[q].topic]
                      /\ report'[q].at = "published" => Reported(report[q].id)'
    BY DEF ReportInv
  <2>2. CASE q = r
    BY <2>1, <2>2, <1>1, <1>2, <1>3
  <2>3. CASE q # r
    BY <2>1, <2>3, <1>1, <1>2, <1>i DEF ReportInv
  <2>4. QED
    BY <2>2, <2>3
<1>6. ResultInv'
  <2>1. OneReportPerTask'
    <3>1. \A e \in Result : e.exec_id = i => results[e] = 0
      BY <1>3 DEF Reported, TypeOK
    <3>2. ASSUME NEW q \in Reporters, NEW e \in Result,
                 report'[q].at = "taken", e.exec_id = report'[q].id
          PROVE  results'[e] = IF e = DocumentOf(q)' THEN report'[q].lost ELSE 0
      <4>1. CASE q = r
        BY <4>1, <3>1, <3>2, <1>1, <1>2
      <4>2. CASE q # r
        BY <4>2, <3>2, <1>1, <1>2, <1>i DEF ResultInv, OneReportPerTask, DocumentOf
      <4>3. QED
        BY <4>1, <4>2
    <3>3. QED
      BY <3>2, <1>1, <1>i DEF ResultInv, OneReportPerTask
  <2>2. ResultBeforeAck'
    BY <1>1, <1>2, <1>i DEF ResultInv, ResultBeforeAck, Reported
  <2>3. \A j \in Ids : Reported(j)' => \E b \in Agents : j \in handed'[b]
    BY <1>1, <1>2, <1>i DEF ResultInv
  <2>4. QED
    BY <2>1, <2>2, <2>3 DEF ResultInv
<1>7. QED
  BY <1>1, <1>i, <1>4, <1>5, <1>6, Frames DEF OneWay

\* What a report holds is an id of its own stream.
LEMMA HeldReport ==
  ASSUME TypeOK, OneWay, NEW r \in Reporters, report[r].at # "idle"
  PROVE  /\ report[r] \in Reporting
         /\ report[r] # Idle
         /\ report[r].id \in handed[report[r].topic]
         /\ \A j \in Ids : pending[j] # NoAgent => j # report[r].id
         /\ \A q \in Reporters \ {r} : report[q] # Idle => report[q].id # report[r].id
<1>1. report[r] \in Reporting /\ report[r] # Idle
  BY DEF TypeOK, Idle
<1>2. QED
  BY <1>1 DEF OneWay, ReportInv

\* A report that ends leaves the others as they are.
LEMMA FinishKeepsReports ==
  ASSUME TypeOK, ReportInv, NEW r \in Reporters, report[r] # Idle, Finish(r),
         UNCHANGED <<handed, pending>>,
         \A a \in Agents : pel[a] \ {report[r].id} \subseteq pel'[a],
         \A j \in Ids \ {report[r].id} : Reported(j)' <=> Reported(j)
  PROVE  ReportInv'
<1>1. report'[r] = Idle /\ \A q \in Reporters \ {r} : report'[q] = report[q]
  BY DEF Finish, TypeOK
<1>2. SUFFICES ASSUME NEW q \in Reporters \ {r}, report[q] # Idle
               PROVE  /\ report[q].id \in pel[report[q].topic] =>
                           report[q].id \in pel'[report[q].topic]
                      /\ \A j \in Ids : j = report[q].id =>
                           (Reported(j)' <=> Reported(j))
  <2>1. \A q \in Reporters : report[q] # Idle => report[q].id \in Ids
    BY DEF TypeOK, Reporting
  <2>2. QED
    BY <1>1, <1>2, <2>1 DEF ReportInv
<1>3. report[q].id \in Ids /\ report[q].topic \in Agents
  BY <1>2 DEF TypeOK, Reporting
<1>4. report[q].id # report[r].id
  BY <1>2 DEF ReportInv
<1>5. QED
  BY <1>3, <1>4

\* Nor does it change what was published.
LEMMA FinishKeepsResults ==
  ASSUME TypeOK, OneReportPerTask, NEW r \in Reporters, Finish(r), UNCHANGED results
  PROVE  OneReportPerTask'
<1>1. \A q \in Reporters : report'[q].at = "taken" => report'[q] = report[q]
  BY DEF Finish, Idle, TypeOK
<1>2. QED
  BY <1>1, ResultsOfReports

\* Publishing a result keeps it, whether the client sends the command again, the report
\* goes on to the acknowledgement, or it ends.
LEMMA PublishKeepsOneWay ==
  ASSUME TypeOK, OneWay, NEW r \in Reporters,
         report[r].at = "taken",
         AddResult(r),
         UNCHANGED <<transportVars, pending, handed>>,
         \/ report' = [report EXCEPT ![r].lost = @ + 1]
         \/ report' = [report EXCEPT ![r].at = "published"]
         \/ Finish(r)
  PROVE  OneWay'
<1> USE TransportAssumption
<1> DEFINE i == report[r].id
           d == DocumentOf(r)
<1>i. ClaimInv /\ CarryInv /\ PendingIsOpen /\ ReportInv /\ ResultInv
  BY DEF OneWay
<1>u. UNCHANGED <<stream, cursor, pel, reader, batch, chan>>
  BY DEF transportVars, redisVars, readerVars
<1>1. /\ report[r] \in Reporting
      /\ report[r] # Idle
      /\ i \in handed[report[r].topic]
      /\ \A j \in Ids : pending[j] # NoAgent => j # i
      /\ \A q \in Reporters \ {r} : report[q] # Idle => report[q].id # i
  BY HeldReport
<1>2. d \in Result /\ d.exec_id = i /\ i \in Ids /\ report[r].lost \in 0 .. Retries
  BY <1>1 DEF DocumentOf, Result, Reporting
<1>3. \A e \in Result : e.exec_id = i => results[e] = IF e = d THEN report[r].lost ELSE 0
  BY <1>i DEF ResultInv, OneReportPerTask
<1>5. /\ results'[d] = report[r].lost + 1
      /\ \A e \in Result \ {d} : results'[e] = results[e]
  BY <1>2, <1>3 DEF TypeOK, AddResult
<1>6. (\E e \in Result : e.exec_id = i /\ results'[e] > 0)
      /\ \A j \in Ids \ {i} : Reported(j)' <=> Reported(j)
  <2>1. \E e \in Result : e.exec_id = i /\ results'[e] > 0
    BY <1>2, <1>5
  <2>2. ASSUME NEW j \in Ids \ {i} PROVE Reported(j)' <=> Reported(j)
    BY <1>2, <1>5 DEF Reported
  <2>3. QED
    BY <2>1, <2>2
<1>r. \A q \in Reporters \ {r} : report'[q] = report[q]
  BY DEF Finish, TypeOK
<1>s. \/ report' = [report EXCEPT ![r].lost = @ + 1]
      \/ report'[r].at # "taken"
  <2>1. CASE report' = [report EXCEPT ![r].at = "published"]
    BY <2>1, <1>1 DEF TypeOK, Reporting
  <2>2. CASE Finish(r)
    BY <2>2 DEF Finish, Idle, TypeOK
  <2>3. QED
    BY <2>1, <2>2
<1>7. PendingIsOpen'
  BY <1>u, <1>1, <1>6, <1>i DEF PendingIsOpen
<1>8. ResultInv'
  <2>1. OneReportPerTask'
    <3>1. ASSUME NEW e \in Result, NEW f \in Result,
                 e.exec_id = f.exec_id, results'[e] > 0, results'[f] > 0
          PROVE  e = f
      <4>1. CASE e.exec_id = i
        <5>1. \A g \in Result : g.exec_id = i /\ results'[g] > 0 => g = d
          <6> HIDE DEF d, i
          <6>1. \A g \in Result : g # d => results'[g] = results[g]
            BY <1>5
          <6>2. QED
            BY <1>3, <6>1
        <5>2. QED
          BY <3>1, <4>1, <5>1
      <4>2. CASE e.exec_id # i
        BY <3>1, <4>2, <1>2, <1>5, <1>i DEF ResultInv, OneReportPerTask
      <4>3. QED
        BY <4>1, <4>2
    <3>2. \A e \in Result : results'[e] <= 1 + Retries
      BY <1>2, <1>5, <1>i DEF ResultInv, OneReportPerTask
    <3>3. ASSUME NEW q \in Reporters, NEW e \in Result,
                 report'[q].at = "taken", e.exec_id = report'[q].id
          PROVE  results'[e] = IF e = DocumentOf(q)' THEN report'[q].lost ELSE 0
      <4>1. CASE q = r
        <5>1. /\ report'[r].lost = report[r].lost + 1
              /\ report'[r].id = i
              /\ DocumentOf(r)' = d
          BY <3>3, <4>1, <1>s, <1>1 DEF TypeOK, Reporting, DocumentOf
        <5>2. QED
          <6> HIDE DEF d, i
          <6>1. QED
            BY <3>3, <4>1, <5>1, <1>2, <1>3, <1>5
      <4>2. CASE q # r
        <5>1. report'[q] = report[q] /\ DocumentOf(q)' = DocumentOf(q)
          BY <4>2, <1>r DEF DocumentOf
        <5>2. report[q].id # i
          BY <3>3, <4>2, <5>1, <1>1 DEF Idle
        <5>3. e # d
          BY <3>3, <5>1, <5>2, <1>2
        <5>4. QED
          BY <3>3, <5>1, <5>3, <1>5, <1>i DEF ResultInv, OneReportPerTask
      <4>3. QED
        BY <4>1, <4>2
    <3>4. QED
      BY <3>1, <3>2, <3>3 DEF OneReportPerTask
  <2>2. ResultBeforeAck'
    <3> SUFFICES ASSUME NEW a \in Agents, NEW j \in handed[a], j \notin pel[a]
                 PROVE  Reported(j)'
      BY <1>u DEF ResultBeforeAck
    <3>1. Reported(j) /\ j \in Ids
      BY <1>i DEF ResultInv, ResultBeforeAck, TypeOK
    <3>2. CASE j = i
      BY <3>2, <1>6 DEF Reported
    <3>3. CASE j # i
      BY <1>6, <3>1, <3>3
    <3>4. QED
      BY <3>2, <3>3
  <2>3. \A j \in Ids : Reported(j)' => \E a \in Agents : j \in handed'[a]
    BY <1>1, <1>6, <1>i DEF ResultInv, Reporting
  <2>4. QED
    BY <2>1, <2>2, <2>3 DEF ResultInv
<1>9. ReportInv'
  <2>1. \A q \in Reporters \ {r} : report[q] # Idle =>
          report[q].id \in Ids \ {i}
    BY <1>1 DEF TypeOK, Reporting
  <2>2. CASE Finish(r)
    BY <2>2, <1>u, <1>1, <1>6, <1>i, FinishKeepsReports
  <2>3. CASE \/ report' = [report EXCEPT ![r].lost = @ + 1]
             \/ report' = [report EXCEPT ![r].at = "published"]
    <3>1. /\ report'[r].at \in {"taken", "published"}
          /\ report'[r].id = i
          /\ report'[r].topic = report[r].topic
      BY <2>3, <1>1 DEF TypeOK, Reporting
    <3>0. i \in pel[report[r].topic]
      BY <1>1, <1>i DEF ReportInv
    <3> SUFFICES ASSUME NEW q \in Reporters, report'[q] # Idle
                 PROVE  /\ report'[q].id \in handed'[report'[q].topic]
                        /\ pending'[report'[q].id] = NoAgent
                        /\ \A w \in Reporters \ {q} :
                             report'[w] # Idle => report'[w].id # report'[q].id
                        /\ report'[q].at = "taken" =>
                             report'[q].id \in pel'[report'[q].topic]
                        /\ report'[q].at = "published" => Reported(report[q].id)'
      BY DEF ReportInv
    <3>2. CASE q = r
      <4>1. Reported(report[q].id)'
        BY <3>1, <3>2, <1>6 DEF Reported
      <4>2. QED
        BY <3>0, <3>1, <3>2, <4>1, <1>u, <1>r, <1>1, <1>2, <1>i DEF ReportInv
    <3>3. CASE q # r
      BY <3>1, <3>3, <2>1, <1>u, <1>r, <1>1, <1>6, <1>i DEF ReportInv
    <3>4. QED
      BY <3>2, <3>3
  <2>4. QED
    BY <2>2, <2>3
<1>10. QED
  BY <1>u, <1>i, <1>7, <1>8, <1>9, Frames DEF OneWay

\* Acknowledging the task after its result keeps it.
LEMMA AckKeepsOneWay ==
  ASSUME DistinctIds, TypeOK, OneWay, NEW r \in Reporters, AckTask(r)
  PROVE  OneWay'
<1> USE DEF Agents
<1> DEFINE i == report[r].id
           t == report[r].topic
<1>i. ClaimInv /\ CarryInv /\ PendingIsOpen /\ ReportInv /\ ResultInv
  BY DEF OneWay
<1>1. /\ report[r] \in Reporting
      /\ report[r] # Idle
      /\ i \in handed[t]
      /\ \A j \in Ids : pending[j] # NoAgent => j # i
      /\ \A q \in Reporters \ {r} : report[q] # Idle => report[q].id # i
  BY HeldReport DEF AckTask
<1>2. t \in Topics /\ i \in Ids
  BY <1>1 DEF Reporting
<1>3. Reported(i)
  BY <1>1, <1>i DEF AckTask, ReportInv
<1>4. /\ UNCHANGED <<stream, cursor, reader, batch, chan, pending, results, handed>>
      /\ pel' = [pel EXCEPT ![t] = @ \ {i}]
      /\ Finish(r)
  BY DEF AckTask, Ack, readerVars
<1>5. \A a \in Topics : pel'[a] \subseteq pel[a] /\ pel[a] \ {i} \subseteq pel'[a]
  BY <1>2, <1>4 DEF TypeOK, TransportTypeOK
<1>6. \A j \in Ids : Reported(j)' = Reported(j)
  BY <1>4 DEF Reported
<1>7. ClaimInv'
  BY <1>4, <1>5, <1>i DEF ClaimInv, PastCursor
<1>8. CarryInv'
  <2>1. \A u \in Subscribers : Carried(u)' = Carried(u)
    BY <1>4 DEF Carried
  <2>2. ASSUME NEW u \in Subscribers
        PROVE  Carried(u)' \subseteq pel'[TopicOf[u]] \ handed'[TopicOf[u]]
    <3>0. TopicOf[u] \in Topics
      BY TransportAssumption
    <3>1. Carried(u) \subseteq pel[TopicOf[u]] \ handed[TopicOf[u]]
      BY <1>i DEF CarryInv
    <3>2. i \notin Carried(u)
      BY <3>0, <3>1, <1>1, <1>2, <1>i, OneStream
    <3>3. QED
      BY <3>0, <3>1, <3>2, <2>1, <1>4, <1>5
  <2>3. QED
    BY <2>1, <2>2, <1>4, <1>i DEF CarryInv
<1>9. PendingIsOpen'
  BY <1>1, <1>4, <1>5, <1>6, <1>i DEF PendingIsOpen, TypeOK
<1>10. ReportInv'
  BY <1>1, <1>4, <1>5, <1>6, <1>i, FinishKeepsReports
<1>11. ResultInv'
  <2>1. OneReportPerTask'
    BY <1>4, <1>i, FinishKeepsResults DEF ResultInv
  <2>2. ASSUME NEW a \in Agents, NEW j \in handed'[a], j \notin pel'[a] PROVE Reported(j)'
    <3>1. j \in handed[a] /\ j \in Ids
      BY <2>2, <1>4 DEF TypeOK
    <3>2. CASE j = i
      BY <3>2, <1>3, <1>6, <1>2
    <3>3. CASE j # i
      BY <3>1, <3>3, <2>2, <1>5, <1>6, <1>i DEF ResultInv, ResultBeforeAck
    <3>4. QED
      BY <3>2, <3>3
  <2>3. \A j \in Ids : Reported(j)' => \E a \in Agents : j \in handed'[a]
    BY <1>4, <1>6, <1>i DEF ResultInv
  <2>4. QED
    BY <2>1, <2>2, <2>3 DEF ResultInv, ResultBeforeAck
<1>12. QED
  BY <1>7, <1>8, <1>9, <1>10, <1>11 DEF OneWay

\* So does every step of a report.
LEMMA ReportKeepsOneWay ==
  ASSUME DistinctIds, TypeOK, OneWay, NEW r \in Reporters, ReportStep(r)
  PROVE  OneWay'
<1>i. ClaimInv /\ CarryInv /\ PendingIsOpen /\ ReportInv /\ ResultInv
  BY DEF OneWay
<1>1. ASSUME report[r].at # "idle", Finish(r), UNCHANGED <<transportVars, pending, results, handed>>
      PROVE  OneWay'
  <2>1. UNCHANGED <<stream, cursor, pel, reader, batch, chan>>
    BY <1>1 DEF transportVars, redisVars, readerVars
  <2>2. report[r] # Idle
    BY <1>1 DEF Idle
  <2>3. ReportInv'
    BY <1>1, <1>i, <2>1, <2>2, FinishKeepsReports DEF Reported
  <2>4. ResultInv'
    <3>1. OneReportPerTask'
      BY <1>1, <1>i, FinishKeepsResults DEF ResultInv
    <3>2. QED
      BY <1>1, <1>i, <2>1, <3>1 DEF ResultInv, ResultBeforeAck, Reported
  <2>5. QED
    BY <1>1, <1>i, <2>1, <2>3, <2>4, Frames DEF OneWay
<1>0. CASE PublishRetried(r)
  BY <1>0, PublishKeepsOneWay DEF PublishRetried
<1>2. CASE Publish(r)
  BY <1>2, PublishKeepsOneWay DEF Publish
<1>3. CASE PublishFails(r)
  <2>1. report[r].at = "taken" /\ Finish(r) /\ UNCHANGED <<transportVars, pending, handed>>
    BY <1>3 DEF PublishFails
  <2>2. CASE UNCHANGED results
    BY <2>1, <2>2, <1>1
  <2>3. CASE AddResult(r)
    BY <2>1, <2>3, PublishKeepsOneWay
  <2>4. QED
    BY <1>3, <2>2, <2>3 DEF PublishFails
<1>4. CASE AckTask(r)
  BY <1>4, AckKeepsOneWay
<1>5. CASE AckFails(r)
  BY <1>5, <1>1 DEF AckFails
<1>6. QED
  BY <1>0, <1>2, <1>3, <1>4, <1>5 DEF ReportStep

\* No step of the gateway, of Redis or of the orchestrator moves a task back.
LEMMA NextKeepsOneWay ==
  ASSUME DistinctIds, TypeOK, OneWay, [Next]_vars
  PROVE  OneWay'
<1>i. ClaimInv /\ CarryInv /\ PendingIsOpen /\ ReportInv /\ ResultInv
  BY DEF OneWay
<1>1. ASSUME NEW a \in Agents, NEW i \in Ids, Enqueue(a, i) PROVE OneWay'
  <2>1. /\ i \in IdsOf[a]
        /\ stream' = [stream EXCEPT ![a] = @ \cup {i}]
        /\ UNCHANGED <<cursor, pel, reader, batch, chan, pending, report, results, handed>>
    BY <1>1 DEF Enqueue, Add, readerVars, gatewayVars
  <2>2. ClaimInv'
    BY <1>i, <2>1 DEF ClaimInv, PastCursor, TypeOK, TransportTypeOK, Agents
  <2>3. QED
    BY <1>i, <2>1, <2>2, Frames DEF OneWay
<1>2. ASSUME NEW s \in Subscribers, StartGet(s) \/ ReturnEmpty(s) \/ CancelRequest(s)
      PROVE  OneWay'
  <2>1. UNCHANGED <<stream, cursor, pel, reader, batch, chan, pending, report, results, handed>>
    BY <1>2 DEF StartGet, OpenRequest, ReturnEmpty, CancelRequest, Cancel, redisVars,
                readerVars, transportVars, gatewayVars
  <2>2. QED
    BY <1>i, <2>1, Frames DEF OneWay
<1>3. ASSUME NEW s \in Subscribers, SubscribeStep(s) PROVE OneWay'
  BY <1>3, SubscribeKeepsOneWay
<1>4. ASSUME NEW s \in Subscribers, ReturnTask(s) PROVE OneWay'
  BY <1>4, ReturnTaskKeepsOneWay
<1>5. ASSUME NEW s \in Subscribers, Reader(s) PROVE OneWay'
  BY <1>5, ReaderKeepsOneWay
<1>6. ASSUME NEW r \in Reporters, NEW a \in Agents, NEW k \in Kinds, NEW i \in Ids,
             LoadAndDelete(r, a, k, i)
      PROVE  OneWay'
  BY <1>6, LoadAndDeleteKeepsOneWay
<1>7. ASSUME NEW r \in Reporters, ReportStep(r) PROVE OneWay'
  BY <1>7, ReportKeepsOneWay
<1>8. ASSUME NEW i \in Ids, Age(i) PROVE OneWay'
  BY <1>8, <1>i, Frames DEF Age, transportVars, redisVars, readerVars, OneWay
<1>9. CASE Evict
  <2>1. UNCHANGED <<stream, cursor, pel, reader, batch, chan, report, results, handed>>
    BY <1>9 DEF Evict, transportVars, redisVars, readerVars
  <2>2. \A i \in Ids : pending'[i] \in {pending[i], NoAgent}
    BY <1>9 DEF Evict
  <2>3. PendingIsOpen'
    BY <1>i, <2>1, <2>2 DEF PendingIsOpen, Reported
  <2>4. ReportInv'
    <3>1. \A r \in Reporters : report[r] # Idle => report[r].id \in Ids
      BY DEF TypeOK, Reporting
    <3>2. QED
      BY <1>i, <2>1, <2>2, <3>1 DEF ReportInv, Reported
  <2>5. QED
    BY <1>i, <2>1, <2>3, <2>4, Frames DEF OneWay
<1>10. CASE Restart
  <2>1. /\ UNCHANGED <<stream, cursor, pel, results, handed>>
        /\ \A s \in Subscribers :
             /\ reader'[s] = "off"
             /\ batch'[s] = {}
             /\ chan'[s] = NoId
        /\ \A i \in Ids : pending'[i] = NoAgent
        /\ \A r \in Reporters : report'[r] = Idle
    BY <1>10 DEF Restart, Vanish, redisVars
  <2>2. CarryInv'
    BY <2>1 DEF CarryInv, Carried
  <2>3. PendingIsOpen' /\ ReportInv'
    BY <2>1 DEF PendingIsOpen, ReportInv
  <2>4. ResultInv'
    <3>1. OneReportPerTask'
      BY <1>i, <2>1, ResultsOfReports DEF ResultInv, Idle
    <3>2. QED
      BY <1>i, <2>1, <3>1 DEF ResultInv, ResultBeforeAck, Reported
  <2>5. QED
    BY <1>i, <2>1, <2>2, <2>3, <2>4, Frames DEF OneWay
<1>11. CASE UNCHANGED vars
  BY <1>11, <1>i, Frames
  DEF vars, gatewayVars, transportVars, redisVars, readerVars, OneWay
<1>12. QED
  BY <1>1, <1>2, <1>3, <1>4, <1>5, <1>6, <1>7, <1>8, <1>9, <1>10, <1>11 DEF Next

\* The invariant behind the properties below: a task moves from its stream to one
\* reader, on to the PendingMap, on to one report, and never back.
THEOREM TasksMoveOneWay == ASSUME DistinctIds PROVE Spec => []OneWay
<1>1. Init => OneWay
  <2> SUFFICES ASSUME Init PROVE OneWay
    OBVIOUS
  <2> USE TransportAssumption DEF Init, TransportInit
  <2>1. ClaimInv
    BY DEF ClaimInv, Agents
  <2>2. CarryInv
    BY DEF CarryInv, Carried
  <2>3. PendingIsOpen /\ ReportInv
    BY DEF PendingIsOpen, ReportInv
  <2>4. \A d \in Result : ~(results[d] > 0)
    OBVIOUS
  <2>5. ResultInv
    <3>1. OneReportPerTask
      BY <2>4 DEF OneReportPerTask, Idle
    <3>2. QED
      BY <2>4, <3>1 DEF ResultInv, ResultBeforeAck, Reported
  <2>6. QED
    BY <2>1, <2>2, <2>3, <2>5 DEF OneWay
<1>2. TypeOK /\ OneWay /\ [Next]_vars => OneWay'
  BY NextKeepsOneWay
<1>3. QED
  BY <1>1, <1>2, TypeCorrect, PTL DEF Spec

-------------------------------------------------------------------------------
(* The safety properties, for every value of the constants.                *)

\* The results of a task are copies of one report's document, no more than the attempts
\* of the Redis client, however many calls race, fail half-way, or straddle restarts.
THEOREM OneReportPublishes == ASSUME DistinctIds PROVE Spec => []OneReportPerTask
<1>1. OneWay => OneReportPerTask
  BY DEF OneWay, ResultInv
<1>2. QED
  BY <1>1, TasksMoveOneWay, PTL

\* The gateway acknowledges a task it handed out only after publishing a result.
THEOREM AckFollowsResult == ASSUME DistinctIds PROVE Spec => []ResultBeforeAck
<1>1. OneWay => ResultBeforeAck
  BY DEF OneWay, ResultInv
<1>2. QED
  BY <1>1, TasksMoveOneWay, PTL

\* Every id in the PendingMap is one its agent holds, unacknowledged and unreported.
THEOREM PendingStaysOpen == ASSUME DistinctIds PROVE Spec => []PendingIsOpen
<1>1. OneWay => PendingIsOpen
  BY DEF OneWay
<1>2. QED
  BY <1>1, TasksMoveOneWay, PTL

\* A task is never in two places: two get_task calls, the PendingMap, two reports.
THEOREM ExclusiveHolder == ASSUME DistinctIds PROVE Spec => []OneHolder
<1>1. TypeOK /\ OneWay => OneHolder
  <2> SUFFICES ASSUME TypeOK, OneWay PROVE OneHolder
    OBVIOUS
  <2>i. ClaimInv /\ CarryInv /\ PendingIsOpen /\ ReportInv
    BY DEF OneWay
  <2>1. \A s \in Subscribers : InTransit(s) \subseteq Carried(s)
    BY DEF InTransit, Carried
  <2>2. \A s, u \in Subscribers : s # u => InTransit(s) \cap InTransit(u) = {}
    BY <2>1, <2>i DEF CarryInv
  <2>3. \A s \in Subscribers : chan[s] \notin batch[s]
    BY <2>i DEF CarryInv
  <2>4. ASSUME NEW s \in Subscribers, NEW i \in InTransit(s)
        PROVE  i \in Ids /\ \A a \in Agents : i \notin handed[a]
    <3>1. i \in pel[TopicOf[s]] \ handed[TopicOf[s]]
      BY <2>1, <2>i DEF CarryInv
    <3>2. TopicOf[s] \in Agents
      BY TransportAssumption DEF Agents
    <3>3. i \in Ids
      BY <3>1, <3>2 DEF TypeOK, TransportTypeOK, Agents
    <3>4. QED
      BY <3>1, <3>2, <3>3, <2>i, OneStream
  <2>5. ASSUME NEW s \in Subscribers, NEW i \in InTransit(s) PROVE pending[i] = NoAgent
    BY <2>4, <2>i DEF PendingIsOpen, TypeOK
  <2>6. ASSUME NEW s \in Subscribers, NEW i \in InTransit(s), NEW r \in Reporters,
               report[r] # Idle
        PROVE  report[r].id # i
    BY <2>4, <2>6, <2>i DEF ReportInv, TypeOK, Reporting
  <2>7. QED
    BY <2>2, <2>3, <2>5, <2>6, <2>i DEF OneHolder, ReportInv
<1>2. QED
  BY <1>1, TasksMoveOneWay, TypeCorrect, PTL

\* get_task never returns a task a second time, to any agent, not even after the
\* gateway restarted.
THEOREM NoRedelivery == ASSUME DistinctIds PROVE Spec => HandedOnce
<1>1. ASSUME TypeOK, OneWay, [Next]_vars,
             NEW a \in Agents, NEW i \in handed[a], pending[i] = NoAgent
      PROVE  pending'[i] = NoAgent
  <2>0. i \in Ids
    BY <1>1 DEF TypeOK
  <2>1. ASSUME NEW s \in Subscribers, ReturnTask(s) PROVE pending'[i] = NoAgent
    <3>1. chan[s] # i
      BY <1>1, <2>1, ReturnTaskIsFresh
    <3>2. QED
      BY <1>1, <2>0, <2>1, <3>1 DEF ReturnTask, Store, TypeOK
  <2>2. CASE UNCHANGED pending
    BY <1>1, <2>2
  <2>3. ASSUME NEW r \in Reporters, NEW b \in Agents, NEW k \in Kinds, NEW j \in Ids,
               LoadAndDelete(r, b, k, j)
        PROVE  pending'[i] = NoAgent
    BY <1>1, <2>0, <2>3 DEF LoadAndDelete, TypeOK
  <2>4. CASE Evict
    BY <1>1, <2>0, <2>4 DEF Evict
  <2>5. CASE Restart
    BY <2>0, <2>5 DEF Restart
  <2>6. QED
    BY <1>1, <2>1, <2>2, <2>3, <2>4, <2>5
    DEF Next, vars, gatewayVars, Enqueue, StartGet, SubscribeStep, ReturnEmpty,
        CancelRequest, Reader, ReportStep, PublishRetried, Publish, PublishFails, AckTask, AckFails, Age
<1>2. TypeOK /\ OneWay /\ [Next]_vars =>
        [\A a \in Agents : \A i \in handed[a] :
           pending[i] = NoAgent => pending'[i] = NoAgent]_vars
  BY <1>1
<1>3. QED
  BY <1>2, TasksMoveOneWay, TypeCorrect, PTL DEF Spec, HandedOnce

-------------------------------------------------------------------------------
(* The pending limit under concurrent get_task calls.                      *)

\* A call that passed the check holds a place until it returns: each of the agent's
\* calls in flight may add one entry to those the check saw.
LimitInv ==
  \A a \in Agents :
    /\ IsFiniteSet(PendingOf(a))
    /\ MaxPending > 0 =>
         CountByAgent(a) + Cardinality(InFlight(a)) <=
           MaxPending + Cardinality(CallsOf(a))

\* Fewer entries and fewer calls in flight keep the bound.
LEMMA LimitShrinks ==
  ASSUME IsFiniteSet(Subscribers), MaxPending \in Nat, LimitInv,
         NEW a \in Agents,
         PendingOf(a)' \subseteq PendingOf(a),
         InFlight(a)' \subseteq InFlight(a)
  PROVE  /\ IsFiniteSet(PendingOf(a)')
         /\ MaxPending > 0 =>
              Cardinality(PendingOf(a)') + Cardinality(InFlight(a)') <=
                MaxPending + Cardinality(CallsOf(a))
<1>1. IsFiniteSet(PendingOf(a)) /\ IsFiniteSet(InFlight(a)) /\ IsFiniteSet(CallsOf(a))
  BY FS_Subset DEF LimitInv, InFlight, CallsOf
<1>2. /\ IsFiniteSet(PendingOf(a)')
      /\ Cardinality(PendingOf(a)') <= Cardinality(PendingOf(a))
      /\ Cardinality(InFlight(a)') <= Cardinality(InFlight(a))
      /\ IsFiniteSet(InFlight(a)')
  BY <1>1, FS_Subset
<1>3. /\ Cardinality(PendingOf(a)') \in Nat /\ Cardinality(PendingOf(a)) \in Nat
      /\ Cardinality(InFlight(a)') \in Nat /\ Cardinality(InFlight(a)) \in Nat
      /\ Cardinality(CallsOf(a)) \in Nat
  BY <1>1, <1>2, FS_CardinalityType
<1>4. QED
  BY <1>2, <1>3 DEF LimitInv, CountByAgent

\* The limit check admits one task beyond max_pending_tasks, and every get_task call
\* that an agent runs at once may pass it on the same count: what the agent holds and
\* its calls in flight are together never more than that.
THEOREM PendingStaysBounded ==
  ASSUME IsFiniteSet(Subscribers) PROVE Spec => []PendingBound
<1> USE TransportAssumption, GatewayAssumption
<1>f. \A a \in Agents : IsFiniteSet(CallsOf(a)) /\ Cardinality(CallsOf(a)) \in Nat
  BY FS_Subset, FS_CardinalityType DEF CallsOf
<1>1. Init => LimitInv
  <2> SUFFICES ASSUME Init, NEW a \in Agents
               PROVE  /\ IsFiniteSet(PendingOf(a))
                      /\ MaxPending > 0 =>
                           CountByAgent(a) + Cardinality(InFlight(a)) <=
                             MaxPending + Cardinality(CallsOf(a))
    BY DEF LimitInv
  <2>1. PendingOf(a) = {} /\ InFlight(a) = {}
    BY DEF Init, PendingOf, InFlight, CallsOf
  <2>2. QED
    BY <2>1, <1>f, FS_EmptySet DEF CountByAgent
<1>2. TypeOK /\ LimitInv /\ [Next]_vars => LimitInv'
  <2> SUFFICES ASSUME TypeOK, LimitInv, [Next]_vars, NEW a \in Agents
               PROVE  /\ IsFiniteSet(PendingOf(a)')
                      /\ MaxPending > 0 =>
                           Cardinality(PendingOf(a)') + Cardinality(InFlight(a)') <=
                             MaxPending + Cardinality(CallsOf(a))
    BY DEF LimitInv, CountByAgent
  <2>1. ASSUME NEW s \in Subscribers, StartGet(s)
        PROVE  /\ IsFiniteSet(PendingOf(a)')
               /\ MaxPending > 0 =>
                    Cardinality(PendingOf(a)') + Cardinality(InFlight(a)') <=
                      MaxPending + Cardinality(CallsOf(a))
    <3>1. pending' = pending /\ call' = [call EXCEPT ![s] = "admitted"]
      BY <2>1 DEF StartGet
    <3>2. PendingOf(a)' = PendingOf(a)
      BY <3>1 DEF PendingOf
    <3>3. CASE TopicOf[s] = a
      <4>1. /\ Cardinality(InFlight(a)') <= Cardinality(CallsOf(a))
            /\ Cardinality(InFlight(a)') \in Nat
        BY <1>f, FS_Subset, FS_CardinalityType DEF InFlight
      <4>2. IsFiniteSet(PendingOf(a)) /\ Cardinality(PendingOf(a)) \in Nat
        BY FS_CardinalityType DEF LimitInv
      <4>3. MaxPending > 0 => Cardinality(PendingOf(a)) <= MaxPending
        BY <2>1, <3>3 DEF StartGet, WithinPendingLimit, CountByAgent
      <4>4. QED
        BY <3>2, <4>1, <4>2, <4>3, <1>f
    <3>4. CASE TopicOf[s] # a
      <4>1. InFlight(a)' = InFlight(a)
        BY <3>1, <3>4 DEF InFlight, CallsOf, TypeOK
      <4>2. QED
        BY <3>2, <4>1, LimitShrinks
    <3>5. QED
      BY <3>3, <3>4
  <2>2. ASSUME NEW s \in Subscribers, ReturnTask(s)
        PROVE  /\ IsFiniteSet(PendingOf(a)')
               /\ MaxPending > 0 =>
                    Cardinality(PendingOf(a)') + Cardinality(InFlight(a)') <=
                      MaxPending + Cardinality(CallsOf(a))
    <3>1. /\ pending' = [pending EXCEPT ![chan[s]] = TopicOf[s]]
          /\ call[s] = "waiting"
          /\ call' = [call EXCEPT ![s] = "idle"]
      BY <2>2 DEF ReturnTask, Store
    <3>2. CASE TopicOf[s] = a
      <4>1. PendingOf(a)' \subseteq PendingOf(a) \cup {chan[s]}
        BY <3>1, <3>2 DEF PendingOf, TypeOK
      <4>2. InFlight(a)' = InFlight(a) \ {s} /\ s \in InFlight(a)
        BY <3>1, <3>2 DEF InFlight, CallsOf, TypeOK
      <4>3. IsFiniteSet(InFlight(a)) /\ IsFiniteSet(PendingOf(a))
        BY <1>f, FS_Subset DEF InFlight, LimitInv
      <4>4. Cardinality(InFlight(a)') = Cardinality(InFlight(a)) - 1
        BY <4>2, <4>3, FS_RemoveElement, ZenonT(60)
      <4>5. /\ IsFiniteSet(PendingOf(a) \cup {chan[s]})
            /\ Cardinality(PendingOf(a) \cup {chan[s]}) <= Cardinality(PendingOf(a)) + 1
        <5> DEFINE S == PendingOf(a)
                   x == chan[s]
        <5>1. IsFiniteSet(S) /\ Cardinality(S) \in Nat
          BY <4>3, FS_CardinalityType
        <5> HIDE DEF S, x
        <5>2. /\ IsFiniteSet(S \cup {x})
              /\ Cardinality(S \cup {x}) = IF x \in S THEN Cardinality(S) ELSE Cardinality(S) + 1
          BY <5>1, FS_AddElement
        <5>3. IsFiniteSet(S \cup {x}) /\ Cardinality(S \cup {x}) <= Cardinality(S) + 1
          BY <5>1, <5>2
        <5>4. QED
          BY <5>3 DEF S, x
      <4>6. /\ IsFiniteSet(PendingOf(a)')
            /\ Cardinality(PendingOf(a)') <= Cardinality(PendingOf(a) \cup {chan[s]})
        BY <4>1, <4>5, FS_Subset
      <4>7. /\ Cardinality(PendingOf(a)) \in Nat
            /\ Cardinality(PendingOf(a)') \in Nat
            /\ Cardinality(PendingOf(a) \cup {chan[s]}) \in Nat
            /\ Cardinality(InFlight(a)) \in Nat
        BY <4>3, <4>5, <4>6, FS_CardinalityType
      <4>8. QED
        BY <4>4, <4>5, <4>6, <4>7, <1>f DEF LimitInv, CountByAgent
    <3>3. CASE TopicOf[s] # a
      <4>1. PendingOf(a)' \subseteq PendingOf(a) /\ InFlight(a)' = InFlight(a)
        BY <3>1, <3>3 DEF PendingOf, InFlight, CallsOf, TypeOK
      <4>2. QED
        BY <4>1, LimitShrinks
    <3>4. QED
      BY <3>2, <3>3
  <2>3. ASSUME \A i \in Ids : pending'[i] \in {pending[i], NoAgent},
               \A s \in Subscribers : call'[s] # "idle" => call[s] # "idle"
        PROVE  /\ IsFiniteSet(PendingOf(a)')
               /\ MaxPending > 0 =>
                    Cardinality(PendingOf(a)') + Cardinality(InFlight(a)') <=
                      MaxPending + Cardinality(CallsOf(a))
    <3>1. PendingOf(a)' \subseteq PendingOf(a)
      BY <2>3 DEF PendingOf, Agents
    <3>2. InFlight(a)' \subseteq InFlight(a)
      BY <2>3 DEF InFlight, CallsOf
    <3>3. QED
      BY <3>1, <3>2, LimitShrinks
  <2>4. ASSUME NEW s \in Subscribers, SubscribeStep(s) \/ ReturnEmpty(s)
        PROVE  /\ \A i \in Ids : pending'[i] \in {pending[i], NoAgent}
               /\ \A u \in Subscribers : call'[u] # "idle" => call[u] # "idle"
    BY <2>4 DEF SubscribeStep, ReturnEmpty, TypeOK
  <2>5. ASSUME NEW r \in Reporters, NEW b \in Agents, NEW k \in Kinds, NEW i \in Ids,
               LoadAndDelete(r, b, k, i)
        PROVE  (\A j \in Ids : pending'[j] \in {pending[j], NoAgent}) /\ call' = call
    BY <2>5 DEF LoadAndDelete, TypeOK
  <2>6. CASE Evict
    BY <2>3, <2>6 DEF Evict
  <2>7. CASE Restart
    BY <2>3, <2>7 DEF Restart
  <2>8. CASE UNCHANGED <<call, pending>>
    BY <2>3, <2>8
  <2>9. QED
    BY <2>1, <2>2, <2>3, <2>4, <2>5, <2>6, <2>7, <2>8
    DEF Next, vars, gatewayVars, Enqueue, CancelRequest, Reader, ReportStep,
        PublishRetried, Publish, PublishFails, AckTask, AckFails, Age
<1>3. LimitInv => PendingBound
  BY DEF LimitInv, PendingBound
<1>4. QED
  BY <1>1, <1>2, <1>3, TypeCorrect, PTL DEF Spec
===============================================================================
