---------------------------- MODULE RedisTransport ----------------------------
(***************************************************************************)
(* pkg/transport/redis: Redis streams read through one consumer group.     *)
(*                                                                         *)
(* Every topic is a Redis stream with (at most) one consumer group, shared *)
(* by every subscription.  Subscribe creates the group and starts a reader *)
(* goroutine (readLoop) that owns a channel of capacity one; the reader    *)
(* outlives the tool call that subscribed and stops only when it notices   *)
(* that the call's context is cancelled.  Redis itself is external: an     *)
(* entry that XREADGROUP ">" has handed out stays in the group's pending   *)
(* entries list (pel) until it is acknowledged, and ">" never returns it   *)
(* again.                                                                  *)
(*                                                                         *)
(* A stream entry is identified by its topic and its id.  Ids are positive *)
(* and ascend within a stream; document contents are abstracted to whether *)
(* parseMsg accepts the entry.                                             *)
(*                                                                         *)
(* The client sends a command again when its reply was lost, so a command  *)
(* may be executed more than once.  XACK and XGROUP CREATE have no further *)
(* effect then, and a repeated XREADGROUP is ReadFails followed by another *)
(* read.  A repeated XADD adds another entry: the modules that publish     *)
(* model it.                                                               *)
(***************************************************************************)
EXTENDS Integers, FiniteSets

CONSTANTS
  Topics,       \* the streams
  IdsOf,        \* IdsOf[t]: the ids Redis may assign to the entries of stream t
  Malformed,    \* Malformed[t]: the ids of t whose entry parseMsg rejects
  Subscribers,  \* slots for tool calls that subscribe, each with its reader
  TopicOf,      \* TopicOf[s]: the stream that the calls of slot s read
  BatchSize,    \* COUNT of XREADGROUP (10 in the code)
  Retries,      \* how often the Redis client sends a command again when it got no
                \* reply (its default MaxRetries, 3)
  Faults        \* whether Redis commands may fail, their replies be lost, and
                \* clients give a call up before it returns

NoGroup == -1
NoId == 0
Ids == UNION {IdsOf[t] : t \in Topics}

ASSUME TransportAssumption ==
  /\ IdsOf \in [Topics -> SUBSET (Nat \ {0})]
  /\ Malformed \in [Topics -> SUBSET Ids]
  /\ TopicOf \in [Subscribers -> Topics]
  /\ BatchSize \in Nat \ {0}
  /\ Retries \in Nat
  /\ Faults \in BOOLEAN

VARIABLES
  stream,   \* Redis: ids of the entries added to each stream
  cursor,   \* Redis: the group's last-delivered id, NoGroup before XGROUP CREATE
  pel,      \* Redis: ids delivered to the group's consumer and not acknowledged
  ctx,      \* the request context of a tool call
  reader,   \* the reader goroutine's control state
  batch,    \* entries of the last XREADGROUP reply the reader has not passed on
  chan      \* the buffered delivery in the subscription's channel, or NoId

redisVars == <<stream, cursor, pel>>
readerVars == <<ctx, reader, batch, chan>>
transportVars == <<redisVars, readerVars>>

TransportInit ==
  /\ stream = [t \in Topics |-> {}]
  /\ cursor = [t \in Topics |-> NoGroup]
  /\ pel = [t \in Topics |-> {}]
  /\ ctx = [s \in Subscribers |-> "cancelled"]
  /\ reader = [s \in Subscribers |-> "off"]
  /\ batch = [s \in Subscribers |-> {}]
  /\ chan = [s \in Subscribers |-> NoId]

TransportTypeOK ==
  /\ stream \in [Topics -> SUBSET Ids]
  /\ cursor \in [Topics -> Int]
  /\ pel \in [Topics -> SUBSET Ids]
  /\ ctx \in [Subscribers -> {"live", "cancelled"}]
  /\ reader \in [Subscribers -> {"off", "poll", "read", "emit"}]
  /\ batch \in [Subscribers -> SUBSET Ids]
  /\ chan \in [Subscribers -> Ids \cup {NoId}]

-------------------------------------------------------------------------------
(* Redis: adding, claiming and acknowledging entries.                      *)

\* XADD with a server-assigned id, which ascends within the stream.
Add(t, i) ==
  /\ i \in IdsOf[t]
  /\ \A j \in stream[t] : j < i
  /\ stream' = [stream EXCEPT ![t] = @ \cup {i}]
  /\ UNCHANGED <<cursor, pel, readerVars>>

\* XADD MAXLEN ~ len (0 for none): Redis may drop the oldest entries as long as
\* len remain, in whole nodes and so possibly fewer than it could.
AddTrimming(t, i, len) ==
  LET all == stream[t] \cup {i} IN
  /\ i \in IdsOf[t]
  /\ \A j \in stream[t] : j < i
  /\ \E kept \in SUBSET all :
       /\ kept = all \/ (len # 0 /\ Cardinality(kept) >= len)
       /\ \A j \in all \ kept, k \in kept : j < k
       /\ stream' = [stream EXCEPT ![t] = kept]
  /\ UNCHANGED <<cursor, pel, readerVars>>

\* (Variant: a read that also returns entries already handed out.)
UndeliveredOrUnacked(t) ==
  {i \in stream[t] : cursor[t] # NoGroup /\ (i > cursor[t] \/ i \in pel[t])}

Undelivered(t) == {i \in stream[t] : cursor[t] # NoGroup /\ i > cursor[t]}

\* What one XREADGROUP ">" may return: the oldest entries, at most BatchSize.
NextBatches(t) ==
  {B \in SUBSET Undelivered(t) :
     /\ B # {}
     /\ \A i \in B, j \in Undelivered(t) \ B : i < j
     /\ IF Cardinality(Undelivered(t)) <= BatchSize
        THEN B = Undelivered(t)
        ELSE Cardinality(B) = BatchSize}

\* Redis hands B to the group: the entries enter the pel, the cursor moves on.
Claim(t, B) ==
  /\ \E last \in B : /\ \A i \in B : i <= last
                     /\ cursor' = [cursor EXCEPT ![t] = last]
  /\ pel' = [pel EXCEPT ![t] = @ \cup B]
  /\ UNCHANGED stream

-------------------------------------------------------------------------------
(* Subscribing.                                                            *)

\* A tool call begins, with a request context of its own.
OpenRequest(s) ==
  /\ reader[s] = "off"
  /\ ctx' = [ctx EXCEPT ![s] = "live"]
  /\ UNCHANGED <<redisVars, reader, batch, chan>>

\* XGROUP CREATE <stream> <group> $ MKSTREAM: a new group starts behind the
\* newest entry of the stream; BUSYGROUP (it exists) leaves it alone.
CreateGroup(t) ==
  /\ \E newest \in stream[t] \cup {0} :
       /\ \A i \in stream[t] : i <= newest
       /\ cursor' = [cursor EXCEPT ![t] = IF @ = NoGroup THEN newest ELSE @]
  /\ UNCHANGED <<stream, pel>>

\* (Variant: a slot's calls share one channel, with what an earlier one left in it.)
SubscribeSharing(s) ==
  /\ reader[s] = "off"
  /\ CreateGroup(TopicOf[s])
  /\ reader' = [reader EXCEPT ![s] = "poll"]
  /\ batch' = [batch EXCEPT ![s] = {}]
  /\ UNCHANGED <<ctx, chan>>

Subscribe(s) ==
  /\ reader[s] = "off"
  /\ CreateGroup(TopicOf[s])
  /\ reader' = [reader EXCEPT ![s] = "poll"]
  /\ batch' = [batch EXCEPT ![s] = {}]
  /\ chan' = [chan EXCEPT ![s] = NoId]
  /\ UNCHANGED ctx

\* XGROUP CREATE returns an error; it may have taken effect all the same.
SubscribeFails(s) ==
  /\ reader[s] = "off"
  /\ Faults \/ ctx[s] = "cancelled"
  /\ CreateGroup(TopicOf[s]) \/ UNCHANGED redisVars
  /\ UNCHANGED readerVars

\* The context of the request is cancelled: the MCP SDK does so some time after
\* the handler has returned, and earlier when the client gives the call up.
Cancel(s) ==
  /\ ctx[s] = "live"
  /\ ctx' = [ctx EXCEPT ![s] = "cancelled"]
  /\ UNCHANGED <<redisVars, reader, batch, chan>>

-------------------------------------------------------------------------------
(* The reader goroutine.                                                   *)

\* Its return drops the rest of the batch and closes the channel.
Stop(s) ==
  /\ reader' = [reader EXCEPT ![s] = "off"]
  /\ batch' = [batch EXCEPT ![s] = {}]

\* The cancellation check before each blocking read.
Poll(s) ==
  /\ reader[s] = "poll"
  /\ IF ctx[s] = "cancelled"
     THEN Stop(s)
     ELSE reader' = [reader EXCEPT ![s] = "read"] /\ UNCHANGED batch
  /\ UNCHANGED <<redisVars, ctx, chan>>

\* A blocked read is not woken by a cancellation, so the context is not looked at.
ReadBatch(s) ==
  /\ reader[s] = "read"
  /\ \E B \in NextBatches(TopicOf[s]) :
       /\ Claim(TopicOf[s], B)
       /\ batch' = [batch EXCEPT ![s] = B]
  /\ reader' = [reader EXCEPT ![s] = "emit"]
  /\ UNCHANGED <<ctx, chan>>

\* The block timeout (redis.Nil).
ReadNothing(s) ==
  /\ reader[s] = "read"
  /\ Undelivered(TopicOf[s]) = {}
  /\ reader' = [reader EXCEPT ![s] = "poll"]
  /\ UNCHANGED <<redisVars, ctx, batch, chan>>

\* The context error of a read issued after the cancellation.
ReadCancelled(s) ==
  /\ reader[s] = "read"
  /\ ctx[s] = "cancelled"
  /\ Stop(s)
  /\ UNCHANGED <<redisVars, ctx, chan>>

\* Any other error: the reader retries, or stops on a closed connection.  The
\* command may have been executed before its reply was lost.
ReadFails(s) ==
  /\ reader[s] = "read"
  /\ Faults
  /\ reader' \in {[reader EXCEPT ![s] = "poll"], [reader EXCEPT ![s] = "off"]}
  /\ \/ UNCHANGED redisVars
     \/ \E B \in NextBatches(TopicOf[s]) : Claim(TopicOf[s], B)
  /\ UNCHANGED <<ctx, batch, chan>>

IsNext(s, i) == i \in batch[s] /\ \A j \in batch[s] : i <= j

\* After the last entry of the batch the loop starts over.
Passed(s, i) ==
  /\ batch' = [batch EXCEPT ![s] = @ \ {i}]
  /\ reader' = [reader EXCEPT ![s] = IF batch[s] = {i} THEN "poll" ELSE "emit"]

\* A malformed entry is acknowledged and skipped; an error of XACK is ignored.  The
\* command takes the request's context, so it may fail once that is cancelled.
EmitMalformed(s, i) ==
  /\ reader[s] = "emit"
  /\ IsNext(s, i)
  /\ i \in Malformed[TopicOf[s]]
  /\ Passed(s, i)
  /\ \/ pel' = [pel EXCEPT ![TopicOf[s]] = @ \ {i}]
     \/ (Faults \/ ctx[s] = "cancelled") /\ UNCHANGED pel
  /\ UNCHANGED <<stream, cursor, ctx, chan>>

\* The select of readLoop: send when the channel has room ...
EmitSend(s, i) ==
  /\ reader[s] = "emit"
  /\ IsNext(s, i)
  /\ i \notin Malformed[TopicOf[s]]
  /\ chan[s] = NoId
  /\ chan' = [chan EXCEPT ![s] = i]
  /\ Passed(s, i)
  /\ UNCHANGED <<redisVars, ctx>>

\* (Variant: the abandoned rest of the batch is acknowledged, like malformed entries.)
EmitAbandonAcks(s, i) ==
  /\ reader[s] = "emit"
  /\ IsNext(s, i)
  /\ i \notin Malformed[TopicOf[s]]
  /\ ctx[s] = "cancelled"
  /\ Stop(s)
  /\ pel' = [pel EXCEPT ![TopicOf[s]] = @ \ batch[s]]
  /\ UNCHANGED <<stream, cursor, ctx, chan>>

\* (Variant: a plain blocking send, with no case for the cancelled context.)
EmitNeverAbandons(s, i) == FALSE

\* ... or give the batch up when the context is cancelled (a blocked select
\* with both cases ready takes either).
EmitAbandon(s, i) ==
  /\ reader[s] = "emit"
  /\ IsNext(s, i)
  /\ i \notin Malformed[TopicOf[s]]
  /\ ctx[s] = "cancelled"
  /\ Stop(s)
  /\ UNCHANGED <<redisVars, ctx, chan>>

ReaderStep(s) ==
  \/ Poll(s)
  \/ ReadBatch(s)
  \/ ReadNothing(s)
  \/ ReadCancelled(s)
  \/ ReadFails(s)
  \/ \E i \in batch[s] : EmitMalformed(s, i) \/ EmitSend(s, i) \/ EmitAbandon(s, i)

-------------------------------------------------------------------------------
(* What a subscriber does with the transport.                              *)

\* Receive one delivery from the channel.
TakeFrom(s) ==
  /\ chan[s] # NoId
  /\ chan' = [chan EXCEPT ![s] = NoId]
  /\ UNCHANGED <<redisVars, ctx, reader, batch>>

\* The channel is closed and drained.
Drained(s) == reader[s] = "off" /\ chan[s] = NoId

\* XACK.
Ack(t, i) ==
  /\ pel' = [pel EXCEPT ![t] = @ \ {i}]
  /\ UNCHANGED <<stream, cursor, readerVars>>

\* The process ends, in whatever way: goroutines, channels and contexts are gone,
\* Redis stays.
Vanish ==
  /\ ctx' = [s \in Subscribers |-> "cancelled"]
  /\ reader' = [s \in Subscribers |-> "off"]
  /\ batch' = [s \in Subscribers |-> {}]
  /\ chan' = [s \in Subscribers |-> NoId]
  /\ UNCHANGED redisVars
===============================================================================
