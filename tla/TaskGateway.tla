------------------------------ MODULE TaskGateway ------------------------------
(***************************************************************************)
(* internal/gateway: the task lifecycle (get_task, complete_task and       *)
(* fail_task) of one gateway process over Redis streams.                   *)
(*                                                                         *)
(* An orchestrator, which is external, adds tasks to agent.tasks.<agent>.  *)
(* get_task subscribes to that stream, waits for one delivery and records  *)
(* it in the PendingMap; complete_task and fail_task take the entry out of *)
(* the map, publish a result document and acknowledge the stream entry.    *)
(* Tool calls run concurrently; a background sweep evicts old pending      *)
(* entries; the process may stop and start again with an empty map.        *)
(*                                                                         *)
(* Topics are the agents: topic a stands for agent.tasks.<a>.  A task id is *)
(* the entry's Redis id, so the map is keyed by it alone.  Calls refused   *)
(* by validation, authentication, policy, size or rate checks change no    *)
(* state of this module and are not steps.                                 *)
(***************************************************************************)
EXTENDS RedisTransport

CONSTANTS
  Reporters,    \* the tool calls that report (complete_task or fail_task)
  Kinds,        \* the kinds of report: completed and failed
  MaxPending,   \* the agents' max_pending_tasks, 0 is unlimited
  OwnIdsOnly,   \* whether an agent reports only task ids handed to it
  Restarts,     \* whether the gateway process may stop and start again
  NoAgent       \* the absence of a pending entry

Agents == Topics

\* A document on agent.events.<kind>, as the orchestrator reads it.
Result == [kind : Kinds, to : Agents, exec_id : Ids]

ASSUME GatewayAssumption ==
  /\ NoAgent \notin Agents
  /\ MaxPending \in Nat
  /\ OwnIdsOnly \in BOOLEAN
  /\ Restarts \in BOOLEAN

VARIABLES
  call,      \* control state of each get_task handler
  pending,   \* PendingMap: the topic of each pending task id, or NoAgent
  aged,      \* task ids whose entry was stored longer than PendingTTL ago
  report,    \* each complete_task/fail_task handler that holds a pending entry
  results,   \* Redis: how many of each result document were published
  handed     \* the task ids that get_task has returned, per agent

gatewayVars == <<call, pending, aged, report, results, handed>>
vars == <<transportVars, gatewayVars>>

Idle == [at |-> "idle"]

\* lost counts the attempts to publish that took effect although no reply came.
Reporting ==
  [at : {"taken", "published"}, kind : Kinds, to : Agents, topic : Agents, id : Ids,
   lost : 0 .. Retries]

Init ==
  /\ TransportInit
  /\ call = [s \in Subscribers |-> "idle"]
  /\ pending = [i \in Ids |-> NoAgent]
  /\ aged = {}
  /\ report = [r \in Reporters |-> Idle]
  /\ results = [d \in Result |-> 0]
  /\ handed = [a \in Agents |-> {}]

TypeOK ==
  /\ TransportTypeOK
  /\ call \in [Subscribers -> {"idle", "admitted", "waiting"}]
  /\ pending \in [Ids -> Agents \cup {NoAgent}]
  /\ aged \subseteq Ids
  /\ report \in [Reporters -> Reporting \cup {Idle}]
  /\ results \in [Result -> Nat]
  /\ handed \in [Agents -> SUBSET Ids]

-------------------------------------------------------------------------------
(* The orchestrator.                                                       *)

Enqueue(a, i) == Add(a, i) /\ UNCHANGED gatewayVars

-------------------------------------------------------------------------------
(* get_task.                                                               *)

PendingOf(a) == {i \in Ids : pending[i] = a}

CountByAgent(a) == Cardinality(PendingOf(a))

\* (Variant: the check of the pending count is missing.)
NoPendingLimit(a) == a \in Agents

\* At the limit one more task is still allowed.
WithinPendingLimit(a) == MaxPending = 0 \/ CountByAgent(a) <= MaxPending

StartGet(s) ==
  /\ call[s] = "idle"
  /\ WithinPendingLimit(TopicOf[s])
  /\ OpenRequest(s)
  /\ call' = [call EXCEPT ![s] = "admitted"]
  /\ UNCHANGED <<pending, aged, report, results, handed>>

SubscribeStep(s) ==
  /\ call[s] = "admitted"
  /\ \/ Subscribe(s) /\ call' = [call EXCEPT ![s] = "waiting"]
     \/ SubscribeFails(s) /\ call' = [call EXCEPT ![s] = "idle"]
  /\ UNCHANGED <<pending, aged, report, results, handed>>

\* PendingMap.Store overwrites whatever the key holds.
Store(i, a) ==
  /\ pending' = [pending EXCEPT ![i] = a]
  /\ aged' = aged \ {i}

\* (Variant: the handler does not test whether the channel was closed.)
ReturnTaskUnchecked(s) ==
  /\ call[s] = "waiting"
  /\ TakeFrom(s) \/ (Drained(s) /\ UNCHANGED transportVars)
  /\ Store(chan[s], TopicOf[s])
  /\ handed' = [handed EXCEPT ![TopicOf[s]] = @ \cup {chan[s]}]
  /\ call' = [call EXCEPT ![s] = "idle"]
  /\ UNCHANGED <<report, results>>

ReturnTask(s) ==
  /\ call[s] = "waiting"
  /\ TakeFrom(s)
  /\ Store(chan[s], TopicOf[s])
  /\ handed' = [handed EXCEPT ![TopicOf[s]] = @ \cup {chan[s]}]
  /\ call' = [call EXCEPT ![s] = "idle"]
  /\ UNCHANGED <<report, results>>

\* (Variant: the select has no case for the timeout.)
ReturnEmptyOnClose(s) ==
  /\ call[s] = "waiting"
  /\ Drained(s)
  /\ call' = [call EXCEPT ![s] = "idle"]
  /\ UNCHANGED <<transportVars, pending, aged, report, results, handed>>

\* The read timeout or the cancellation, at any time, and a closed channel: the
\* handler returns an empty task.
ReturnEmpty(s) ==
  /\ call[s] = "waiting"
  /\ call' = [call EXCEPT ![s] = "idle"]
  /\ UNCHANGED <<transportVars, pending, aged, report, results, handed>>

\* By the SDK once the call has returned, by its client before.
CancelRequest(s) ==
  /\ call[s] = "idle" \/ Faults
  /\ Cancel(s)
  /\ UNCHANGED gatewayVars

Reader(s) == ReaderStep(s) /\ UNCHANGED gatewayVars

-------------------------------------------------------------------------------
(* complete_task and fail_task.                                            *)

\* (Variant: PendingMap.Load, which leaves the entry in the map.)
LoadOnly(r, a, k, i) ==
  /\ report[r] = Idle
  /\ pending[i] # NoAgent
  /\ OwnIdsOnly => i \in handed[a]
  /\ report' = [report EXCEPT ![r] =
       [at |-> "taken", kind |-> k, to |-> a, topic |-> pending[i], id |-> i,
        lost |-> 0]]
  /\ UNCHANGED <<transportVars, call, pending, aged, results, handed>>

\* PendingMap.LoadAndDelete; an unknown task_id is refused and changes nothing.
LoadAndDelete(r, a, k, i) ==
  /\ report[r] = Idle
  /\ pending[i] # NoAgent
  /\ OwnIdsOnly => i \in handed[a]
  /\ pending' = [pending EXCEPT ![i] = NoAgent]
  /\ report' = [report EXCEPT ![r] =
       [at |-> "taken", kind |-> k, to |-> a, topic |-> pending[i], id |-> i,
        lost |-> 0]]
  /\ UNCHANGED <<transportVars, call, aged, results, handed>>

DocumentOf(r) ==
  [kind |-> report[r].kind, to |-> report[r].to, exec_id |-> report[r].id]

Finish(r) == report' = [report EXCEPT ![r] = Idle]

AddResult(r) == results' = [results EXCEPT ![DocumentOf(r)] = @ + 1]

\* Redis executes XADD and its reply is lost: the client sends the command again.
\* (A lost command changes nothing, and leaves fewer attempts for this.)
PublishRetried(r) ==
  /\ report[r].at = "taken"
  /\ Faults
  /\ report[r].lost < Retries
  /\ AddResult(r)
  /\ report' = [report EXCEPT ![r].lost = @ + 1]
  /\ UNCHANGED <<transportVars, call, pending, aged, handed>>

\* The attempt whose reply arrives.
Publish(r) ==
  /\ report[r].at = "taken"
  /\ AddResult(r)
  /\ report' = [report EXCEPT ![r].at = "published"]
  /\ UNCHANGED <<transportVars, call, pending, aged, handed>>

\* (Variant: the handler goes on to the acknowledgement after the error.)
PublishFailsThenAcks(r) ==
  /\ report[r].at = "taken"
  /\ Faults
  /\ Ack(report[r].topic, report[r].id)
  /\ Finish(r)
  /\ UNCHANGED <<call, pending, aged, results, handed>>

\* (Variant: the handler puts the entry back so that the agent may retry.)
PublishFailsRestores(r) ==
  /\ report[r].at = "taken"
  /\ Faults
  /\ UNCHANGED results \/ AddResult(r)
  /\ Store(report[r].id, report[r].topic)
  /\ Finish(r)
  /\ UNCHANGED <<transportVars, call, handed>>

\* Building or serializing fails, or the last attempt of XADD does, or only its reply
\* is lost; the handler returns the error with the pending entry already gone.
PublishFails(r) ==
  /\ report[r].at = "taken"
  /\ Faults
  /\ UNCHANGED results \/ AddResult(r)
  /\ Finish(r)
  /\ UNCHANGED <<transportVars, call, pending, aged, handed>>

AckTask(r) ==
  /\ report[r].at = "published"
  /\ Ack(report[r].topic, report[r].id)
  /\ Finish(r)
  /\ UNCHANGED <<call, pending, aged, results, handed>>

\* XACK fails before it takes effect (a lost reply leaves the state of AckTask).
AckFails(r) ==
  /\ report[r].at = "published"
  /\ Faults
  /\ Finish(r)
  /\ UNCHANGED <<transportVars, call, pending, aged, results, handed>>

ReportStep(r) ==
  PublishRetried(r) \/ Publish(r) \/ PublishFails(r) \/ AckTask(r) \/ AckFails(r)

-------------------------------------------------------------------------------
(* The sweep, and the process itself.                                      *)

\* Time passes: the entry of i is now older than PendingTTL.
Age(i) ==
  /\ pending[i] # NoAgent
  /\ i \notin aged
  /\ aged' = aged \cup {i}
  /\ UNCHANGED <<transportVars, call, pending, report, results, handed>>

\* (Variant: StartCleanup is never called.)
EvictNever == FALSE

Evict ==
  /\ \E i \in aged : pending[i] # NoAgent
  /\ pending' = [i \in Ids |-> IF i \in aged THEN NoAgent ELSE pending[i]]
  /\ UNCHANGED <<transportVars, call, aged, report, results, handed>>

Restart ==
  /\ Restarts
  /\ Vanish
  /\ call' = [s \in Subscribers |-> "idle"]
  /\ pending' = [i \in Ids |-> NoAgent]
  /\ aged' = {}
  /\ report' = [r \in Reporters |-> Idle]
  /\ UNCHANGED <<results, handed>>

Next ==
  \/ \E a \in Agents, i \in Ids : Enqueue(a, i)
  \/ \E s \in Subscribers : StartGet(s)
  \/ \E s \in Subscribers : SubscribeStep(s)
  \/ \E s \in Subscribers : ReturnTask(s)
  \/ \E s \in Subscribers : ReturnEmpty(s)
  \/ \E s \in Subscribers : CancelRequest(s)
  \/ \E s \in Subscribers : Reader(s)
  \/ \E r \in Reporters, a \in Agents, k \in Kinds, i \in Ids :
       LoadAndDelete(r, a, k, i)
  \/ \E r \in Reporters : ReportStep(r)
  \/ \E i \in Ids : Age(i)
  \/ Evict
  \/ Restart

Spec == Init /\ [][Next]_vars

(* Every handler and goroutine that can run does run: the Go scheduler, the *)
(* read and block timeouts, the SDK's cancellation of a finished request,   *)
(* the clock and the sweep's ticker.  Agents and the orchestrator owe       *)
(* nothing.                                                                 *)
Fairness ==
  /\ \A s \in Subscribers :
       /\ WF_vars(SubscribeStep(s))
       /\ WF_vars(ReturnTask(s) \/ ReturnEmpty(s))
       /\ WF_vars(call[s] = "idle" /\ CancelRequest(s))
       /\ WF_vars(Reader(s))
  /\ \A r \in Reporters : WF_vars(ReportStep(r))
  /\ \A i \in Ids : WF_vars(Age(i))
  /\ WF_vars(Evict)

FairSpec == Spec /\ Fairness

\* The agents also keep calling get_task.
PollingSpec == FairSpec /\ \A s \in Subscribers : WF_vars(StartGet(s))

-------------------------------------------------------------------------------
(* Safety.                                                                 *)

\* The ids of entries of different streams differ.  Redis ascends ids within one
\* stream only, so this is an assumption of every property below.
DistinctIds ==
  \A a, b \in Agents : a # b => IdsOf[a] \cap IdsOf[b] = {}

Reported(i) == \E d \in Result : d.exec_id = i /\ results[d] > 0

\* The entries on their way to a handler that can still return them.
InTransit(s) ==
  IF call[s] = "waiting" THEN batch[s] \cup ({chan[s]} \ {NoId}) ELSE {}

\* One report publishes the result of a task, whatever mix of complete_task and
\* fail_task calls race for it, fail, or straddle a restart: all its results are copies
\* of one document, no more than the client's attempts, and as long as a report is still
\* publishing they are that report's own attempts whose reply was lost.
OneReportPerTask ==
  /\ \A d, e \in Result :
       d.exec_id = e.exec_id /\ results[d] > 0 /\ results[e] > 0 => d = e
  /\ \A d \in Result : results[d] <= 1 + Retries
  /\ \A r \in Reporters, d \in Result :
       report[r].at = "taken" /\ d.exec_id = report[r].id =>
         results[d] = IF d = DocumentOf(r) THEN report[r].lost ELSE 0

\* The entry of a task that an agent was given is acknowledged only after a
\* result was published: a failed report never erases the task from Redis.
ResultBeforeAck ==
  \A a \in Agents : \A i \in handed[a] : i \notin pel[a] => Reported(i)

\* A task id in the PendingMap can still be acted on: its agent was given it, its
\* stream entry awaits an acknowledgement, and no result for it exists.
PendingIsOpen ==
  \A i \in Ids : pending[i] # NoAgent =>
    /\ i \in handed[pending[i]]
    /\ i \in pel[pending[i]]
    /\ ~Reported(i)

\* A task is in one place at a time: in transit to one get_task call, or in the
\* PendingMap, or in the hands of one reporting call.
OneHolder ==
  /\ \A s, u \in Subscribers : s # u => InTransit(s) \cap InTransit(u) = {}
  /\ \A s \in Subscribers : call[s] = "waiting" => chan[s] \notin batch[s]
  /\ \A s \in Subscribers : \A i \in InTransit(s) :
       /\ pending[i] = NoAgent
       /\ \A r \in Reporters : report[r] # Idle => report[r].id # i
  /\ \A r, q \in Reporters :
       r # q /\ report[r] # Idle /\ report[q] # Idle => report[r].id # report[q].id
  /\ \A r \in Reporters : report[r] # Idle => pending[report[r].id] = NoAgent

CallsOf(a) == {s \in Subscribers : TopicOf[s] = a}
InFlight(a) == {s \in CallsOf(a) : call[s] # "idle"}

\* What max_pending_tasks does bound.  The check admits one task beyond the limit, and
\* reads the count before the calls in flight have stored theirs: an agent that runs n
\* get_task calls at once may hold limit + n tasks, and each call in flight keeps a
\* place below that.  This is weaker than docs/AGENT_SETUP.md:660 ("Maximum concurrent
\* unacknowledged tasks"): limit + 1 is reached with a single call, and a task that the
\* sweep evicted unacknowledged is no longer counted.
PendingBound ==
  MaxPending > 0 =>
    \A a \in Agents :
      CountByAgent(a) + Cardinality(InFlight(a)) <= MaxPending + Cardinality(CallsOf(a))

\* A task id that an agent was given never enters the PendingMap again: no task is
\* delivered twice, not even across restarts.
HandedOnce ==
  [][\A a \in Agents : \A i \in handed[a] :
       pending[i] = NoAgent => pending'[i] = NoAgent]_vars

-------------------------------------------------------------------------------
(* The inductive invariant behind those properties (under DistinctIds).    *)

PastCursor(a, i) == cursor[a] # NoGroup /\ i <= cursor[a]

\* What has been handed out of Redis lies behind the group's cursor, which is
\* why no later read returns it.
ClaimInv ==
  \A a \in Agents :
    /\ stream[a] \subseteq IdsOf[a]
    /\ pel[a] \cup handed[a] \subseteq stream[a]
    /\ \A i \in pel[a] \cup handed[a] : PastCursor(a, i)

\* The entries in a reader's batch or channel, whether or not its call waits.
Carried(s) == batch[s] \cup ({chan[s]} \ {NoId})

CarryInv ==
  \A s \in Subscribers :
    /\ reader[s] # "emit" => batch[s] = {}
    /\ chan[s] \notin batch[s]
    /\ Carried(s) \subseteq pel[TopicOf[s]] \ handed[TopicOf[s]]
    /\ \A u \in Subscribers \ {s} : Carried(s) \cap Carried(u) = {}

\* A report holds what nobody else holds.
ReportInv ==
  \A r \in Reporters : report[r] # Idle =>
    /\ report[r].id \in handed[report[r].topic]
    /\ pending[report[r].id] = NoAgent
    /\ \A q \in Reporters \ {r} :
         report[q] # Idle => report[q].id # report[r].id
    /\ report[r].at = "taken" => report[r].id \in pel[report[r].topic]
    /\ report[r].at = "published" => Reported(report[r].id)

ResultInv ==
  /\ OneReportPerTask
  /\ ResultBeforeAck
  /\ \A i \in Ids : Reported(i) => \E a \in Agents : i \in handed[a]

\* A task moves from a stream to a carrier, from there to the PendingMap, from
\* there to a report, and never back.
OneWay == ClaimInv /\ CarryInv /\ PendingIsOpen /\ ReportInv /\ ResultInv

\* The group starts, and every read leaves it, behind an entry of the stream or at
\* the stream's beginning, so a task that is added lies before it; and no malformed
\* entry gets as far as a channel or an agent.
SkipInv ==
  /\ \A a \in Agents : cursor[a] \in stream[a] \cup {NoGroup, 0}
  /\ \A a \in Agents : handed[a] \cap Malformed[a] = {}
  /\ \A s \in Subscribers : chan[s] \notin Malformed[TopicOf[s]]

-------------------------------------------------------------------------------
(* The gateway implements TaskDelivery.                                    *)

StageOf(a, i) ==
  IF i \notin stream[a] THEN "absent"
  ELSE IF ~PastCursor(a, i) THEN "queued"
  ELSE IF Reported(i) THEN "reported"
  ELSE IF i \in Malformed[a] \/ i \notin pel[a] THEN "skipped"
  ELSE IF pending[i] = a THEN "held"
  ELSE IF \E r \in Reporters : report[r] # Idle /\ report[r].id = i THEN "reporting"
  ELSE IF \E s \in Subscribers : TopicOf[s] = a /\ i \in InTransit(s) THEN "claimed"
  ELSE "stranded"

AllTasks == {t \in Agents \X Ids : t[2] \in IdsOf[t[1]]}

StageOfTasks == [t \in AllTasks |-> StageOf(t[1], t[2])]

Delivery == INSTANCE TaskDelivery WITH Tasks <- AllTasks, stage <- StageOfTasks

\* Every step of the gateway moves each task along TaskDelivery's moves or not at
\* all: one delivery, one report, nothing lost from Redis before its result.
Implements == Delivery!Spec

-------------------------------------------------------------------------------
(* Liveness.                                                               *)

\* get_task always answers, with a task or empty, whatever Redis does.
CallReturns ==
  \A s \in Subscribers : call[s] # "idle" ~> call[s] = "idle"

\* The reader goroutine of every call stops: it is not left blocked on a channel
\* nobody reads.
NoReaderLeak ==
  \A s \in Subscribers : reader[s] # "off" ~> reader[s] = "off"

\* No entry stays in the PendingMap forever: an abandoned one is evicted.
PendingDrains ==
  \A i \in Ids : pending[i] # NoAgent ~> pending[i] = NoAgent

-------------------------------------------------------------------------------
(* What the documents say and the code does not do.                        *)

\* docs/ARCHITECTURE.md:37 "request-response with guaranteed delivery": a task that
\* is added after the agent's first get_task is returned to the agent that keeps
\* asking for it.
GuaranteedDelivery ==
  \A a \in Agents : \A i \in IdsOf[a] :
    i \in Undelivered(a) ~> i \in handed[a]

\* docs/AGENT_SETUP.md:751 "task_id is valid for --pending-ttl (default 1 hour) after
\* delivery": an id younger than that, for which no result exists, can be reported or
\* is being reported.
TaskIdValid ==
  \A a \in Agents : \A i \in handed[a] \ aged :
    \/ Reported(i)
    \/ pending[i] = a
    \/ \E r \in Reporters : report[r] # Idle /\ report[r].id = i

\* docs/ARCHITECTURE.md:51 "so it can XACK the correct Redis message when the agent
\* reports completion": a report that an agent makes about a task it was given acts
\* on the stream that the task came from.
ReportsOwnStream ==
  \A r \in Reporters : report[r] # Idle => report[r].topic = report[r].to
===============================================================================
