# TLA+ specifications of aga2aga

aga2aga connects AI agents, which speak MCP, to an orchestrator and to each
other through Redis streams. A *gateway* process serves the MCP tools; an
*admin* server keeps agents, API keys, policies and limits in SQLite; a
*document* package defines the envelopes that travel over the streams.

This directory holds specifications of the parts whose behaviour is hard to
test, the TLC configurations that check them, and TLAPS proofs.

## Inventory of the system

| Component | State | Operations | What makes it correct |
|---|---|---|---|
| Redis transport (`pkg/transport/redis`) | per stream: entries, the group's last-delivered id, pending entries list (pel); per subscription: reader goroutine, batch, channel of capacity 1 | `Publish`, `Subscribe`, `Ack`, `Close`, `readLoop` | an entry is handed out at most once, a reader always ends, nothing but a malformed entry is acknowledged unasked |
| Task tools (`internal/gateway/tools.go`) | control state of each handler | `get_task`, `complete_task`, `fail_task` | one delivery, one report that publishes, acknowledgement only after the result |
| `PendingMap` (`pending.go`) | task id -> stream, entry, age | `Store`, `LoadAndDelete`, `CountByAgent`, sweep | an entry can be acted on; abandoned entries go away |
| Messaging tools (`tools.go`) | none of their own | `send_message`, `receive_message`, `heartbeat`, `get_my_limits`, `get_my_policies` | a message reaches at most one caller; acknowledged ones were returned |
| Limit enforcer (`limiter.go`) | limits cache, rate buckets | `CheckSend`, `CheckPendingTasks`, `GetStreamMaxLen`, `GetEffectiveLimits` | no more than the limit per minute; a change is effective within the cache TTL and one fetch |
| Message logger (`msglog.go`) | bounded queue, worker, done/closed channels | `Log`, `Close`, worker | `Log` never blocks; what was queued before `Close` is written |
| Authentication and policy (`gateway.go`, `auth.go`, `policy.go`, `pkg/admin/policy.go`) | process-wide default agent and key | `applyDefaults`, `Authenticate`, `Evaluate` | an agent acts only as the one its key is bound to; the highest-priority policy decides |
| Gateway process (`cmd/gateway`) | all of the above, in memory | start, sweep, stop | a restart repeats nothing |
| Admin store (`internal/admin/sqlite.go`) | tables of users, agents, policies, keys, limits, audit and message rows in SQLite | one SQL statement per operation | ids and agents stay unique, what is deleted stays away, a revoked key stays revoked |
| Admin server (`internal/admin/handlers_*.go`, `session.go`, `middleware.go`) | session cookies, keys drawn at each start | pages and a JSON API, each a sequence of statements | each change is authorised and audited; an answer was true at some moment of the request |
| Admin command (`cmd/admin`) | - | seeding of the default organisation and user | a usable login exists after the first start |
| Documents (`pkg/document`, `pkg/protocol`) | a `Builder` and the document it built | parse, three validation layers, build, lifecycle transitions | what was built is valid and stays so; the layers leave no gap for a transition that is not listed |
| Enveloper command (`cmd/enveloper`) | the file | create, validate, inspect | a file that validates is one document, whole |
| Identity, negotiation (`pkg/identity`, `pkg/negotiation`) | - | type declarations only | - |

How they interact: an MCP call runs a handler in a goroutine of its own; the
handler asks the enforcer, the limiter and the `PendingMap` (each behind its own
mutex) and calls the transport. `Subscribe` starts one more goroutine, the
reader, which is bound to the call's context and outlives the call. The
orchestrator only touches Redis. The admin server shares the SQLite store with
an embedded gateway, or is asked over HTTP.

What is hard: the reader's life beyond its call, reads that claim more than the
call takes, handlers interrupted between the map, the publish and the
acknowledgement, calls racing for one task, the sweep, restarts with an empty
map, limits checked on a count that is stale when used. On the admin side: handlers
of several statements without a transaction, interleaved with each other, with an
embedded gateway's reads and with the end of the process. In the document package:
a `Builder` used beyond `Build`, values that one validation layer reads as absent,
files emptied before they are written. `PROJECT.json` lists each hazard at its line
with the properties that cover it.

## Modules

| Module | Models |
|---|---|
| `RedisTransport` | `pkg/transport/redis`: streams, the consumer group, subscriptions and their reader goroutines |
| `RedisTransport_proofs` | lemmas about `RedisTransport` that the proofs about both of its clients use |
| `TaskDelivery` | what the gateway promises about one task: eight stages and ten moves between them |
| `TaskGateway` | the task tools, the `PendingMap` and the process, on top of `RedisTransport`; properties and the inductive invariant |
| `MCTaskGateway` | constants for TLC |
| `TaskGateway_proofs` | theorems about `TaskGateway` |
| `TaskDelivery_proofs` | the theorem that `TaskGateway` implements `TaskDelivery` |
| `Limiter` | `internal/gateway/limiter.go`: the limits cache, the rate buckets, the ceilings of both; properties and the bucket invariant |
| `MCLimiter` | constants for TLC |
| `Limiter_proofs` | theorems about `Limiter` |
| `MsgLogger` | `internal/gateway/msglog.go`: the embedded message logger and the shutdown that closes it; properties |
| `MCMsgLogger` | constants for TLC |
| `MsgLogger_proofs` | theorems about `MsgLogger`, with its inductive invariant |
| `MessageInbox` | `send_message`, `receive_message` and the streams of limited length, on top of `RedisTransport`; properties |
| `MCMessageInbox` | constants for TLC |
| `MessageInbox_proofs` | theorems about `MessageInbox`, with its inductive invariants |
| `AdminStore` | `internal/admin/sqlite.go`, one operator per statement, and `pkg/admin/policy.go` |
| `AdminServer` | `internal/admin` handlers, sessions and JSON API, `cmd/admin`, and the gateway's key and policy checks, over `AdminStore`; properties |
| `MCAdminServer` | six starting points for TLC |
| `AdminServer_proofs` | theorems about `AdminServer` and the statements of `AdminStore`, with the inductive invariants |
| `Documents` | `pkg/document` and `pkg/protocol`: registry, lifecycle, validation, `Builder`, text form (operators) |
| `Enveloper` | programs that use `Documents`: a library user, and `cmd/enveloper` on one file; properties |
| `MCEnveloper` | arguments and hand-written files for TLC |
| `Enveloper_proofs` | theorems about `Enveloper`, with its inductive invariant |

### RedisTransport

`stream`, `cursor` and `pel` are Redis's state and survive everything. `cursor`
is the group's last-delivered id; an entry leaves `pel` only by `Ack`. The rest
belongs to the process: `ctx[s]` is the request context of the call in slot `s`,
`reader[s]` the program counter of the reader goroutine of that call (`poll` is
the context check before a read, `read` the blocking `XREADGROUP`, `emit` the
loop over the reply), `batch[s]` what is left of the reply and `chan[s]` the
buffered delivery. One action stands for one command or one select of
`readLoop`. `Topics` are streams; entry ids ascend within a stream; the contents
of an entry are reduced to whether `parseMsg` accepts it (`Malformed`).

`Faults` lets every Redis command fail, before or after it took effect, and lets
a client cancel a call early. Even without it, commands issued with a cancelled
context may fail. `Retries` is how often the Redis client sends a command again
that got no reply; `cmd/gateway/main.go:78` keeps its default of 3. Only a repeated
`XADD` leaves more behind than one execution does, so `TaskGateway` and
`MessageInbox` have an action for it (`PublishRetried`); a repeated `XREADGROUP` is
`ReadFails` after the claim, followed by another read.

`Vanish` is the end of the process. `Close`, which cancels the readers' base context
(`rt.ctx.Done` at `redis.go:141` and 180) just before the process ends, is not a step of
its own. The readers it stops would be gone with the process; a handler that outlives the
ten seconds of the HTTP shutdown may see its channel closed and answers that there is
no task, as after a timeout (`ReturnEmpty`).

### TaskGateway

| Source | Actions |
|---|---|
| `handleGetTask` | `StartGet` (check of the pending count), `SubscribeStep`, `ReturnTask` (receive, `Store`, return), `ReturnEmpty` (timeout, cancellation, closed channel) |
| `handleCompleteTask`, `handleFailTask` (one shape, two kinds) | `LoadAndDelete`, `Publish`, `PublishRetried`, `PublishFails`, `AckTask`, `AckFails` |
| `PendingMap.evict` and its ticker | `Age` (an entry passes the TTL), `Evict` |
| `readLoop` | `Reader` |
| end and start of the process | `Restart`: every goroutine, channel and the map are gone, Redis stays |
| MCP SDK, orchestrator | `CancelRequest`, `Enqueue` |

Each action is what happens between two points where another goroutine can
interfere: taking the map's mutex, a Redis command, a channel operation. The
refusals that precede them (validation, authentication, policy, sizes, rates)
change no state modelled here, so a refused call is a call that does not happen.
`handed` records, for the properties, which ids `get_task` returned to whom.

A slot of `Subscribers` is used again only after its reader has stopped; more
concurrent readers are more slots.

Definitions marked `(Variant: ...)` are plausible bugs (a dropped guard, a
swapped order). No specification uses them; each shows that a property notices
when the definition after it is replaced by the variant.

### TaskDelivery and the refinement

`StageOf` computes a task's stage from the gateway's state. `Implements` says
that every step of the gateway changes the stages only along `Moves`. The
abstract specification makes the weak points of the design explicit: a task can
become *stranded* (in Redis's pending entries list, held by nobody) from every
stage between its claim and its report, and nothing leads out of it.

### Limiter

`EmbeddedLimitEnforcer` under concurrent calls. `call[c]` is the control state of
one call: `fetch` and `put` are the two ends of the fetch that runs with no lock
held, `fallback` is between the two queries of `GetEffectiveLimits`, `check` is a call
that knows its limits, `kept` and `throwaway` hold a bucket and wait for its lock.

| Source | Actions |
|---|---|
| `effectiveLimits` | `Begin` (lookup), `Put` (caching below the ceiling) |
| `GetEffectiveLimits` of the store, with no lock held | `Fetch` (the agent's row), `FallBack` (the row for `*`); each may fail if `FetchFails` |
| `CheckSend`, `bucket`, `tryRecord` | `SendUnlimited`, `GetBucket`, then `TryRecord` or `RecordThrowaway` |
| `CheckPendingTasks`, `GetStreamMaxLen`, `GetEffectiveLimits` of the enforcer | `Return`: they change nothing but the cache |
| the limits pages, the clock | `SetRow` (add, edit or delete a row), `Tick` |

A limits row is reduced to `max_send_per_min`, 0 meaning unlimited, and `NoRow` to its
absence. The pending check itself, with a fixed limit, is in `TaskGateway`.
Two histories serve the properties: `admitted`, the sends that were allowed, each
with the limit it was checked against, and `had`, what each owner's row was at each
tick.

### MsgLogger

| Source | Actions |
|---|---|
| `Log`, called by the tool handlers | `Log`: enqueue, or drop when the channel is full |
| `drain` and `write`, the worker | `Receive`, `Write` (the store may refuse if `WriteFails`), `SeeDone`, `Stop` |
| `Close` | `Close` (closes `done`), `CloseReturns` (receives from `closed`) |
| the deferred close in `cmd/gateway` | `CloseStore` |
| the end of the process | `Exit`: `main` returns, or a signal or `log.Fatalf` ends it earlier |

`drain`'s outer select takes either ready case, so `Receive` and `SeeDone` are both
enabled once `done` is closed. `Log` stays enabled after `Close`: the HTTP
shutdown gives its handlers ten seconds and goes on without those that are still
running. `accepted` and `before` are histories: what entered the channel, and how
much of it before `Close`. `HTTPMessageLogger` is not modelled: its posts are
independent goroutines without order, flush or `Close`.

### MessageInbox

`Topics` are the mailboxes `agent.messages.<a>` and one stream `Events` that all
agents report to. Sending is in steps, since the stream's limit is read before
`XADD`: `SendMessage` (the recipient's row) or `ReportEvent` (the reporter's, as
`complete_task` and `fail_task` do), `FallBack` (the row for `*`, if there was none),
then `Publish`, after any `PublishRetried`, or `SendFails`. Redis trims
approximately: `RedisTransport.AddTrimming` removes any number of the oldest entries
beyond the limit.

| Source | Actions |
|---|---|
| `handleSendMessage`, publishing in `handleCompleteTask` and `handleFailTask` | `SendMessage`, `ReportEvent`, `FallBack`, `PublishRetried`, `Publish`, `SendFails` |
| `handleReceiveMessage` | `StartReceive`, `SubscribeStep`, `TakeDelivery`, `AckAndReturn`, `AckFails`, `ReturnEmpty` |
| `readLoop` | `Reader` |
| limits page, MCP SDK, end of the process | `SetMaxLen`, `CancelRequest`, `Restart` |

A `Malformed` entry is a body that `send_message` accepted and whose document,
envelope included, is longer than `parseMsg` accepts: the sender succeeds, the
receiver's transport acknowledges and drops it. `added`, `claimed`, `returned`,
`dropped`, `floor` and `hadLens` are histories. The properties are about stream
entries: a message whose `XADD` was repeated is in its stream as two entries, and
is received twice.

### AdminStore and AdminServer

A database is a record of tables. An operator of `AdminStore` is one SQL statement; one
that writes yields the set of databases it may leave, empty when a constraint or a
check of the affected rows refuses it. `Evaluate` yields the set of actions that the
unstable `sort.Slice` may lead to.

A request in `AdminServer` is a program counter (`req[h].at`) over such statements.

| Source | Actions |
|---|---|
| routes, `requireAuth`, forms | `Accept` |
| `handleLoginPost`, `handleProfilePost`, `handleAgentNewPost` | `LoginCheck`; `ProfileCheck`, `Profile`; `AgentNewCheck`, `AgentNew` |
| suspend, activate, revoke; policies; API keys; limits | `AgentStatus`; `PolicyNew`, `PolicyEdit`, `PolicyRemove`; `APIKeyNew`, `APIKeyEnd`; `LimitsNew`, `LimitsEdit`, `LimitsRemove` |
| `recordAudit`, `Sessions` | `RecordAudit`, which also sends the response with its cookie |
| `apiKeyFromRequest`, `EmbeddedAuthenticator`, `HTTPAuthenticator`, `authenticateAgent` | `CheckKey`; `CheckToken` for the second request of a remote gateway |
| `handleAPIEvaluate`, `EmbeddedEnforcer`, `HTTPEnforcer` | `ReadPolicies` |
| `handleAPILimitsCheck`, `GetEffectiveLimits` | `ReadSpecificLimits`, `ReadGlobalLimits`, `SendReply` |
| `handleAPIMessageLog` | `IngestLog` |
| `cmd/admin`: start, seeding, end | `Start`, `EnsureDefaultAdmin` (two writes), `Crash` |
| a statement's error, a lost client, a refused HTTP call | `StatementFails` |

`during[h]` records the databases that existed while request `h` was served: the
properties ask that an answer was right in one of them.

Ids of limits rows are not for good. `UpsertAgentLimits` gives an agent's row the id
it is called with, and an edit form that was loaded before its row went away may name
any agent: then that agent's row gets the old id, and a deletion by that id, itself
from a page loaded earlier, removes it. `RowsAsSubmitted` and `LimitsKept` state
what remains true: a row is never a mixture of two requests, and an agent's limits
go away only by a deletion under an id with which somebody submitted limits for that
agent.

### Documents and Enveloper

A document is a function from the keys it has to values: strings, of which only the
compared ones differ, `Structured` (anything that is not a string), `Null`, `Huge` and
`Joined` (a string of which two commands wrote a part each).
That is enough for the three layers, which ask for presence, for a string, for a
lifecycle state, and for entries of the transition table. The table of types and
required fields is complete; of the embedded JSON schema `SchemaProperties` has what
it restricts per type.

| Source | Actions |
|---|---|
| a program with a `Builder` | `CallSetter` (any setter, `Field` with any key), `Build` |
| `create` | `Create` (flags, `Build`, opening the file, which empties it), `WriteOut`, `WriteShort`, `Killed` |
| `validate`, `inspect` | `ValidateFile`, `InspectFile` |
| an author's editor | `SaveByHand` |

`os.WriteFile` neither locks nor renames. What another command wrote between the
emptying of a file and the write stays behind the new text if it was longer: as a body
that nobody reads after a whole write (`WriteOut`; it counts for the size that `Parse`
takes), as the rest of the front matter after a short one (`WriteShort`; `author` is
`"creates"` then). Such a mixture may be closed by the other's delimiter and be a
valid document that no command has built; `validate --strict` accepts it, which
`ReadBack` excepts by name.

## Runs

| Run | Instance | Shows |
|---|---|---|
| `safety` | 1 agent, 3 tasks of which one malformed, 2 concurrent `get_task` and 2 concurrent reports, read batch 2, one retry of `XADD`, `MaxPending` 1, faults, restarts; 338,973 states | type invariant, all safety properties, the bound on pending tasks, refinement |
| `liveness` | 1 agent, 3 tasks, one `get_task` and one report at a time, `MaxPending` 1, no retries, faults, restarts; 120,658 states | calls return, readers end, entries are evicted |
| `delivery` | 1 agent, 3 tasks, no faults, an agent that keeps polling | **violated**: guaranteed delivery |
| `taskid` | as above, with faults | **violated**: a task id is valid until its TTL |
| `sharedid` | 2 agents whose tasks have the same entry id | **violated**: a report acts on its own stream |
| `rates` | 2 agents, 2 concurrent calls, a row for `*` with limit 1 at first and two changes of rows, window 2, cache lifetime 1, maps of one entry, 3 ticks, 2 sends; 3,424,462 states | the rate limit and the bucket invariant, the age of limits in use, the ceilings |
| `fetchfails` | 1 agent, any rows with limit 1 that do not change, fetches may fail | **violated**: an agent's configured rate |
| `flush` | 4 entries, channel of 2, a store that may refuse; 68,393 states | order of entries and rows, flush before `Close` returns, no write to a closed store, `Close` returns |
| `latelog` | as above, a store that refuses nothing while open | **violated**: no entry is lost without a log line |
| `inbox` | 2 agents, one of them with a mailbox, and the shared stream, 2 concurrent `receive_message`, 1 sender, one change of a limits row, to 1, 3 entries, one retry of `XADD`, read batch 2, faults, restarts; 1,211,213 states | no entry returned twice or out of order, acknowledged ones accounted for, what trimming may take |
| `admin` | 2 requests in progress out of 3, 2 starts, faults, six starting points; 675,302 states | keys, policies, limits and audit rows under interleaved handlers and stale forms; seeding and passwords across crashes |
| `documents` | 4 kinds of `Builder` with their calls; 2 `create` commands over 8 argument lists, and some 1,200 hand-written files; 277,560 states | built documents stay valid; what `validate --strict` accepts |

Why these bounds are enough for the questions asked: a batch of two out of three
entries has a first, a rest and a later batch; two slots on one stream let one
reader outlive its call while another call runs; two reports race for one
entry. Nothing in the code compares more than two of anything. `MaxPending` 1
with three ids and two calls lets both calls pass on the same count, the count pass
the limit, and a call be refused. One retry is enough for a report to add two results,
and then to fail or to be acknowledged; the three of the code only add more copies.
The two kinds of report are handled alike, so they are symmetric. The proofs remove
the bounds for the safety properties; `BatchSize` (10 in the code) is a
parameter of the proofs.

For `rates`: two sends against limit 1 are the first that may exceed it; the window
opens and closes within three ticks; maps of one entry and two agents reach both
ceilings; a change lets two calls carry different limits, and a fetch that takes a
tick can overwrite a newer entry. Two changes move the limits from the row for `*` to
the agent's own between the two queries of a fetch, which then finds neither.
`StartRows` bounds the rows at the start. `TypeOK` of `Limiter` is proved rather than
run.

For `flush`: a channel of two can be full while the worker holds a third entry, and
the fourth is dropped; or two entries come before `Close` and two after. The
runs of `MsgLogger` do not check for deadlock, since the process ends.

For `inbox`: two receivers let the reader of a call that has returned claim beside the
next call's; three entries are a batch, its rest and a later one, and with a limit
of 1 let trimming take two, or a retry fill the stream behind a message. A change
gives an agent, or everyone, a limit that may be read before it and used after it. A row
that says 0 would do no more than the lack of one, with a single change; the proofs have
any rows and any number of changes.

For `admin`: the properties are about a request and what happens in its course, or
about the order of two changes; two requests at a time interleave every pair of
handlers that share a table, and the third makes a sequence such as deleting what
is being edited after it was created. Each starting point names the traffic of one
part of the server, with the first run among them. Two policies are the fewest that priorities
decide between; one is there at first, the other may be added. The bounds on requests and
starts end every behaviour, so deadlock is not checked.

For `documents`: the two uses share nothing, so a behaviour has one of them. The program
has calls for required, restricted, ignored and reserved keys, with legal and illegal
values; two creates are the fewest that overwrite each other; the hand-written files
combine every kind of value in every field that the layers compare, and come once
before any `create`.

The five violated properties are statements of the repository's documents,
quoted in the module and in `PROJECT.json`:

* A `get_task` that times out leaves its reader in `XREADGROUP`. The reader claims
  the next tasks and drops them, since its context is cancelled. They stay in the
  pending entries list, and every later read asks for `>` only. The rest of a
  batch behind the delivered entry is lost the same way. Nothing in the code
  uses `XAUTOCLAIM` or reads the list.
* A report deletes the pending entry first. If publishing fails, the agent's retry
  is refused as an unknown task id.
* A fetch of limits that fails returns nil limits, which mean none, and they are
  cached: `CheckSend` lets everything through until the entry expires.
* The map is keyed by the entry id alone, which Redis makes unique per stream.
  Two tasks with one id in two streams share a key.
* `Log` never asks whether the worker is still there. An entry logged after the
  worker has returned finds room in the channel and stays in it: it is neither
  written nor reported as dropped.

The other properties are stated for ids that differ between streams
(`DistinctIds`), which the runs' single stream satisfies and the theorems assume.

### Fairness

`FairSpec` assumes weak fairness of what the runtime keeps running: each
handler's next step (a goroutine that can run does; `get_task`'s select has a
timeout), each reader (bounded by the block timeout), the SDK's cancellation of
a finished call's context, the clock and the sweep's ticker. It assumes nothing
of agents, clients or the orchestrator, and nothing against faults: commands may
fail forever. `PollingSpec`, used only for the violated `GuaranteedDelivery`, adds
that the agent keeps calling `get_task`.

`MsgLogger`'s `FairSpec` assumes weak fairness of the worker (`Drain`: a goroutine that can
run, store calls that return) and of `main` once `Close` can return. Nothing makes
handlers log or the process end. `CloseTerminates` holds for finitely many entries:
handlers that logged forever could keep the inner select busy forever, as in
the code.

`MessageInbox`, `AdminServer` and `Enveloper` have safety properties only and assume no
fairness: any step may fail to come.

## Proofs

`TaskGateway_proofs` proves, for any number of streams, ids, concurrent calls and
reports, any batch size, with and without faults and restarts:

| Theorem | Property | Assumes |
|---|---|---|
| `TypeCorrect` | `TypeOK` | - |
| `TasksMoveOneWay` | `OneWay`, the inductive invariant | `DistinctIds` |
| `OneReportPublishes` | `OneReportPerTask` | `DistinctIds` |
| `AckFollowsResult` | `ResultBeforeAck` | `DistinctIds` |
| `PendingStaysOpen` | `PendingIsOpen` | `DistinctIds` |
| `ExclusiveHolder` | `OneHolder` | `DistinctIds` |
| `NoRedelivery` | `HandedOnce` | `DistinctIds` |
| `PendingStaysBounded` | `PendingBound` | finitely many slots |

None of the safety properties is inductive alone. `OneReportPerTask` needs that a
report holds an id nobody else holds (`ReportInv`), which needs that a pending
entry has no result yet (`PendingIsOpen`), which needs that what `get_task` returns
was never returned before. That comes from two facts: what a reader carries is
in the pel and carried by nobody else (`CarryInv`), and everything that was ever
handed out lies behind the group's cursor, so `>` cannot return it again
(`ClaimInv`). `OneWay` is their conjunction; `TasksMoveOneWay` shows that each action
keeps it, with one lemma per action that does more than leave it alone (`Frames`
covers the rest). The named assumptions `TransportAssumption` and
`GatewayAssumption` type the constants; TLC evaluates them in every run.

`PendingStaysBounded` counts: pending entries of an agent plus its calls in flight
never exceed the limit plus the number of its slots. The check at `limiter.go:204`
lets a call pass at the limit, and a call that passed holds a place until it
returns. The run covers two slots, the theorem any number.

`TaskDelivery_proofs` proves, for the same constants:

| Theorem | Property | Assumes |
|---|---|---|
| `GatewayImplementsDelivery` | `Implements`, the refinement of `TaskDelivery` | `DistinctIds` |

It takes one task at a time. `Placed` collects what the invariants say of a task: an id
belongs to one stream, so whatever holds the id holds it for that stream's agent, and
the map, a report and a call exclude each other. A step that leaves a task's entry,
cursor and results alone can then only strand it (`OnlyStranded`), which covers
timeouts, failures, the sweep and restarts at once; `EnqueueMoves`, `CreateGroupMoves`,
`ClaimMoves`, `ReturnTaskMoves`, `LoadAndDeleteMoves` and `ReportMoves` are the steps
that do more. Two facts beyond `OneWay` are needed (`SkipInv`): the group's cursor is at
an entry of the stream or at its beginning, or a task could be added behind it; and no
malformed entry reaches a channel, or a skipped task could be reported.

`MessageInbox_proofs` proves, for any number of mailboxes, calls, readers and senders, any
batch size and limits, with and without faults and restarts:

| Theorem | Property | Assumes |
|---|---|---|
| `TypeCorrect` | `TypeOK` | - |
| `ReadOnce` | `ReturnedOnce` | - |
| `ReadInOrder` | `NewerOnly` | - |
| `AcksAccountedFor` | `AckedIsAccounted` | - |
| `TrimsJustified` | `TrimJustified` | - |

Types are inductive only with `HasNewest`: the floor of a call is the newest message
returned so far, and there must be one. The three reading properties rest on
`InboxInv`: what was claimed lies behind the cursor (`ClaimInv`), is carried by one slot
at most and in one place of it, in the pel as long (`CarryInv`), what was returned is
acknowledged (`ReturnInv`), what is acknowledged is accounted for (`AccountInv`), and a
call that waits carries nothing at or below its floor (`FloorInv`). The last one
holds because a slot's reader has stopped before its next call begins, so all that
the call's own reader claims lies beyond the cursor of that time. `TrimsJustified` has an
invariant of its own (`TrimInv`): a publishing call carries a limit that was in force
when it was read, and what is missing from a stream had enough newer entries then,
which more entries and more limits cannot undo. `InboxAssumption` types the constants.

`AdminServer_proofs` proves, for any number of handlers, requests and starts, any agents,
passwords, policies, keys and limits, with and without faults:

| Theorem | Property | Assumes |
|---|---|---|
| `TypeCorrect` | `TypeOK` | - |
| `LimitsNeverMixed` | `RowsAsSubmitted` | - |
| `LimitsStay` | `LimitsKept` | - |
| `SeededOrCutShort` | `FirstRunSeeds` | - |
| `AuditAgrees` | `AuditMatches` | - |
| `OneRegisters` | `RegisteredOnce` | - |
| `DeletionsLast` | `DeletedStaysDeleted` | - |
| `KeysInForce` | `KeysAuthorise` | - |
| `PoliciesDecide` | `PolicyDecides` | - |
| `LimitsAreHeld` | `LimitsAnswer` | - |
| `PasswordsChangedByOwner` | `PasswordChange` | - |

The proofs go in three layers. The first is about `AdminStore` alone: what each
request's statement leaves in each table (`StatementTables`), that no statement leaves
the schema, and that `Evaluate`, which sorts, answers with a matching policy of the
highest priority (`EvaluateIsVerdict`; that the sorted policies have a first match comes
from the library's theorem that the numbers are well-founded). The second sorts the steps of
the server by what they may do to a request in progress: arrive, read and go on,
store, record, be cut off (`NextSteps`, `HandlerMoves`). The third has an invariant per
question:

* `TypeInv`: types, and `during[h]` contains the present database as long as `h` is in
  progress, which lets every read be justified by the moment it was made.
* `NumberInv`: requests and their changes are told apart by number, and a change is
  `done` before its audit row is due. `AuditMatches` follows step by step.
* `StillRegistered`: an agent once registered has its row. The check of
  `handleAgentNewPost` plays no part: it is the primary key that makes the second of two
  racing registrations fail.
* `FreshInv`: an id drawn for a new row is known to nobody else, and every other
  request names a row the store once held. With `DeletedKnown` this is why an edit
  cannot bring a policy back: only an insert with a fresh id adds a row.
* `ReadInv`: what a handler read before it went on to its next statement was so at a
  moment of the request, which `LimitsAnswer` and `PasswordChange` need.
* `KeptInv`: an agent that limits were submitted for has a row, or a deletion was carried
  out under an id submitted for that agent. `LimitsStay` follows. An id does change hands,
  when an edit under an old id names another agent, and a deletion by that id then takes
  the other agent's limits; the property says that nothing else does.
* `LimitsKnown`: the ids that requests for limits have named are known to the store, so
  that by `FreshInv` a creation never draws one of them. With it `LimitsNeverMixed` is
  inductive: a row holds the fields of one request as it was submitted.
* `SeedInv`: an organisation without a user is one of a start that was cut short.

`ServerAssumption` types the constants and says what a database is that a server may be
started on: it is finite, it obeys the keys of `agent_limits`, which SQLite enforces
(`sqlite.go:124`), and it has a user if it has an organisation. The last excludes none of
the histories: a first run that was cut off is a behaviour from the empty database,
not a starting point.

`Limiter_proofs` proves, for any number of agents and concurrent calls, any limits,
window, lifetime and ceiling, and any bound on the clock:

| Theorem | Property | Assumes |
|---|---|---|
| `BucketsComplete` | `TypeOK`, `BucketInv` | - |
| `SendsStayWithinLimit` | `RateLimited` | - |
| `MapsStayBounded` | `MapsBounded` | - |
| `LimitsStayFresh` | `LimitsNotStale` | fetches do not fail; the cache lifetime and the duration of a fetch are not both 0 |

`RateLimited` rests on `BucketInv`: a bucket holds every limited send of its agent's
last minute, although `tryRecord` drops what is older and unlimited sends are not
recorded. A bucket is created empty, which is right because an agent without a
bucket that has sent against a limit found no room, and room never comes back.
An agent at the ceiling is outside `RateLimited`, as `limiter.go:163` says.
`LimitsNotStale` is proved from `AgeInv`: a cached limit is what the queries of one fetch
found, begun within that fetch's time before its entry was written. The two queries see
two moments, and limits moved between them are missed: the call acts on none, although
some were in force all along. A fetch's duration is bounded by `MaxFetch`,
a parameter; the code sets no timeout, so the bound is what the store makes it.
The theorem shows that the age is the sum of both and never accumulates over
overlapping fetches.

`MsgLogger_proofs` proves, for any set of entries, any capacity and any refusals:

| Theorem | Property | Assumes |
|---|---|---|
| `NothingOvertakes` | `Pipeline` | - |
| `RowsStayOrdered` | `RowsInOrder` | - |
| `CloseFlushes` | `FlushedBeforeClose` | - |
| `StoreOutlivesWorker` | `NoWriteAfterClose` | - |

The channel always holds the tail of `accepted`, the worker the entry before it, and
everything earlier is a row or was refused (`Pipeline`). `RowsInOrder` needs in
addition that each row was accepted before the entry in hand (`RowsTaken`), so a
new row comes behind all others. The end needs `EndInv`: a worker that has
returned has taken everything that was there when `Close` was called, and `Close`
returns only then.

`Enveloper_proofs` proves, for any arguments, calls, hand-written texts and number of
commands:

| Theorem | Property | Assumes |
|---|---|---|
| `TypeCorrect` | `TypeOK` | - |
| `ProductsStayValid` | `BuiltStaysValid` | - |
| `OnlyWholeDocuments` | `ReadBack` | - |
| `LayersLeaveNoGap` | `AcceptedMoves` | - |

The invariant says that a product has an Extra map of its own (`Built`), that a front
matter of one create command's writing is, once closed, a document a command has
built, all of which are valid (`Written`), and that a report is about the file as it
is (`Reported`). What the layers say together is `LifecycleDocument`, about any function
of keys to values: a `from_status` that is not a string is no string to the semantic
layer, which would then check nothing, but is refused by the schema. The copy of the
schema under `schemas/`, which is not embedded, restricts `from_status` for promotion
and rollback only; with it the lemma fails (it is the mutant of `AcceptedMoves`).
`EnveloperAssumption` types the constants: flags are strings, a program starts from a
`Builder`.

Every safety invariant, action property and refinement that a passing run checks is
thereby proved. Only model-checked: the liveness properties `CallReturns`,
`NoReaderLeak`, `PendingDrains` and `CloseTerminates`, since the proof system has no
rules for fairness. What a recursive definition computes for every input would need
induction, which the installed provers cannot use; no theorem depends on one. The
strengthened invariants that are stated in the proof modules were checked by TLC on
the instances of the runs before they were proved.

## Not modelled

* `heartbeat`, `get_my_limits` and `get_my_policies`, `applyDefaults`, and pages that only
  read and render: they change nothing (`get_my_limits` fills the cache as in `Limiter`).
* `HTTPMessageLogger` (independent posts behind a semaphore) and the counterparts of
  the limiter over HTTP, beyond what the server answers them.
* `RedisTransport.Close` as a step of its own (see RedisTransport above).
* Several organisations and users, and the role checks of sessions: nothing in the code
  creates a second organisation or a user that is no admin. `DeleteMessageLogsBefore`
  and `As` have no caller that changes state.
* Real time: the sweep's interval of half the TTL; an entry is older than the TTL
  or it is not; sessions do not expire by the clock.
* Contents: parsing of YAML, evaluation of JSON schemas beyond the restrictions they
  state, the cap of `docToJSONValue`, hashing, HTML, the wording of errors and logs.
* The lifecycle of agents beyond its documents: no code in `src/` applies a transition.
* Flags and wiring of the commands, type-only packages (`identity`, `negotiation`).

Two disagreements met on the way that no run is about. `docs/AGENT_SETUP.md:660` calls
`max_pending_tasks` the "Maximum concurrent unacknowledged tasks". The check admits a call
at the limit, so that a single caller reaches limit + 1; concurrent calls pass on the
same count; and a task that the sweep evicted without an acknowledgement is no longer
counted. `PendingBound` is what the check does ensure, and is weaker than that
sentence. And `docs/ARCHITECTURE.md:256` says that
`create` "builds any registered message type", but its flags give no `status`,
`thread_id` or `in_reply_to` and its fields strings only, and `--field status=...` is a
reserved key. Genomes, spawn approvals and rejections and the negotiation replies
cannot be created with it (`FromFlags`, `Buildable`).

## Plan

In this order, what is still to do:

1. The composition of `Limiter` with `TaskGateway`, so that the pending check reads a
   cached limit that may change, and its bound proved: `PendingStaysBounded` with the
   largest limit of a cache lifetime in place of the fixed one.
2. Lemmas about `Documents` that stand on their own: what `Build` returns for each type,
   and the text form read back.
3. A model of the sweep with time, and of `HTTPMessageLogger`.

## Running

    tlc -workers 2 -config MCTaskGateway_safety.cfg MCTaskGateway
    tlc -workers 2 -config MCLimiter_rates.cfg MCLimiter
    tlc -workers 2 -config MCMsgLogger_flush.cfg MCMsgLogger
    tlc -workers 2 -config MCMessageInbox_inbox.cfg MCMessageInbox
    tlc -workers 2 -config MCAdminServer_admin.cfg MCAdminServer
    tlc -workers 2 -config MCEnveloper_documents.cfg MCEnveloper
    tlapm RedisTransport_proofs.tla
    tlapm TaskGateway_proofs.tla
    tlapm TaskDelivery_proofs.tla
    tlapm MessageInbox_proofs.tla
    tlapm AdminServer_proofs.tla
    tlapm Limiter_proofs.tla
    tlapm MsgLogger_proofs.tla
    tlapm Enveloper_proofs.tla
