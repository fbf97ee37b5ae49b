# Verification of nestjs-bustransit

TLA+ models of the library under `src/lib`, TLC runs that check them on small
instances, and TLAPS proofs of what holds for every value of the constants.

nestjs-bustransit is a message bus for NestJS on RabbitMQ with three mechanisms
on top of it: saga state machines with persistence, routing slips with
compensation, and a consumer pipeline with retries, redelivery and error queues.
All of them are about what happens when something fails half way, and that is
what the models are about.

## 1. The system

| Component | State | Operations | Talks to | Modelled in |
|---|---|---|---|---|
| In-process routing slip executor (`factories/routing-slip.executor.ts`) | current activity, logs, exceptions, progress of compensation | `execute`, `compensate`, event emission | activities, subscribers (callbacks) | `RoutingSlip`, `SlipContract` |
| Distributed routing slip executor and activity consumers (`factories/routing-slip.distributed-executor.ts`, `routing-slips/consumers`) | as the in-process one, plus the queues of activities | publish to the activity queue, execute, compensate | broker, activities, subscribers | `DistributedSlip`, `SlipContract` |
| Routing slip service, activity factory, queue provisioning, bus configurator | subscribers, discovered activities, queue configurations | `execute`, `subscribe`, discovery, provisioning | executors, broker | in part, `DistributedSlip` |
| Database saga repositories (`persistence/repositories/{mongodb,postgresql}-saga.repository.ts`) | one row per CorrelationId with version and `archivedAt` | find, `save`, `delete`, `archive`, each inside `withRetry` | the database | `SagaRow`, `SagaRepository` |
| In-memory saga repository | two maps without versions | the same | – | `Saga` with `Durable = FALSE` |
| Saga state machine (`factories/saga.bustransit.state-machine.ts` and its binders) | the saga of a message, previous states and target of each event | `Consume`: load, guard, transition, save, send the command and wait, finalize | repository, publish endpoint | `Saga` |
| Example order saga and its consumers (`example/.../messaging/sagas`) | – | the workflow and what its consumers send | saga | `MCSaga` |
| Hybrid example (`example/.../messaging/hybrid`): a saga one of whose consumers runs a routing slip | the slip under way | execute the slip, report success or failure | saga, executor | `Hybrid`, `MCHybrid` |
| Consumer pipeline (`brokers/bustransit-broker.rabbitmq.ts`, `bindConsumerToQueue`) | unacknowledged messages, attempts, redelivery headers, error queue | deliver, retry, redeliver, park, acknowledge | RabbitMQ, consumers | `Delivery` |
| Request and reply (`publishAsync`, `publish-endpoint.ts`) | temporary channel, correlation, timer | send, await reply, time out | RabbitMQ, consumers | in `Saga` |
| Broker start, topology, connection (the rest of `bustransit-broker.rabbitmq.ts`) | connection, channels, plugin flag, routing tables; exchanges and queues at the broker | `start`, `createAllExchange`, `startAllConsumer`, `checkQueueAndAssert`, `publish` | RabbitMQ | `Topology` |
| Module wiring (`bustransit.module.ts`, `bustransit.core.ts`, ...) | – | registration of consumers and sagas | broker | constants of `Topology` |
| Serializer, builders | – | value construction | – | not modelled |

How they interact: the broker hands a message to a consumer and holds it
unacknowledged until the consumer's promise settles. A state machine is such a
consumer: it finds the saga, checks the event, saves, and then *calls* the next
consumer through `PublishEndpoint.Send`, so that a workflow is a chain of nested
handlers, every one of which holds its message. Routing slips run inside one
handler and call back into activities and subscribers.

What is hard here, component by component, and what makes each correct:

* **Routing slips.** Loops of awaits inside nested `try` blocks with callbacks
  that may throw anywhere. Correct means: newest undone first across repeated and
  aborted passes, no work after an undo, events that are true when they are heard,
  a promise that settles.
* **Repositories.** Find and save of two handlers interleave; answers of the
  database are lost and the retry wrapper repeats whatever it did. Correct means:
  one effect per call, no overwritten update, no resurrected saga.
* **Sagas.** Save and send are two steps; events come twice, late and
  concurrently; handlers wait on one another while holding a slot. Correct means:
  the row follows the workflow, a command goes out once, the saga ends one way
  and does end.
* **Hybrid.** A saga without a database, commands that take long and end either
  way, reports that may fail after the work is done. Correct means: what the saga
  is told is what happened, work is repeated only by a crash, the order is released.
* **Start and topology.** `start()` is called by a timer, by a close listener and by
  itself; the setups of queues run on their own; nothing handles a rejection.
  Correct means: one start at a time and always one to come, tables that lead every
  message to a queue that handles it, redelivery only where its exchange exists.
* **Pipeline.** In-process retries, redeliveries, acknowledgements and error
  queue are separate callbacks; a crash may fall between any two. Correct means:
  bounded attempts, nothing lost, one outcome, a queue that drains.

`PROJECT.json` lists the hazards one by one, with their lines and the properties
that look at them.

## 2. The models

### RoutingSlip, SlipContract

One action per stretch of code between two awaits of `execute()`, `compensate()`
and the emit methods. `pc` is the place in the code: `next` (top of the while
loop), `execute` (awaiting the activity), `emit` (in the loop over subscribers),
`compensate` and `undo` (in the loop over the logs), `resolved`, `rejected`.
`activityLogs`, `activityExceptions`, `compensateLogs` and `index` are the
variables of the code; an activity is its position. `ActivityCompletes`,
`-Faults`, `-Terminates` and `-Throws` are the ways `activity.execute` can end,
`CompensateReturns` and `-Throws` those of `activity.compensate`.
`SubscriberThrows` follows an exception to the `catch` that gets it: the one in
the loop of `compensate()`, the inner or the outer one of `execute()`.
`AfterFaultBranch` is the `throw` at the end of the Fault branch, which lands in
the catch block of the same `try`. History variables record who heard what
(`heard`) and how often a position was undone (`undoCalls`).

The events' payloads, arguments, variables and logging are left out: no branch
reads them.

`SlipContract` is the abstract specification: forward, turned back once, then
undo newest first, resolve only if never turned back. `RoutingSlip` implements it
(`ImplementsContract`), with two undos per position where the documentation
promises one. Whether an execution that was turned back may still resolve is its
constant `BackwardResolves`, `FALSE` here.

### SagaRow, SagaRepository

`SagaRow` is what one statement does to the row of a CorrelationId: version 0 is
"no row", `CanSave` the filter of the upsert together with the unique index,
`AfterSave`, `AfterArchive`, `AfterDelete` the effects. MongoDB and PostgreSQL send
equivalent statements. `SagaRepository` puts handlers on top: each finds, saves
and, on a final event, archives or deletes. A database failure is either
`Unreachable` (no effect) or one of the `...AnswerLost` actions (the effect
without the answer); both, and `Conflict`, go through `Retry`, since `withRetry`
does not tell errors apart.

### Saga, MCSaga

One saga of a state machine, with the consumers of its commands. A message is a record in `msgs` with the phase of its handler: `queued`,
`ready` (retried in process), `saving`, `saved`, `waiting` (in `publishAsync`),
`answered`, `finished`, `acking`, `done`, `failed` (in the error queue). `header`
is the version in the saga snapshot that travels in the message's headers,
`version` the one of `ctx.Saga`. `Find` is the handler from delivery to the first
await after the guard; `Save`, `SaveConflict` and `SaveAnswerLost` the call of the
repository as `SagaRepository` shows it to behave (it returns after one effect,
conflicts, or throws after or without an effect); `SendCommand`, `Finalize`, `Reply`
and `Ack` the steps after it. `Timeout` is the ten second timer of a call whose
handler failed; `TimeoutTooSoon` the same timer before a handler that is merely
slow, which goes on. `Crash(process)` puts the unacknowledged messages of one
process back into their queues; `Processes` says which kinds share a process.

The workflow is a constant. `MCSaga` gives it the value of the example's
`OrderStateMachine`, including the binder that the two `When(OrderFailed)` share,
and `Outcomes` from the example's consumers. `Durable` chooses the repository: in
memory (`FALSE`) nothing has a version, so every save goes through (`CanSaveNow`),
nothing of the repository fails, and `Crash` of the saga's process loses the saga.
`Fallback` are the events that consumers send from a catch block (phase `caught`). A new saga accepts every event
(`Accepts`), as the guard of `Consume` does.

What a saga does right it does for workflows of some order. `OrderlyWorkflow` names
what that takes: no way back to a state, no event that a final state expects, and a
command that tells which state was entered. `MCSaga` assumes it of the order saga, so
that TLC evaluates it. Each part is used: a workflow in which a final state expects an
event makes TLC find a command that is sent twice, a command that two states send is
sent twice by a saga that enters both, and a saga that goes round a circle sends the
commands on it again.

### Delivery

One queue with its delayed exchange and error queue. A copy of a message is
`delayed`, `queued`, `unacked` or `gone`, and an unacknowledged one is at a `step`
of the pipeline: `consuming`, `backoff` (between in-process attempts), `failed` (in
the error callback of the subscription), `returned` or `parking` (waiting for the
timer that acknowledges). `parking` is also a flag: the copy for the error queue
is on its way in a callback that nobody awaits. `Crash` is the death of the process: it
requeues what was not acknowledged and drops the callbacks; `CrashInRedeliver` is the crash that lets the
publish of a redelivery through and not its acknowledgement. Delays have no
length; of the four retry strategies `Limit` reads how many attempts they allow, and
`NoPattern` is a consumer without one.

`WorkBounded` says how retries, redeliveries and crashes multiply. The one thing that
doubles a message is a crash between the publish of a redelivery and its
acknowledgement, so after k crashes there are at most 1 + k copies, and each crash
may start the whole schedule of every copy it finds again: with S calls in a schedule
no more than S (1 + 1 + 2 + ... + k).

### DistributedSlip, MCDistributedSlip

The same layout as `RoutingSlip`, for `routing-slip.distributed-executor.ts`, and the
consumers of its queues. `configurations` is what `provisionQueues` left: nothing
without `autoProvisionQueues`, else an entry for every activity discovered
(`Discoveries`); `NotConfigured` is the execution that meets an activity without one.
`PublishExecute` publishes a message and goes on to execute the activity in its own
process, as the code does; `CompensateNext` likewise.

`Endpoints` are the activities given to `configureEndpoints`, in order. Each gets an
execute queue and, if it can be undone, a compensate queue, with a consumer that is
bound to that activity and never reads the name in a message. `publish` looks up the
class of the message, and `startAllConsumer` has left there the queue of the last
endpoint of the class (`LastEndpoint`). So one activity is called for all messages of a
class, whatever position they name (`Served`), and the consumers of the others hear
nothing; the example names four activities there, of other slips than the one of its
hybrid pattern. A call is therefore a kind, the position named and the position called
(`Calls`). What the activity returns or throws becomes a response that is built and not
sent. A prefetch of 50 is more than a slip publishes, so all messages may be with the
consumer at once, and `pending` counts a message in the queue or with the consumer,
`unacked` one that was handled and waits for the timer of its acknowledgement. `Lose`
is the loss of the consumers' connection: what was not acknowledged is delivered again,
and the calls under way are lost with the process or, if it lives, go on and count.

Unlike `RoutingSlip` it calls the subscribers of one event in one step, which then
return or throw, and does without the list of exceptions, which nothing reads.

The executor is a refinement of `SlipContract` with `BackwardResolves = TRUE`: its
Fault branch returns, where the one of the in-process executor throws, so the
promise resolves for a slip that was undone. `app.service.ts:92` of the example takes
that for success ("This should not happen - activity was supposed to fail").

### Hybrid, MCHybrid

`Hybrid` extends `Saga`: for the commands in the domain of `Success` the consumer
is `ExecuteFulfillmentConsumer`. `StartSlip` begins a slip for the delivery of the
command, `ActivityCompletes`, `ActivityFaults`, `ActivityThrows`, `CompensateActivity`,
`SlipResolves` and `SlipRejects` are the slip; `SendSuccess` is the call after it, and
`SendSuccessFails` its failure, which the consumer's catch block gets.

The slip is what `SlipContract` promises of the executor that `RoutingSlipService` has
for its mode (`ExecutionMode`). The service's default is the in-process executor: every
failure turns the slip back and rejects it (`thrown`). The example sets the distributed
one (`routing-slip.config.ts:22`): there a Fault result turns the slip back and *resolves*
it (`faulted`), and only an activity that throws, or a message that cannot be published,
rejects it. What the saga is told is stated for each mode. Left to the slips' own modules
are subscribers that throw, activities that are not registered, not provisioned or cannot
be undone, compensations that fail, and what consumers of activity queues do: with any of
these a slip may end with part of its work in place.

A crash of the process turns a slip under way into a `lost` one (`Lost`), and the
command is delivered again. `MCHybrid` takes the workflow of `OrderFulfillmentSaga`,
on the in-memory repository, which is what a state machine gets without
configuration.

Two properties of a workflow are named in `Hybrid`, and `MCHybrid` assumes both of the
example's, so that TLC evaluates them. `WorkStartsOnce` is what keeps work from being
repeated: only the starting event sends the command that executes a slip, no consumer
sends that event, the processes that may die do not run the saga, and the saga has no
retry. With a retry a handler of the starting event whose reply was late can find that
the saga is over and gone, and have the order executed again. `ReportsExpected` says that
the saga expects every event the consumer of a command may send, in the state in which it
sent the command; an event that is refused times out at its sender, whose catch block then
reports a failure. `ReportsAreTrue` is about one submission for the same reason: a second
submission of an order that is under way is refused.

### Topology, MCTopology

One process and the broker. `pc` is the await of `start()` it is at, `idle` when
`isConnecting` is false; connections are numbered by the calls of `connect`, and a
channel is a connection and a name in `channelList`. `up`, `open` and `consuming` are
what is alive of connections, channels and consumers, `heard` the connections with a
close listener, `timers` the pending `setTimeout(start)`. `pending` are the calls of
`checkQueueAndAssert`, which nobody awaits and which run on beside `start()`, each at
its await: `AssertQueue`, `BindQueue`, `EnableRedelivery`. `exchangeOf` and `endpointOf` are
the tables that `publish` and `Send` look up, filled by `RegisteredExchange` and
`RegisteredEndpoint`. `exchanges`, `bound`, `queues`, `attached` and `delayed` are at the
broker and survive the process.

Failures: an await of `start()` is refused (`StartRefused`) or finds its connection
gone (`StartBreaks`), a connection closes, a channel closes alone, a message is
published to an exchange that does not exist (`PublishUnroutable`, which closes the
producer channel), the process dies. A rejection that nothing handles ends a Node
process, and so does the connection's `error` event, for which there is no listener:
`SetupRejects` and `Dies` are followed by `Restart`, the start of a new process by its
supervisor. A connection that closes while a setup waits on it is part of `Dies`,
since the setup then rejects.

`Configured` is what the tables take for granted of a configuration and nothing in the
code checks: no queue has the name of a class, an event belongs to one saga, the class
of a saga's state to no other consumer, and an endpoint that is named for a consumer
handles the consumer's class. `MCTopology` assumes it of its queues and consumers.

## 3. The runs

| Run | Shows |
|---|---|
| `routing_slip` | However activities, compensations and subscribers end: newest undone first, at most two undos, `RoutingSlipFaulted` only after all undos, `RoutingSlipCompleted` final, resolved work kept, the contract implemented, settling included. |
| `slip_undone_once` (violation) | A Fault result compensates everything twice. |
| `slip_failure_undone` (violation) | An unknown activity in the middle rejects the slip and leaves completed activities as they are. |
| `distributed_slip` | `RoutingSlipFaulted` after all undos or a `RoutingSlipCompensationFailed`; a promise that resolves had one ending; the contract in its own process; every message is in the end answered by a call of the activity of the last endpoint, a bounded number of times, and consumers of other endpoints call nothing. |
| `saga_repository` | With `autoArchive`: one effect per `save()`, no lost update, nothing archived is found again, every call settles. |
| `saga` | The order saga, submitted twice, with the crash of any one process and one failed or late call anywhere: workflow respected, no command twice, one ending, the archived saga frozen, nothing sent that is not saved, no handler hangs; and the saga finishes when nothing fails. |
| `saga_restart` (violation) | A restart between save and send leaves the saga stuck for good. |
| `hybrid` | The fulfillment saga in memory with the slips of the distributed executor, which the example sets, with the death of the slip's service or one failed or late call: a slip is repeated only by a crash, success is reported only of work all done or all undone, and without disturbance failure only of work undone, and the order is released. |
| `hybrid_failure` (violation) | If the call that reports success fails, the consumer reports a failure "already compensated" of work that stays in place. |
| `delivery` | Attempts and copies bounded, nothing lost and one outcome while the process lives, the queue drains. |
| `delivery_error_queue` (violation) | A crash after the acknowledgement and before the copy reached the error queue loses the message. |
| `topology` | With any two failures: exactly one timer, start or close listener drives the next start; redelivery is on only where its exchange exists; messages are routed to queues that handle them; and unless a channel closes alone, consumers come back. |

The violations are disagreements between the code and its documentation;
`findings` in `PROJECT.json` quotes both. More were met that no run is about:
in the distributed mode `ExecuteFulfillmentConsumer` reports `FulfillmentCompleted` for a
slip that a Fault result undid, where `example/docs/HYBRID_PATTERN_GUIDE.md:293` publishes
it after success, which is why `ReportsAreTrue` says no more in that mode;
`docs/SAGA_PERSISTENCE.md:300-304` says constraint violations and locking
conflicts fail immediately, while `withRetry` repeats every error; and
`docs/RETRY_STRATEGIES.md:268-274` describes an `x-retry-count` header that the
code reads and never writes. Two sides of `routing-slip-bus-configurator.ts` differ
as well: its comments at 90 and 96 speak of activity instances retrieved at run time,
while the consumers keep the placeholder of line 94.

### Bounds, and why they are enough

* `RoutingSlip`: four activities, the second without `compensate`, so that a pass
  has something on both sides of a gap; three subscribers, so that a throw has
  subscribers before and behind it; unknown activities at 2 and 4; every event's
  callbacks may throw. There is no other bound, the executor is finite. Section 5
  removes these bounds for safety.
* `SagaRepository`: two handlers, four finds (`MaxCalls`): one handler can find, save
  and remove, and another saga can begin, between another's find and the last attempt of its
  save. Three attempts (`Attempts`) and three faults (`MaxFaults`), so that one call
  can lose every answer.
* `Saga`: `Submissions` = 2 makes concurrent handlers of one event, three slots
  (`Prefetch`) are as many as events of the conversation are open at a time, one
  crash and one fault (`MaxCrashes`, `MaxFaults`), no retries; each service is its
  own process in `saga`, all handlers share one in `saga_restart`. With one slot less
  (the mutant of `FreeSlot`) the saga does not finish: everyone waits for a slot.
* `Hybrid`: one submission, a slip of two activities (an undo with something on
  either side of it; the example has four), one crash or fault (`MaxTroubles`), and
  three slots (`Prefetch`), those that one conversation needs. After a crash the reports
  of two slips compete for them, and a report that finds none waits, as the broker
  makes it wait; the proofs of Section 5 are for any number of slots. The run has the distributed
  executor, in whose slips every action of the model happens; `hybrid_failure` has the one
  in process, and Section 5 proves the safety properties with either. Only
  the service of the slip may die: when the process of an in-memory saga dies the
  saga is gone, and every message that comes again begins a new one.
* `Delivery`: two messages, two slots, one retry, one redelivery, one crash: the
  smallest values at which retries multiply with redeliveries and a crash, and two
  messages' callbacks interleave. That a second crash doubles the copies which the
  first one made is beyond this bound; Section 5 proves `WorkBounded` for any number.
* `DistributedSlip`: three activities, the second without `compensate`, the third
  perhaps not discovered, all perhaps unknown to the executor's factory, every event's
  subscribers may throw; one loss (`MaxLosses`), at which a call that goes on and one
  for the message delivered again overlap. The endpoints come in another order than the
  itinerary, and the last one that can be undone is not the last. Section 5 proves
  `RunsBounded` for any number of losses and any endpoints.
* `Topology`: three queues, with redelivery, a saga and an endpoint name among them, and
  two failures (`MaxFaults`): a failure while another is being repaired. `Foreign` is
  a class that is published here and consumed by nobody here.

### Fairness

`WF_vars(Next)` in `RoutingSlip`: promises of activities and subscribers settle and
the event loop runs. `WF_vars(Attempt(c))` in `SagaRepository`: the driver answers or
gives up; beginning a call is not fair. `WF_vars(Progress)` in `Saga` and `Delivery`, and
`HybridProgress` in `Hybrid`: the broker delivers to a free slot, timers fire, `Consume`
returns or throws, an activity ends; crashes and faults are never fair. One weak
fairness over all handlers is enough, because every handler takes finitely many
steps. `WF_vars(Executor)` and `WF_vars(Consumers)` in `DistributedSlip`: two sides that
do not wait for each other. In `Topology`, awaits of `start()` are answered and timers
fire (`Start`), and setups go on. None of them assumes that anything succeeds.

`CHECK_DEADLOCK FALSE` stands where the system comes to rest: no message left, or
the bound on calls reached. `RoutingSlip` has an explicit `Done` step instead.

## 4. Mutants

Every property of a passing run has a mutant of a mapped definition that violates
it: a log that is not reversed, a retry that rereads the version, a conflict that
is ignored, a command sent before the save, an acknowledgement left out. They
stand in the modules next to the definitions they change.

## 5. The proofs

`RoutingSlipProofs`, for every itinerary, number of subscribers, set of
compensatable or unknown activities and set of throwing events, under
`SlipAssumption` only. The inductive invariant has three layers, each proved with
the help of the one below:

1. `TypeOK /\ Control`: where the program counter is, how long the log is there, and
   that the log is 1, 2, ...; this makes the k-th entry of the reversed log a
   position one can calculate with (`LogAtCursor`).
2. `Ledger`: during a pass, `Frontier` separates positions the pass has dealt with
   from those it has not; the first were undone strictly more often than the
   second, the second less often than there are passes. `UndoIsLifo` alone is not
   inductive: it does not say that the position about to be undone is behind all
   newer ones. Together with the fact that a second pass begins only when
   everything was covered or nothing was, the order holds across passes.
3. `Announced`: which events nobody has heard yet, by phase. Needed since `heard` is a
   history, and a throw in the middle of an emission turns the slip back.

From these follow `LifoCorrect`, `TwoPassesCorrect`, `FaultedCorrect`,
`CompletedCorrect`, `ResolvedCorrect`, the action property `NoWorkCorrect`, and
`ContractSafety`: the initial states and steps of the executor are those of
`SlipContract`.

`SagaRepositoryProofs`, for any set of clients and any number of attempts, faults
and calls, under `RepositoryAssumption` and, except for types, `Archives`. `LockInv`
is the argument for optimistic locking: versions only grow, so a version stands
for one content (`Versions`), and a call whose statement took effect holds a version
smaller than the row's, so that its own repetition cannot match (`Commits`).
`Archives` is needed: without it the version dies with the row, and a save with a
version found before the removal goes through. `SavedOnceCorrect`,
`NoLostUpdateCorrect` and `RemovedCorrect` follow.

`TopologyProofs`, for any consumers, endpoints and number of failures, under
`TopologyAssumption`: `OneDriverCorrect` and `RedeliveryCorrect`. `OneDriver` counts
timers, starts under way and close listeners; `Driven` says the same case by case, and
that the one listener is on the latest connection: a start that ends adds a
listener only because it began without any, and without a timer. `Redelivering` is
`RedeliveryHasExchange` with the types it needs. The model assumes that there is an
endpoint: without one the listener would be added without the await that finds the
connection closed. `TypeCorrect` adds to the types what a setup has declared by the
await it is at (`Declared`). `RoutingCorrect` is about the tables, which are functions of
the constants: `RegisteredExchange` and `RegisteredEndpoint` each leave a name that the
class or event leads to, and the setups have bound it before the process is ready. It
assumes `Configured`, since a queue that is named like a class, or an event of two
sagas, makes one entry overwrite another.

`DeliveryProofs`, for any messages, slots, patterns and number of crashes, under
`DeliveryAssumption` only. `Typed` ties the step of a copy to its place. `Counted` is the
bound on copies: only the crash in a redelivery adds one, and adds a crash. `Budgeted`
is the argument for the bound on calls: to the calls made it adds the calls still
`Ahead`, of this attempt, its retries (`Own`) and the redeliveries to come (`Later`). No
step but a crash makes the sum grow, and a crash by one schedule for each copy. The
calls ahead are a set of pairs and not a sum, since the provers can take a set apart
and cannot unfold a sum. `Course` says, for a process that has not crashed, at which
stage a message is: one copy pending and nothing decided, or handled, or on its way to
the error queue, or there. `TypeCorrect`, `WorkCorrect`, `NothingLostCorrect` and
`OneOutcomeCorrect` follow.

`SagaProofs`, for any workflow, outcomes of consumers, number of submissions, slots,
processes, retries, crashes and faults, under `SagaAssumption`. The layers are:

1. `Typed`: which kinds of messages can be in which phase, that a message is sent after
   the one that sent it, and that a handler waits only for a later one. `TypeCorrect`
   holds with either repository and needs nothing else.
2. `Linked`: the parent of a command is the event that sent it, and the handler that
   waits is the parent of the message it waits for; so one event sends one command
   for each time it saves.
3. `Stamped`, on a database that archives (`Durable`, `Archives`): every version in
   a header or a handler is one that the row has had, and is above zero once something
   was saved. `SavedCorrect` follows.
4. `Course`, for an orderly workflow as well: the messages that *speak* for a save, the
   command sent after it or the event that is about to send it, speak for different
   states, of at most the rank of the row (`OneVoice`); a handler that can still save
   has found the row of its version (`UpToDate`); what was sent from a final state is
   never answered (`Refused`), so that nobody can archive a saga before its end
   (`AnsweredBy`), or send from its end (`Closed`).

`SentOnceCorrect`, `OneEndingCorrect` and the action properties `WorkflowCorrect` and
`FrozenCorrect` follow from the four layers. `Steps` says once what each action does to a
message and to the row; the layers are then proved over these few kinds of steps.

`DistributedSlipProofs`, for every itinerary, whatever discovery found, is registered,
can be compensated or throws, under `DistributedAssumption` only. The layers are those
of `RoutingSlipProofs`, over attempts in place of calls, since a pass that could not
publish a compensation has attempted it: `Typed` (types, `Control`, and that every position that completed has its queues, so
that `HasCompensation` agrees with `Compensatable`), `Ledger`, which orders the attempts
around the `Frontier`, and `Announced`. `TypeCorrect`, `FaultedCorrect`,
`ResolvedCorrect` and `ContractSafety` follow; consumers and lost connections
change nothing the executor reads, which `ConsumersTyped` shows once for all layers.
`Counted` is the layer of the consumers, for each position that a message may name: what
is pending or not acknowledged was sent; the calls of the served activity that ended and
those that are due are at most one for each message and connection so far; no other
activity was called. What was sent (`Sent`) is what was published on the way forward,
once, or compensated here, at most twice by `Ledger`; `RunsCorrect` follows, for any list
of endpoints.

`HybridProofs`, for either executor, any workflow, consumers, length of slips, crashes and
faults, under
`SagaAssumption` and `HybridAssumption`. It uses the lemmas of `SagaProofs` on what a step
does to the messages; those take the set of phases as a parameter, since the consumer
of a slip has two of its own. The layers are:

1. `Owned`: a live slip belongs to a command whose handler works, and to each such
   handler belongs one. `SagaStep` sums up the steps of `Saga` (`Quiet`, `Adds`), and one
   lemma each the steps of a slip, a delivery, the report and a crash.
   `HybridTypeCorrect` follows.
2. `Told`: a slip that was rejected kept none of its work, and one that resolved all of
   it or, with the distributed executor, none (`Resolvable`; only that executor has slips
   in state `faulted`, which is part of the types); whoever reports success, or is about
   to, has a slip that resolved.
3. `OncePerOrder`, with `WorkStartsOnce`: every command that executes a slip was sent by
   a starting event, each of which sends one. `SlipsPaidFor` counts slips and queued
   commands together: a delivery turns one into the other, and only a crash puts
   commands back, at most one for each submission. `HybridWorkCorrect` follows.
4. `Chain`, as long as nothing is disturbed, with one submission and `ReportsExpected`:
   the messages are one chain of events and commands, of which everything before the
   last one that is not over waits for the next, and the saga is in the state that the
   last message expects. So nothing is refused and no timer fires, and the only
   failure a consumer catches is that of its slip (`OneSlip`). `ReportsCorrect` follows from
   this and `Told`.

Only model-checked: all liveness (`CallsSettle`, `HandlersEnd`,
`SagaFinishesUndisturbed`, `OrderIsReleased`, `QueueDrains`, `EveryMessageRuns`,
`ConsumersComeBack`) and the fairness of the contract, which are outside the prover's
reach. Every invariant and every action property that a run checks is proved.

## 6. Not modelled, and why

* Payloads, serialization, formatting, logging, lengths of delays.
* `findByState`, `find`, `count`, the TTL index: they read, or act months later.
* What a throw inside amqplib's delivery callback does to the connection (malformed
  JSON): that is the external library's. So is how many channels a connection may
  have, which the channels that `publishAsync` never closes use up.
* `Saga` is about one CorrelationId; several sagas that share the slots of one queue
  can wait for one another.
* Without `autoArchive`, `Saga` on a database would recreate a deleted saga from a
  redelivered final event; the database runs of `Saga` use `autoArchive`.
* In `publishAsync`: a class without an endpoint throws before anything is sent, and a
  rejected `consume` inside the `async` executor of the promise leaves the caller
  without answer and without timer. Both need a broker or configuration that the
  models of its callers do not have.
* A connection that the broker closes while the process lives, for messages whose handlers
  are under way: `Delivery` has the death of the process. Their in-process retries and
  acknowledgement timers run on, on a channel that is closed, until the first
  acknowledgement throws in its timer and ends the process.
* The crash of the process of a distributed executor: nothing of a slip is stored,
  and what its consumers do does not depend on it.
* `subscribe` and `unsubscribe`: two lists, changed before a slip runs.
  `unsubscribe` does not reach the executor's list.
* Which instance a consumer of an activity queue calls: the answer is not sent, so no
  state depends on it.
* Exchanges of `_behaviours`, which is always empty; `close()`, which does nothing; a
  consumer that is registered with an endpoint and not with `AddConsumer`, with which
  every start fails.
* The delayed exchange that cannot be declared: the broker then closes the channel,
  and the `consume` after it rejects, which is the death of the process (`Dies`).

## 7. Plan

Done, in this order: routing slips in process (`RoutingSlip`, `SlipContract`,
proofs); optimistic locking (`SagaRow`, `SagaRepository`, proofs); the state machine
on it (`Saga`, proofs); the pipeline (`Delivery`, proofs); distributed slips
(`DistributedSlip`, proofs); the in-memory repository and the composition of a saga with
slips (`Hybrid`, proofs); start and topology (`Topology`, proofs).

Next:

1. That the repository which `Saga` assumes is the one of `SagaRepository`: a refinement
   of calls of `save()` to the steps `Save`, `SaveConflict` and `SaveAnswerLost`.
2. Several sagas on one queue, whose conversations share its slots.
3. `publishAsync` on its own: temporary channels, timers and late replies, composed
   with a pipeline that redelivers.
