# TLA+ specifications of the order state service

The service keeps the status of orders in PostgreSQL. It learns of payments from a
RabbitMQ queue, of other changes from an HTTP endpoint, moves orders along by itself
with a scheduler, and tells the .NET backend of each change through another queue.
Everything runs concurrently: several consumer workers, HTTP goroutines, a scheduler,
and possibly several instances of the program on one database. What can go wrong lies
between these parts, and that is what the modules here are about.

Paths below are relative to the repository.

## Inventory

| Part | State | Operations | Talks to |
| --- | --- | --- | --- |
| State machine (`internal/domain/order_status.go`, `order.go`) | none | `CanTransitionTo`, `ToInt`, `Order.UpdateStatus` | used by the service |
| Events (`internal/domain/events.go`) | none | constructors | service, publisher |
| PostgreSQL repository (`internal/repository/pg_order_repository.go`, `internal/db`, `sql/queries`) | rows of `orders`, row locks, open transactions | `GetByID`, `Save`, `GetOrdersByStatus`, `BatchUpdateOrderStatus` | PostgreSQL |
| In-memory repository (`internal/repository/order_repository.go`) | a map and its mutex | the same | tests only |
| Service (`internal/service/order_state_service.go`) | none of its own: local variables of each call | `HandlePaymentCompleted`, three shipment handlers, `UpdateOrderStatus`, `BatchUpdateOrderStatus` | repository, publisher |
| Publisher and producer (`rabbitmq_event_publisher.go`, `pkg/rabbitmq/order_state_producer.go`) | a shared channel, `initialized`, a mutex that some accesses skip | `PublishOrderStatusChanged`, `getOrCreateChannel`, `Close` | connection, broker |
| Consumer (`pkg/rabbitmq/order_state_consumer.go`) | channel, `workerChan`, `stopChan`, one receiver and n workers | `Start`, `messageReceiver`, `handleMessage`, `reconnect`, `Stop` | broker, event handler |
| Connection (`pkg/rabbitmq/connection.go`) | the AMQP connection, replaced without a lock | `GetNewChannel`, `Reconnect`, `Close` | shared by consumer and producer |
| Event handler (`internal/handler`) | none | `HandlePaymentCompleted` | from consumer to service |
| Scheduler (`internal/scheduler/order_state_scheduler.go`) | ticker, stopChan; per transition an offset and a page | `Start`, `processOrders`: three transitions, page by page, `Stop` | service |
| `cmd/server/main.go` | the process | start, `PUT /orders/:orderId/status`, shutdown | all |
| `internal/config`, `pkg/migrate`, `cmd/migrate`, `migrations` | none at run time | | |

How they interact, and what is hard:

* `Save` locks a row only for the two statements of its transaction. What it writes
  was decided on an earlier `GetByID`, outside of any lock.
* A batch compares inside its `UPDATE`, but it learns nothing of which rows it
  changed, and it announces all that it selected.
* A failed commit may have happened. A timed out handler goes on.
* The consumer republishes a failed message and acknowledges the original as two
  steps; connections break in between and deliveries outlive them.
* Stop, reconnection, back-pressure and workers share channels.
* Nothing ties a committed change to its event, and nothing orders the events.

What makes each part correct:

* repository: a call takes effect at one moment, at most once, its answer is true; no
  lock outlives its transaction; a batch is a compare-and-set;
* service: orders follow the lifecycle as far as the code can ensure it, an
  acknowledged payment is never lost, an event is backed by a commit, requests end;
* consumer: no message lost, every delivery settled once, retries end, Stop ends;
* producer: one usable channel, no publication on a nil or foreign one;
* scheduler: rounds end, every order's turn comes, events leave in order and never
  before the change they tell of.

`PROJECT.json` lists the hazards one by one, with the line where each bites.

## Modules

| Module | Models |
| --- | --- |
| `OrderStatus` | statuses, transition table, the backend's enum |
| `OrderLifecycle` | abstract: the life of an order that the state machine describes |
| `OrderRepository` | abstract: what a repository promises to its callers |
| `PgOrderRepository` | transactions, locks, retries of the PostgreSQL repository |
| `RepositoryClients` | that repository under arbitrary callers; it implements `OrderRepository` |
| `OrderStateService` | the service's requests on top of `PgOrderRepository`; under conditions it implements `OrderLifecycle` |
| `OrderStateScheduler` | rounds, pages, batches and events of the scheduler, `updated_at`, other writers |
| `Topology` | exchanges, queues and bindings, and what they do with a message |
| `OrderStateConsumer` | consumer, broker and connection |
| `OrderStateProducer` | the shared channel under concurrent publications, reconnection and shutdown |
| `PgOrderRepository_proofs` | lemmas: every step of the repository keeps `RepoIInv` |
| `RepositoryClients_proofs` | theorems: the repository's invariants, and that it implements `OrderRepository` |
| `OrderStateService_proofs` | type correctness of the service |
| `OrderStateServiceSafety` | theorems: the service's invariants, and that it follows `OrderLifecycle` under conditions |
| `OrderStateConsumer_proofs` | theorems: types and places of the deliveries |
| `OrderStateConsumerSafety` | theorem: no message is lost |
| `OrderStateScheduler_proofs`, `OrderStateProducer_proofs` | theorems about the scheduler and the producer |
| `MC...` | the instances for TLC |

### PgOrderRepository

`row` is the committed table. A transaction is `tx[r]`: its phase ("select", "insert",
"commit" for `Save`, "update" for a batch) while it is open, and afterwards the answer
as the callers tell answers apart: "ok", "duplicate" (what `isDuplicateKeyError`
accepts), "conflict" (40001 after the last attempt) and "error". `lock`, `attempt`,
`todo` and `hit` are the row locks, the loop variable of `Save`, the rows a batch has
still to lock and the rows the transaction writes.

`GetOrderByIDForUpdate`, `CreateOrder`, `UpdateRow`, `Commit` are the statements.
NOWAIT on a locked row is an "error", not a conflict: its message contains neither
"deadlock" nor "40001". An INSERT waits for another of the same key, and a batch waits
for locked rows and compares their status again (READ COMMITTED). Which interleavings
make PostgreSQL report 40001 is left open, so `SerializationFailure` may strike any
attempt; this allows more behaviours than the database has. `Fail` and
`CommitUnacknowledged` are the two outcomes of a lost connection or an expired
context, `AbortAll` a crash of the service.

### OrderStateService

A request `r` makes one call: a payment (`Payers`), a change of one order
(`Operators`: HTTP and shipment events), or a batch (`Schedulers`). `pc[r]` is where
its handler is, between calls to the repository; `call[r]` are its local variables;
`pending[r]` the events it has yet to publish. Each read of the repository is one
step, taken together with the decision the handler makes on it; `Save` and the batch
are called in one step and answered in a later one, with the transaction in between.
`published` is the set of the events sent, `reached` a history variable. A scheduler
is one goroutine per process, so two overlapping `Schedulers` requests are two
instances of the program.

`HandlePaymentCompleted` falls through to the existing order after a duplicate key,
looks again after a conflict, and skips orders in other states, as the code does. A
lost event is only logged. `Crash` ends every request. A redelivered message is
another `Payers` request for the same order. A change over HTTP may ask for any
string (`Requestable`): nothing but the transition check keeps it out of the table,
and `TypeOK` says that it does.

### OrderStateScheduler

`status` and `updatedAt` are the table; of `updated_at` only the order is kept (for
each order the number of orders with an earlier time), so that the rows of one batch
are equally new. The trigger sets the time to `NOW()`, the start of the transaction:
the rows of an update need not become the newest, and take any place in the order. `stage` is the transition at work, `offset`, `ids` and `full` are the
local variables of `processStatusTransition`, `unsent` the events of a batch, `told`
the last stage announced of each order. `IsPage` is the query: oldest first, `offset`
rows skipped, ties in any order. `SelectOrders` throws the coins, `processBatch` is
the service's batch as one step (`RepositoryClients` shows that it is one) followed by
its publications one by one, each sent or lost; `processBatchFails` is a batch of
which the scheduler learns only an error.

Beside it work `PaymentCompleted`, and `OtherInstance` for other processes and for
changes over HTTP that advance an order. A `Save` that overwrites what it has not seen
(violation 1 below) is kept out. In the code a payment reads without a lock and writes
later, also after a retry; in the model it checks as it writes. A late `Save` could
take an order back a stage between the page and the `UPDATE`, or cancel it, so
`NothingToldTooEarly`, `EventsInOrder` and `EveryOrderArrives` are all said of a table
where no `Save` does that.

Two remarks of the code are worth knowing here. `internal/scheduler/order_state_scheduler.go:117` counts pages
although the rows just updated leave the result, so that a round passes over some
orders: later rounds reach them, which is what `EveryOrderArrives` shows. And
`internal/service/order_state_service.go:324` speaks of publishing asynchronously, while the code publishes in the
scheduler's own goroutine: `EventsInOrder` depends on that, as the mutant
`processBatchPublishingLater` shows.

### OrderStateConsumer

`queues` are the broker's queues as bags of messages with their retry counts,
`unacked` the unsettled deliveries by tag, `wire` the frames sent on the connection
and not yet read, in order. A connection that breaks takes its frames along and puts
unsettled deliveries back; deliveries that the client still holds lose their tag, and
settling them has no effect. `prefetched` are the deliveries in the client library,
first in, first out; which message the broker delivers next is left open. The receiver
is "top" of its loop, in "range" over the deliveries, waiting for space ("full") or
"stopped"; a worker is "idle" or somewhere in `handleMessage`, and `orphans` are
handlers that run on after their timeout. `Stop` closes both channels in one step.
`HeaderType` is the Go type in which amqp091-go returns an int header: the protocol
has 32 bit integers, so it is "int32", and `getRetryCount` does not recognise it.

`Topology` says where a rejected, retried or given up message ends. A publication goes
to the queues bound to its address and nowhere else.

### OrderStateProducer

`channel`, `initialized` and `channelLock` are the producer's fields; `pc[g]` is where
a publishing goroutine is, `local[g]` the channel it was given. Every access of the
fields is a step of its own: the check without the lock, the return after it, the
steps under the lock, and the two resets after a failed publication, without it. A
reset may come between two steps under the lock too: the closing of the old channel
then finds nil and panics, and the deferred `Unlock` runs.
`state` are the channels, `conn` the connection, which breaks, is closed, and is
replaced by the consumer's `Reconnect`; `Close` is what main does to producer and
connection at its end while goroutines still publish. A goroutine that uses nil
panics: an HTTP request is recovered (`Recover`), in any other the process ends
(`Restart`). `dropped` and `disturbed` are history variables. An event whose frame is
written to a connection that has broken unnoticed is lost without an error
(`LostUnnoticed`).

The broker, the network and the client library are external: modelled from how the
code uses them (manual acks, requeue, prefetch, dead letter exchange, no publisher
confirms, not mandatory).

## Runs

| Run | Instance | Shows |
| --- | --- | --- |
| `RepositoryClients` | 2 callers, 2 orders, saves and batches over both | `RepoTypeOK`, `LocksMatchTransactions`, `BatchRowsUnchanged`; refinement `KeepsPromise` |
| `ServiceMixed` | 2 payments, 1 status change, 1 batch, 1 order, 2 attempts | `TypeOK`, `NoStageSkipped`, `PaymentNeverForgotten`, `EventsTellCommittedChanges` |
| `ServiceBatches` | 1 payment, 2 batches, 2 orders | refinement `FollowsLifecycle`; liveness `Termination` |
| `SchedulerRounds` | 2 orders, batch sizes 0 to 2, 1 fault | `TypeOK`, `NothingToldTooEarly`, `EventsInOrder`; liveness `RoundEnds`, `EveryOrderArrives` |
| `ConsumerDeliveries` | a good and a malformed message, 3 copies, 1 worker, prefetch 2 | `TypeOK`, `NoMessageLost`, `EachDeliverySettledOnce`; liveness `DeliveriesEnd` |
| `ProducerChannel` | 2 goroutines, 4 channels | `TypeOK`, `OneChannelWhileConnected`, `NoEventDropped`; liveness `PublicationEnds` |
| `ServiceStaleSave` | 1 payment, 1 status change | violation of `NoIllegalTransition` |
| `ServiceTwoPayments` | 2 payments | violation of `OnePaymentSucceeds` |
| `ServicePhantomEvent` | 1 status change, 1 batch | violation of `BatchEventsTellUpdates` |
| `ConsumerRetryCount` | 1 message | violation of `RetryCountIncreases` |
| `ConsumerStop` | 1 message | violation of `StopEnds` |
| `ProducerNil` | 2 goroutines | violation of `ReturnsChannel` |

Deadlock is checked in all of them.

The six violations are disagreements between the code and what its comments, its
feature file or its README say of it; `PROJECT.json` quotes the lines.

1. A `Save` overwrites a status it never looked at. A cancellation decided on
   `Created` is written after the payment, and a paid order is `Canceled`.
   `FollowsLifecycle` therefore holds only where nothing but batches and one payment
   work on an order, which is how `ServiceBatches` is set up. What remains true
   without that condition is `NoStageSkipped`, and it is proved.
2. Two payment events both update the order and both publish the change.
3. A batch announces orders that it did not change.
4. The retry count never gets beyond 1, so a failing message is retried for ever and
   the dead letter branch of `handleMessage` is not reached.
5. `Stop` does not return while the queue is empty.
6. A goroutine whose publication fails resets the shared channel between another's
   check and its return, which then returns nil and no error.

Of the third, what does not happen is shown too: a batch announces orders that it did
not move, but none further than somebody has moved it (`NothingToldTooEarly`), as long
as no `Save` overwrites what it has not seen, the first of this list.

Four properties say less than their names may suggest. `FollowsLifecycle` in its run
has two batches of one call each: one can be overtaken only by another that writes the
same status, so what the run shows is the payment's side; that the comparison of a
batch matters is shown by `BatchRowsUnchanged` and `KeepsPromise`, and for any number
of batches by the theorem `OrdersFollowLifecycle`. `OneChannelWhileConnected` is about
goroutines that make the first channel at the same time; after a disturbance it claims
nothing, and what the unlocked resets do is violation 6. `NoEventDropped` is about
events that the broker gets; those that are lost with a connection are not among them.
`PaymentNeverForgotten` takes an order that is `Canceled` for one that has left
`Created`, which is violation 1 again.

### Bounds

* Two batches, a payment and two orders let a batch be overtaken between its read and
  its `UPDATE`, on one row or on both, and let batches wait for each other. A third
  batch, which would take a row two stages ahead, is beyond TLC here.
* The callers of a `Save` touch one order only. Four requests on one order let a
  change be read, overtaken and overwritten while a third request looks on.
* `MaxRetries` is 3 in the code. 2 in the passing service runs has a first, a further
  and a last attempt; the violation runs use 3.
* A request makes one call. A later call of the same goroutine is another request,
  since nothing is kept between calls.
* Two orders in the scheduler fill pages of one, of two and of more than there are
  rows; size 0 is what the configuration accepts and the query takes for 100. One
  fault (`MaxFaults`) is an error or a crash anywhere in a round; histories with more
  of them are covered by the theorems.
* `MaxCopies` and `MaxWire` bound the messages in the broker and the frames under way.
  Three copies hold an original, its republication and the malformed message. A
  publication waits for room, which the real broker does not make it do; no invariant
  depends on that.
* One worker makes `workerChan` two long, so that it can be full within three copies:
  a broken connection leaves stale deliveries in it. In the model a full buffer, the
  five seconds and the refusal all occur. A prefetch of two (10 in the code) is less
  than the buffer and the worker together, as there.
* Four channels in the producer: one shared, one in the hands of each goroutine, and
  one to be made while all of those are referred to. A closed channel that nobody
  refers to is made again.
* Symmetry is used for the two payments of `ServiceMixed` only.

### Fairness

`OrderStateService` has weak fairness on `Step(r)`: a goroutine that can go on goes
on, and the database executes statements and detects deadlocks. Nothing has to begin,
fail or crash. A batch that waits is not enabled, and gets its row since every holder
of a lock commits or rolls back: that is what `Termination` is about.
`OrderStateConsumer` has weak fairness on the broker, the receiver, each worker and
the return from `wg.Wait`; lost connections, shutdowns and crashes are not fair.

`OrderStateScheduler` has weak fairness on the goroutine and its ticker. The coins are
not part of it: `RoundEnds` holds whatever they show, and `EveryOrderArrives` has as
its premise `FairCoins`, that a coin thrown for an order again and again shows heads
some time. Both hold while payments and other instances keep changing the table. The
orders are finitely many, as in any table, but also over time: that a stream of new
orders without end could keep a round going is not refuted.

`OrderStateProducer` has weak fairness on a publication that has begun, and strong
fairness on the mutex: Go's `sync.Mutex` hands itself over to a goroutine that has
waited for a millisecond. A connection need not ever come back.

## Proofs

Every safety invariant, action property and refinement that a passing run checks is
also a theorem, for every value of the constants that the assumptions named below
allow. The theorems are about the same definitions as the runs.

| Component | Theorem | States |
| --- | --- | --- |
| Repository | `RepositoryClients_proofs!TypeCorrect` | `RepoTypeOK` |
| | `LocksFollowTransactions` | `LocksMatchTransactions` |
| | `BatchesCompareAndSet` | `BatchRowsUnchanged` |
| | `Refinement` | `KeepsPromise` |
| Service | `OrderStateService_proofs!TypeCorrect` | `TypeOK` |
| | `StagesInOrder` | `NoStageSkipped` |
| | `PaymentsAreKept` | `PaymentNeverForgotten` |
| | `EventsAreTrue` | `EventsTellCommittedChanges` |
| | `OrdersFollowLifecycle` | `FollowsLifecycle`, without operators and with one payment |
| Consumer | `OrderStateConsumer_proofs!TypeCorrect` | `TypeOK` |
| | `DeliveriesSettledOnce` | `EachDeliverySettledOnce` |
| | `MessagesAreKept` | `NoMessageLost` |
| Scheduler | `OrderStateScheduler_proofs!TypeCorrect` | `TypeOK` |
| | `ToldInTime` | `NothingToldTooEarly` |
| | `EventOrder` | `EventsInOrder` |
| Producer | `OrderStateProducer_proofs!TypeCorrect` | `TypeOK` |
| | `NothingDropped` | `NoEventDropped` |
| | `OneChannel` | `OneChannelWhileConnected` |

### Repository

The theorems of `RepositoryClients_proofs` hold for every set of orders, of callers and
of calls they may make, and every `MaxRetries`, under `RepositoryAssumption` (the two
special values are not statuses or requests, `MaxRetries` is a positive number) and
`ClientsAssumption` (the table starts with statuses, and a `Save` is for one order: it
takes one order as its argument).

* `Invariance`: `Spec => []RepoIInv`. Types, locks and `BatchRowsUnchanged` need each
  other: that the rows of a batch stay as they were compared follows from the batch
  holding their locks, which needs every writer to hold the lock of its row. What is
  missing for that is what the phase of a transaction says of its call, `TxMatchesCall`
  (a `Save` that has come to its commit has locked the one order of its call).
* `Refinement`: every step of the transactions is a step of `OrderRepository`, or
  changes nothing that a caller can see. The mapping takes the committed table as the
  abstract one. A commit is the moment at which a call takes effect; a commit whose
  acknowledgement is lost is the abstract repository's right to answer with an error
  after the effect; retries, locks and rollbacks are stutters. For a batch the proof
  uses `BatchRowsUnchanged`: at the commit the rows still have the status that was
  compared, so the abstract compare-and-set happens in one step.

The lemmas are in `PgOrderRepository_proofs`, one per statement of the module, so that
the service, which contains the same repository, can use them.

### Service

The theorems hold for every set of orders and requests, every `MaxRetries` and every
`Seeded`, under `RepositoryAssumption` and `ServiceAssumption` (every request has one of the three roles, and `Seeded` contains
statuses).

* `TypeCorrect`: `Spec => []TypeOK`.
* `Invariance`: `Spec => []IInv`. None of the three properties below is inductive:
  each depends on what a request had seen when it called the repository. `IInv` adds
  `HistoryHasRow` (the history contains the present), `CallsJustified` (a change under
  way is legal for a status that its orders *have had*, not for the one they have),
  `TransactionsBelong` (a transaction is open only while its request waits for it),
  `SavesWrote` and `PublishersWrote` (a `Save` answered "ok" has written its order,
  which is past `Created` ever since) and `PublishersAreDone`.
* `StagesInOrder`, `PaymentsAreKept` and `EventsAreTrue`: `NoStageSkipped`,
  `PaymentNeverForgotten` and `EventsTellCommittedChanges`, from `IInv`.

The argument: rows change only at a commit (`CommitIInv`); every status that is
committed was justified by one already in the history, so histories have no gaps; no
transition leads to `Created`, so an order that has left it stays past it; and a
handler returns without an error only after a commit of its own or after seeing the
order past `Created`.

* `RepositoryInvariance`: `Spec => []RepoIInv`, from the lemmas about the repository:
  the service makes no call that they do not allow.
* `OrdersFollowLifecycle`: `FollowsLifecycle`, for any number of orders and of batches,
  if there are no operators and at most one payment. Without the hypotheses it is false
  (violation 1, and its like with two payments). Its invariant adds `SaveIsFresh` (the
  only `Save` is the payment's, and the row is still as the payment read it: batches
  leave `Created` alone and nobody else inserts) and `BatchIsScheduled` (what a batch
  compares and writes is a pair of the scheduler's table). A commit then takes
  all the rows it writes from one status to one that may follow it, which is a step of
  `OrderLifecycle`.

### Scheduler

The theorems about the scheduler hold for every finite set of orders, every batch size
and every number of faults (`SchedulerAssumption`: `NoRow` is no status, batch sizes
and the bound on faults are numbers).

* `TypeCorrect`, and `Invariance`: `Spec => []IInv`. `NothingToldTooEarly` is not
  inductive, since what will be told is in `unsent`, and what that will be was fixed
  when the page was read. `IInv` adds that an order of a page or a batch has come as
  far as the transition at work and has been told of nothing from it on (`AtStage`),
  that an event still to be sent is of that transition, reached by its order, and not
  behind what its order has been told (`UnsentAreTrue`), and that events are unsent
  only while they are being published.
* `ToldInTime`: `NothingToldTooEarly`; `EventOrder`: `EventsInOrder`, from `IInv`.

The argument: only forward steps change the table (`BatchMovesForward`,
`PaymentMovesForward`), so what a page has seen of an order stays true as a lower
bound; an `UPDATE` that leaves a row out does so because the row is past the stage
already; hence the announcement of every id is true, if late.

### Producer

The theorems about the producer hold for every set of goroutines and every set of
channels (`ProducerAssumption`: the special values are none of them).

* `TypeCorrect`, which includes that the lock is held exactly by the goroutine between
  `Lock` and `Unlock`, and `Invariance`: `Spec => []IInv`, with `DeclaredFirst` (a
  channel is shared or published on only when all is declared) and `Undisturbed`
  (which channel each goroutine holds while the connection is untouched).
* `NothingDropped`: `NoEventDropped`; `OneChannel`: `OneChannelWhileConnected`.

The argument: declarations are durable and `channel` becomes anything but nil only
after them; and while the connection is untouched no publication fails, so nobody
resets, a channel is made only by the holder of the lock while `channel` is nil, and
it stays the only open one.

### Consumer

The theorems about the consumer hold for every set of messages, malformed or not, every
finite set of workers, every prefetch window and both types of the header, under
`ConsumerAssumption` (what the constants are) and `NoneAssumption` (`None` is no tag,
no message and no delivery). The bounds `MaxCopies` and `MaxWire` may be any numbers.

* `Placement`: `Spec => []Placed`. That a delivery is settled once is not inductive. It
  takes, besides the types, `HandsMatch` (who is at rest holds nothing, and a process
  that is down has everybody at rest), `TagsInPlace` (every unsettled delivery is in
  exactly one of five places: a worker, `workerChan`, the wire, the client library, the
  receiver; and a tag that is free is nowhere), and `HoldsWhatIsUnsettled` (a live
  delivery carries the message that the broker has under its tag). The types depend on
  the places: that the message which a `Nack` returns to the queue is one at all is
  because the frame's tag is still unsettled.
* `TypeCorrect` and `DeliveriesSettledOnce` follow; the latter counts the places.
  `PrefetchedFits` is a pigeonhole argument: a delivery per tag, so no more than the
  window.
* `Invariance`: `Spec => []IInv`, where `IInv` adds `UnhandledIsKept`. `NoMessageLost`
  itself is not inductive, since an ack on its way may remove the last copy.
  `UnhandledIsKept` says that a message which no handler has handled is in a queue, or
  delivered and unsettled such that every ack of it on the wire has a new copy of it
  ahead, and that a worker which has published it has that copy on the wire still.
* `MessagesAreKept`: `NoMessageLost`, from `IInv`.

The argument: the broker reads frames in order, so copies and acks move up together and
an ack never gets to the front before its copy (`AcksFollowAfterReading`); a lost
connection takes both along and returns the delivery to the queue
(`LoseConnectionKeeps`); a `Nack` or a rejection ends in a queue, because each address
that the program uses is bound (`RoutesExist`); and an ack without a copy is sent only
by `HandlerSucceeds`, whose message is handled from then on.

### What is not proved

`Termination`, `RoundEnds`, `EveryOrderArrives`, `DeliveriesEnd` and `PublicationEnds`
stay with TLC: liveness under fairness is out of the prover's reach. The six violations
are behaviours that TLC exhibits; nothing is proved of them.

## Not modelled

* The .NET backend: it is not in the repository, so nothing is claimed of what it
  makes of an event that is lost, repeated, or reordered between a payment's goroutine
  and the scheduler's. The code promises none of these away.
* The in-memory repository: tests only; its operations are single steps under a mutex.
* Configuration, the migrations and their command: they run before anything else.
  Their values and their outcome (table, key, trigger) are part of the modules.
* The code generated by sqlc around the statements, the connection pool's limits.
* The BDD steps and mocks: read for what they say of the program.
* Routing, JSON, timestamps and logging. `MockLogger`, which `cmd/server/main.go:92`
  passes to the service, appends to a slice without a lock from every goroutine; no
  state of the models depends on what it keeps.
* The types of the domain events that only log (`HandleOrderCreated`).
