# TLA+ models of RED Bus

This directory holds TLA+ modules of the message bus in this repository, the TLC configurations that
check them on small instances, and proofs for TLAPS. Paths below are relative to the repository root.
`PROJECT.json` maps every definition to the lines it stands for.

    tlc -workers 2 -config StreamExchange.cfg MCConsumeStream
    tlc -workers 2 -config Outbox.cfg MCOutbox
    tlapm OutboxProofs.tla

## 1. The system

Producers call `Produce`; the bus writes to Kafka. A consumer opens one bidirectional `Consume` stream
per topic and group; the bus opens a Kafka reader for it, sends batches down the stream, waits for the
results and commits. A message that failed is stored in the table `repeat` before the commit; a
background job delivers such rows again through the same streams. Several bus processes share Kafka and
the table. Clients use a Go or a Scala SDK, which also offer a transactional outbox and an inbox.

| Component | Code | State | Operations | Talks to |
|---|---|---|---|---|
| Retry queue | `internal/app/repository/repeater.go`, `internal/app/service/repeater`, `internal/app/model/repeat.go`, `internal/pkg/background` | table rows; the job's in-memory copies; a job lock per process | add, find due rows, deliver, update attempt, delete, restart (all / since / by error class), delete by class | connection store, consume stream, admin API |
| Consume stream | `internal/app/grpcapi/consume.go`, `internal/app/service/databus/consume.go`, `internal/pkg/stream` | RPC handler, its context, abort reason, error of the loop, batch out, watchdog | connect, serve, send batch, receive result, expire, abort, finish | client, Kafka consumer, stores |
| Kafka consumer | `internal/pkg/kafka/consumer` | reader, batch, mutex shared by both writers of a stream, state | fetch, process, commit, reconnect, close | Kafka |
| Connection store (consumers) | `internal/app/service/connstore` | bags by (topic, group, id) | add, remove, findBest, snapshot | retry job, statistics |
| Active consumer metrics | `internal/pkg/metrics` | series by (topic, group, id), gauge by state | add, change state, remove | consume stream |
| Connection store (producers) | `connstore/producer_store.go`, `internal/pkg/kafka/producer` | producer by topic | get or create | Produce |
| Group offsets and statistics | `internal/pkg/kafka/provider`, `databus/stat.go` | none | committed offsets, log offsets, lag | Kafka, admin API |
| Retry strategies, error classes | `internal/app/model/repeat_strategy*.go`, `errorclass.go` | none | next start, class of a text | retry queue |
| Loki log sink | `internal/pkg/logger/loki.go` | bounded queue, drop counter, batch | add, push, flush, stop | all |
| Go outbox | `api/golang/outbox` | outbox table, triggers, throttle | insert, pass, batch, publish, delete | Produce |
| Go consumer SDK, inbox | `api/golang/consumer`, `api/golang/inbox` | stream, handlers, inbox table | connect, serve, process with timeout, claim, mark | consume stream |
| Scala SDK | `api/scala/redbus` | the same, other scheduling | flush, consume, reconnect | as above |
| Dashboard feed | `internal/pkg/adminapp`, `internal/pkg/evtsrc`, `internal/app/adminapi`, `web/admin` | last counts of the poller, event streams, what a page shows | poll, publish, load | control API |
| Bus process | `cmd/redbus`, `internal/pkg/app`, `internal/pkg/background` | goroutines of an errgroup, its context, servers | start, listen, signal, stop, wait | all |
| Admin and control API | `internal/app/adminapi`, `internal/app/controlapi`, `internal/pkg/admincontrol`, `cmd/redbus-triage` | none of their own | - | retry queue, offsets |

What is hard in it:

- *Two writers, one stream.* The Kafka loop and the repeat job send through the same stream; question and
  answer must never drift apart, for clients with and without batch ids.
- *Waking a blocked `Recv`.* It returns only when the RPC ends, so whoever ends the RPC must not wait for it.
- *Keys that outlive their streams.* Store and metrics are keyed by a client id that is used again by the
  next stream while the goroutines of the last one are still running.
- *A Kafka reader runs ahead of its commits*, partitions move, commits are refused or their answer is lost.
- *Stale copies.* The repeat job writes back whole rows it read before the delivery; administrators and
  other processes write the same rows; some requests are two statements.
- *At-least-once hand-over* from Kafka to the table, and from the outbox table to Kafka.

What makes each part right:

| Component | Correct when |
|---|---|
| Retry queue | a row is failed exactly when its attempts are used up; a deferred row is never finished; no write takes back an attempt or a restart; pending rows are delivered in the end |
| Consume stream | an accepted answer is about the batch that was sent; a client that is dropped is told; nobody waits forever; nothing stays open |
| Kafka consumer | an offset is committed only when everything below it is dealt with; first deliveries are in order; repeats need a fault; nothing is skipped for good |
| Connection store, metrics | a stream that is served is found and counted; one that ended is not; the strategy found is the consumer's |
| Connection store (producers) | one writer per topic; an accepted request is written as a whole; no creation holds up the others for good |
| Go outbox | no row is deleted unpublished; replicas repeat nothing between them; a topic keeps its order; committed rows are delivered in the end |
| Go consumer SDK, inbox | at most one effect per key with the transactional inbox; success is only answered for what is done; every batch ends |
| Group offsets, statistics, dashboard | what people are shown is right for the state they are shown it of, and the known exceptions are all |
| Loki log sink | every line is somewhere, or counted as dropped, or in a push that failed; failed pushes are silent for a minute at most; flush and stop cover what was queued before |
| Process | once one goroutine ends, the process does |

## 2. Modules

| Module | What it is |
|---|---|
| `RepeatQueue` | the retry queue: table, job of each instance, administrator |
| `RepeatLedger` | what the queue promises about a failed message; `RepeatQueue` with one instance implements it |
| `RepeatQueueProofs` | its theorems, and that it implements `RepeatLedger` |
| `ConsumeStream` | one Consume RPC with its two writers, client, watchdog and Kafka loop |
| `BatchExchange` | what the stream promises its writers; `ConsumeStream` implements it |
| `ConsumeStreamProofs` | its theorems, and that it implements `BatchExchange` |
| `KafkaDelivery` | the read-process-commit cycle of the members of a group, over a Kafka group |
| `AtLeastOnce` | what the bus promises a group about the messages of a topic; `KafkaDelivery` implements it |
| `KafkaDeliveryProofs` | its theorems, and that it implements `AtLeastOnce` |
| `ConnStore` | store and metrics of a process under streams that come and go |
| `ConnStoreProofs` | its theorems |
| `Outbox` | the flushers of all replicas of a service over the outbox table, and the transactions that fill it |
| `TopicRelay` | what the outbox promises about the rows of a topic; `Outbox` implements it |
| `OutboxProofs` | its theorems, and that it implements `TopicRelay` |
| `SdkConsumer` | the Go consumer SDK: loop over streams, handlers with time limits, inbox |
| `MessageEffects` | what the inbox promises about effects and answers; `SdkConsumer` implements it |
| `SdkConsumerProofs` | its theorems, and that it implements `MessageEffects` |
| `Producers` | a publish, from the SDK through the RPC and the store of producers to the log |
| `GroupOffsets` | the offsets page: four requests to Kafka one after the other, merged with the connection store |
| `AdminFeed` | the live dashboard: poller, events, pages that load for themselves |
| `RetryStats` | the queries about the retry queue, `redbus-triage`, and the delete of a class that is shown |
| `RetryTimes` | the arithmetic of retry delays, time limits and look-backs, with integers that overflow |
| `PartsProofs` | theorems of `Producers`, `GroupOffsets`, `AdminFeed`, `RetryTimes` and `RetryStats` |
| `LokiSink` | the log sink: queue, worker, flush and stop |
| `LokiSinkProofs` | its theorem |
| `AppRun` | the life of a bus process |
| `MC...` | instances of these for TLC; `MCParts` holds the seven small ones, `MCRetryStats` one of them with other classes |

### RepeatQueue and RepeatLedger

`rows` is the table (one topic and group; statements never cross groups). A row's `status` stands for its
presence and `finished_at`; `wait` is the time left until `started_at`. `bags` is what each instance's
connection store knows; `phase` and `snap` are the running job and its copies. One action per statement
or decision: `Add` is `Repeater.Add`, `RunStart` is the `SELECT`, `Skip`/`Send` the lookup of a consumer,
`AnswerOk`/`AnswerFailure`/`AnswerEmpty`/`AnswerNotSaved`/`NoAnswer` what follows `ProcessMessageList`.
Goroutines of one run work through the rows of a consumer id one by one (`NextInLine`). `ResolveClass`
and `RestartFailedByError`/`DeleteFailedByError` are the two statements of the requests by error class;
`admin.visible` remembers what the first one saw. Which failed rows a time window leaves out is left
open. Message ids, payloads and headers are data the queue does not look at.

`RepeatLedger` is the promise: an entry per message, whose deliveries are counted one by one against the limit of
its strategy. There are no copies and no job in it; a delivery finds the entry due and changes it in one step. The
refinement maps a row to its entry (`EntryOf`: `due` is `wait = 0`, `spent` is `attempt`, `limit` what the strategy
allows) and the write after a delivery to that step. The promise is that of a deployment of one bus process: with two,
a copy may be of a row that another process has written since, and TLC finds the refinement violated.

### ConsumeStream and BatchExchange

`h`, `status`, `done`, `errCh`, `abortCh` are the handler, the status it will return, its context and its
two channels of capacity one; `pc`, `batch`, `got` are the two writers, `reader` the Kafka reader of the
consumer, `up` the results on their way to the bus. An answer carries an `id` (`NoId` for clients built
before batch ids) and, as history, the batch it is `about`. The mutex of the consumer is held exactly
while a writer waits (`Unlocked`); sending and the failure of sending are under it. The client may do
anything a gRPC client can: answer late, again or never, close its half, leave, or give its RPC a deadline that
passes (`Deadlines`; `expired` then). A loop whose context is over for that reason does not end, since the code only
takes nil and `Canceled` for an end (`databus/consume.go:172`): it breaks and reconnects. One exception: a client
without batch ids answers a batch once, otherwise no position could be right.

`BatchExchange` is the promise: batches go out one at a time with growing numbers, an answer is the answer to
the batch that is out, and after a batch ended without its answer nothing is answered any more. The refinement
maps the writer that waits to `asker`, the younger of the two writers' batches to `out`, and `lost` (a history
variable) to `broken`.

### KafkaDelivery and AtLeastOnce

A member is a consume stream of the group on any bus process. `committed`, `owner`, `gen` are Kafka's;
`joined`, `pos` belong to the reader of kafka-go, which starts at the committed offsets of its partitions when
it joins a generation and may learn late that the generation is over. `mode`, `list`, `left` are the cycle of
`Consumer.Consume` and of the handler. A commit in a generation that is over is refused (`CommitRefused`); an
old batch that is committed after the reader joined again is not, and may set the offset back. A commit may be
lost on the way before or after Kafka took it (`CommitLost`). Any error drops the batch (`Break`), and
`Reconnect` takes a new reader. Kafka's side (`Rebalance`, `Assign`, `Join`) is external and modelled from how
`consumer.go` uses it: `Assign` is the first generation, `Rebalance` a later one, which is a fault. A reader
that closes or is new makes Kafka start another generation; the model leaves that to `Rebalance`, which may
follow at any time or not at all and is counted as a fault of its own. So `RepeatsNeedFaults` bounds repeats
by errors plus rebalances, and `EveryMessageHandled` is about groups that come to rest. `handled`, `omitted`,
`delivered` are history; `omitted` are the messages for which the client gave no result in an answer that had
others, which the code counts (`missing_result`) and commits.

`AtLeastOnce` is the promise, with neither members nor readers nor generations: a message is sent again only at the
cost of a fault, and first after those before it; it is settled after it was sent; an offset may be committed when
all below it is settled, be it forwards or backwards. The refinement maps `delivered` to `sent`, `handled` and
`omitted` to `settled`, `committed` to `offset`.

### ConnStore

A stream stands for its bag, its consumer and the strategy it connected with; `id` is the id its client sent,
chosen in `Init`: two streams are of two consumers, or of one that connected again. `AddBag`, `AddSeries`,
`RemoveSeries`, `RemoveBag` are the four calls of `startConsumer` and `finishConsumer`, each under its own
mutex, so that streams interleave between them. `loop`, `marked`, `timer` are `consumeOnce` with its
`stableAfter` timer: `late` is a timer function that is waiting for the mutex when the run ends.
`FindRepeatStrategy` and `StoreRow` are the two steps of storing a failed message.

### Outbox and TopicRelay

`table` is `redbus_outbox` with the ids in the order the rows were inserted, which need not be the order of
their commits (`Write`, `Commit`). `before[r]` is history: rows of r's topic with a lower id that were visible
no later than r; only these can be promised to come first. A flusher's `mode` is where it is in a pass (`flush`),
a step (`flushBatch`) or its fetch. `Fetch` takes the snapshot of the `SELECT .. FOR UPDATE`; `LockRow` goes on
by one row, waits for a lock of another flusher and skips a row that is gone, as PostgreSQL does under READ
COMMITTED. Selected rows are in id order, so that a set of ids stands for the list. A group that fails is put into `failed` and left out for
the rest of the pass; a publish that failed may have been written in part, or be written later (`LateWrite`).
`DeleteDone` and the commit may fail, or succeed without the caller learning of it (`CompleteFails`).
A transaction that rolls back is one that stays open. The channel of triggers holds one and the sweep always
brings another, so a flusher can always start a pass.

`TopicRelay` is the promise, without replicas, passes, fetches, locks and transactions: the rows of a topic that wait are
written by one request, which takes them and what comes before them; they are forgotten after that only; a row is
written again only because a request with it failed, was only partly acknowledged or is still on its way. The refinement
maps a row that a flusher holds as published to `written` (`Places`), and the history variables as they are.

### SdkConsumer and MessageEffects

A delivery is one message in one batch, with the goroutine that handles it (`step`). `processMessage` returns when
the handler does or when the time limit passes (`TimedOut`); in that case the handler runs on, and the next
delivery of the message may meet it. `Check`, `HandlerReturned`, `Mark` and the like are the statements of the
three inbox modes; `effects` counts committed effects of a message. The claim of the transactional mode is an
insert that waits for the transaction that holds the key. `unmarked` and `overlaps` count the causes a repeat may have in the
mode `OnlyOnce`. The handler of a message that cannot be decoded returns without an effect and without an error
(`api/golang/redbus/client.go:228-231`), so in that mode it is marked like any other.

`MessageEffects` is the promise, without consumers, streams, batches, deliveries and handlers: with the transactional
inbox an effect comes in one step with its mark; in the mode `OnlyOnce` the mark follows (or comes alone, for a message that cannot be decoded), and each effect after
the first needs an excuse; in every mode a message is reported done when its effect is there or there is nothing to do. The
refinement keeps `effects`, maps `inbox` to `marks`, `answered` to `told`, and the two counts to `excuses`.

### The small modules

`Producers` has the mutex of the store (`prodLock`), which is held while a topic and its writer are created; a
round-robin balancer that spreads the messages of a request over the partitions; a writer whose partitions fail
separately, and whose messages may be written after their caller has gone. `GroupOffsets` has a request of
`GetTopicList` per step, and between them commits, appends, retention, a topic created anew, assignments and consumers that come and go.
`AdminFeed` numbers the changes of the counts, so that a page knows whether it shows the newest; `feedOdd` names
the ways in which this code leaves it out of date. `RetryStats` computes every answer from a table that may change between the
requests of a reader, and compares it with what the reader makes of it; its lists are sorted by rank (`StatSort`). The class
of an error is a constant function of which nothing is assumed: the class of a class may be another. `RetryTimes` has one step
per question; its state is the question and its answer. Its floats are a finite set of multiples of a unit, and an operation
ends at one next to the exact result (`TimeNearest`), with one rounding or two. `LokiSink` has a goroutine per line, the
worker, the main goroutine and a clock, since failed pushes are reported once a minute at most (`LokiReport`). `AppRun` has a
goroutine per member of the errgroup.

Each of the seven is a complete specification of its own; their names have a prefix so that `MCParts` can extend
them all (`MCRetryStats` is one of them alone). Its first state chooses a part and only that part moves, so that the run explores the sum of
their states and not the product.

## 3. Runs

| Run | Module, cfg | Shows |
|---|---|---|
| `repeat_one` | MCRepeatQueue, RepeatQueueOne | one instance: attempts, deferrals, fresh copies, attempt steps, refinement of RepeatLedger, pending rows are delivered |
| `repeat_class_delete` | MCRepeatQueue, RepeatQueueClassDelete | violated: rows not seen at the lookup are deleted |
| `stream_exchange` | MCConsumeStream, StreamExchange | answers match, clients are told, waits are guarded and end, the loop ends, refinement of BatchExchange |
| `stream_reader_leak` | MCConsumeStream, StreamReaderLeak | violated: a reader stays open |
| `delivery` | MCKafkaDelivery, Delivery | two members, two partitions, one fault: commits, order, repeats, refinement of AtLeastOnce, every message is dealt with |
| `store` | MCConnStore, Store | store, metrics and strategy; nothing is left of an ended stream; the gauge is exact |
| `store_strategy` | MCConnStore, StoreStrategy | violated: the strategy of a reconnected consumer is lost |
| `outbox` | MCOutbox, Outbox | two flushers, rows of a refused and of an accepted topic, one fault: repeats only after failures, order, refinement of TopicRelay, complete passes, delivery in the end |
| `outbox_oversize` | MCOutbox, OutboxOversize | violated: rows that together exceed a request are never delivered |
| `sdk` | MCSdkConsumer, SdkConsumer | one effect per message, explained repeats, refinement of MessageEffects (with it honest answers), batches end |
| `parts` | MCParts, Parts | one deep property or two for each of the seven small modules |
| `retry_stats_class` | MCRetryStats, RetryStats | violated: the delete of a class that is shown removes none of its rows |

Bounds and why they are enough:

- *RepeatQueue*: two rows are what it takes for one to wait for the other and for a class request to see one
  and hit the other. Two strategies, one that gives up after its first failed retry and one with a retry more
  and a growing delay, cover both branches of `ApplyNextAttempt`. In a single-instance run the consumer's own bag and a foreign one differ only
  in which goroutine works on a row, so there is one consumer.
- *ConsumeStream*: `MaxBatch` 3 lets an answer of the first batch meet a batch of the same and of the other
  writer; one repeated answer (`MaxExtra`) may come at any time, and so may the end of the RPC by a deadline. Two of the three batches are already one that
  blocks and one that waits for the mutex.
- *KafkaDelivery*: in `delivery` a batch of two spans both partitions, or moves with its partition to the
  other member; one fault (`MaxFaults`) may hit at any point and liveness needs no more.
- *ConnStore*: two streams with the same id or with two. Each stream reads, fails and marks any number of
  times; nothing is counted beyond that.
- *Outbox*: three rows, the first of a topic the bus refuses, so that it stands in front of the other two in
  every fetch; batches of two, so that a pass takes several steps and a refused row fills half of one. Two
  flushers wait for each other's locks, and one fault may hit either at any point. For any number of all
  of these see section 5. `outbox_oversize` needs one flusher and no fault.
- *SdkConsumer*: three deliveries of one message to two consumers: one that is handled, one that overlaps it, and
  one that comes after both. One fault of any kind; messages do not influence each other.
- *MCParts*: a queue of one line with batches of two overflows at once, and three lines are enough for one to be queued, one to be
  in the batch and one to be dropped. Up to three lines are lost in failed pushes, and two ticks of the clock, which are the
  interval of reports, let one push be reported, one be silent and one be reported again. Two calls on the producers' mutex, two partitions for a partial write, requests of no
  message, of one and of more messages than partitions. Two partitions and two changes for the offsets page: one
  change in each of two gaps between requests. Two pages, two streams, two changes of the counts for
  the dashboard. Three rows of two groups and three errors, of which two are of one class, and one change, for the statistics.
  Integers from -512 to 511 with a second of 40 units let every product of a duration and a small factor overflow or not.
  Floats have five bits, so that rounding sets in within five attempts; multipliers are, in sixteenths, below one, whole,
  one and a half, and one that is no simple fraction. In `retry_stats_class` two rows and a chain of three classes are enough.
  Two rows and two runs of the repeat job for the process.

`CHECK_DEADLOCK FALSE` is set where the system may stop: a stream whose RPC has ended and whose client does
nothing, a log that is read to its end, streams that are all over. In the retry queue connections may
always change, so deadlock is checked.

The type invariants of `RepeatQueue` and `KafkaDelivery` are in no run: they are proved (`TypeCorrect`).

### What the violated runs show

- `repeat_class_delete`. The comment at `internal/app/repository/repeater.go:311-312` says the write matches only failures
  visible when the class was resolved. Neither statement names rows and no transaction holds them together.
- `stream_reader_leak`. `GrpcApi.Consume` returns at line 70 if the connect result cannot be sent. The
  reader `CreateConsumer` opened is only closed by a goroutine that starts later. kafka-go's reader joins the
  group on its own, so its partitions are held until the process ends. The counterexample needs no unfair
  scheduling: the RPC is over and nothing is left that could close the reader.
- `store_strategy`. `ConsumerStore.remove` deletes by key; when a client reconnects before its old stream is
  noticed to be dead, the end of the old stream removes the new bag. Its failed messages are stored with the default
  strategy, and the repeat job does not find it any more.
- `outbox_oversize`. `publishGroup` (`api/golang/outbox/flusher.go:329`) sends all selected rows of a topic
  as one `ProduceBatch`. Each row respects the limit of a message, but the gRPC server of the bus
  (`internal/pkg/app/app.go:261-277`) keeps the default limit of 4 MiB for a request. Rows that add up to more
  are selected, refused and left again in every pass, and everything behind them in the topic waits too.
  The model takes sizes and limit as constants; the run has two rows that fit one by one.
- `retry_stats_class`. `internal/app/model/errorclass.go:11-13` says that placeholders without digits keep `ErrorClass` idempotent,
  so that a class can be passed back as a filter. It is not: digits after `_` become `<N>`, and the `>` opens a word
  boundary before what may then be a hex token. `order_5fe8a3b2c1` has the class `order_<N>fe8a3b2c1`, which has the class
  `order_<N><HEX>`. The page sends the class it shows (`web/admin/src/components/RepeatList.tsx:130`), and the delete finds none
  of the rows it counted. The run has such a class; `StatsAgree` holds the delete to the count for classes that are their own.

Not a finding, but worth knowing: `ApplyNextAttempt` (`internal/app/model/repeat.go:68`) compares before it
counts, so a row with `MaxAttempts` n is delivered by the job n + 1 times before it is failed. README.md:7-8
only speaks of a number of retries, and `internal/app/model/repeat_test.go:41-53` fixes this reading;
`FailedMeansExhausted` states what the code does.

Nor are these, which the models show or take over from the code:

- The producer spreads a request over partitions in turn and asks for the acknowledgement of one broker. With
  several partitions the order the outbox keeps is the order of publication, not the order in which consumers read.
- `databus/topic.go` fetches commits before log ends, so it never reports a commit above the end by mistake
  (`OffNoFalseAlarm`); for the start of the log the same order works the other way round: retention between the two
  requests makes a commit look as if it preceded the first retained offset.
- A client that gives its RPC a deadline leaves the Kafka loop behind: `DeadlineExceeded` is not `Canceled`, so that
  `consumeLoop` sleeps and reconnects for ever with a context that is over, keeping its consumer open. `LoopEnds` excepts it by
  name. The SDKs here set no deadline of their own, and `KafkaDelivery` assumes none.
- A failed push to Loki loses its lines, and is reported once a minute at most (`internal/pkg/logger/loki.go:193-201`), without
  a count of those in between.
- The progressive delay uses a `float32` factor whose fraction is cut off: with the multiplier 1.5 the second attempt waits two
  intervals, not two and a half. For high attempts factor or product overflow and the message is due at once.
  `TimesHold` bounds the delay below that.
- The dashboard may be out of date until the counts change again, in the three ways `FeedAgrees` names.
- `BatchTimeout` computes in nanoseconds: a declared time limit near the largest `int32` of seconds times five
  messages overflows, and the stream then has no watchdog. `RetryTimes` and `AppRun` (`appGuarded`) have this case;
  `TimesHold` and `AppEnds` except it by name.
- A panic of an RPC handler is recovered into an empty answer without an error, which the SDK reads as
  a rejection (`Producers`).
- An outbox row whose options are not valid JSON makes every fetch fail; `FetchFails` is an error that passes.

## 4. Fairness

- `RepeatQueue`: time passes; `background.go` starts the job again and again (`WF` on `RunStart`); a goroutine
  of the job goes on, and gets an answer or an error: `WF(Answer)` rests on the watchdog, which
  `stream_exchange` (`WaitEnds`) justifies for streams with a budget. Nothing is assumed of administrators or of connections,
  except that the property is about executions in which consumers stay connected in the end.
- `ConsumeStream`: goroutines that can run do run and timers go off. Nothing is assumed of the client. Kafka calls
  return once the context is cancelled; they may come back with another error first, but not for ever
  (`SF` on `LoopCancelled`). A loop whose context is cancelled does not retry for ever to take the mutex.
- `KafkaDelivery`: the loop runs on, the client answers or is cut off by the watchdog, the SDK opens a new stream for
  one that ended (`api/golang/consumer/consumer.go:96-110`), and Kafka assigns partitions. Faults are finite (`MaxFaults`).
- `Outbox`: a flusher that can take a step of a pass does (`WF` on `Pass`): the sweep brings triggers for ever and
  every call has a time limit or a database behind it that answers. A cancelled flusher stops (`SF`, since `select` may
  prefer a trigger a few times, but not for ever), and a service starts it again. Nothing is assumed of the services'
  transactions. Faults are finite.
- `SdkConsumer`: the loop goes on and time limits pass. Nothing is assumed of handlers, which may hang.
- `Producers` and `AppRun`: as long as some goroutine can go on, one does; Kafka answers a
  request in the end, timers fire. Nothing is assumed of clients, signals and failures.
- `ConnStore`, `GroupOffsets`, `AdminFeed`, `RetryStats`, `RetryTimes`, `LokiSink` have no liveness property.

## 5. Proofs

`RepeatQueueProofs`, for any rows, consumers, instances, strategies and delays that satisfy the assumptions
named in `RepeatQueue` (attempt limits and delays are natural numbers, the empty result is an error text,
there is a consumer):

- `TypeCorrect`, `DeferredRowsArePending`, `FailedRowsAreExhausted`: from the inductive invariant `IInv`. The
  three properties are not inductive: `UpdateAttempt` takes its columns from a copy of the row that may be
  arbitrarily old, so the invariant says of copies what it says of rows (`Sound`), and that a copy was pending
  and has the strategy of its row (`CopyOf`), which is what carries the bound on attempts from the copy to the
  row.
- `CopiesAreFresh` and `AttemptsStep`, under `SingleInstance` (at most one bus process): from `Fresh`, which
  adds that the row was due, so that time does not move it away from its copy.
- `QueueKeepsLedger`, under `SingleInstance`: the refinement of `RepeatLedger`. What the job writes is an outcome of its
  copy (`NextAttemptOutcome`, `FailureOutcome`): an attempt more, a deferral at no cost, or the end at the limit. By
  `Fresh` the copy is the row and the row is due, so that an outcome of the copy is a step of the entry
  (`OutcomeIsSeen`). Inserts, time and requests of administrators are steps of their own; starting a job, looking
  a consumer up, connections and crashes are stutters.

`KafkaDeliveryProofs`, for any members, partitions, log, batch size and number of faults:

- `TypeCorrect`, `CommitsFollowHandling`, `FirstDeliveriesInOrder`. What a member is about to commit comes from its reader,
  so the invariant says of every member that below each message of its batch, and below the position of its
  reader, a message is settled or in that batch (`ListClosed`, `ReaderClosed`), with the phases of the cycle
  (`PhaseOK`). Dropping a batch breaks `ReaderClosed`; that is why the loop has to reconnect, and why the
  invariant exempts a broken member. `MaxIsLargest` (the maximum of a bounded set of numbers exists) is shown by
  well-founded induction on the distance to the bound.
- `RepeatsAreCharged`. The count of deliveries leaves out the copies on their way, so `ChargeInv` counts claims: a
  message may still be delivered by every member that holds it in a batch not yet sent, by every reader that will return it,
  and by the owner of its partition that has to join again. Deliveries and claims together are at most the faults plus one for
  the first assignment. A fetch, a delivery and a join turn one claim into another; only a fault makes a new one. What
  one member does changes at most its own claims (`MemberCharged`).
- `GroupDeliversAtLeastOnce`: the refinement of `AtLeastOnce`, from the two invariants. A delivery is a `Send`, which is paid
  for because `RepeatsNeedFaults` holds after it; an answer settles; a commit or a commit that is lost takes an offset
  below which all is settled (`CommittedIsSafe`); everything else is a stutter or a fault (`UnseenOrFault`).

`OutboxProofs`, for any flushers, rows, topics, sizes, batch size and number of faults:

- `NothingIsLost`, `RepeatsFollowFailures`, `TopicsKeepTheirOrder`, `PassesAreComplete`. A flusher deletes only rows
  it holds, and a row is held by one flusher (`HoldInv`, `Exclusive`), so what is selected stays live and is
  not published by two. `ScanInv` says that what a flusher has selected, or has still to look at, is closed under "visible before"
  within a topic; the fetch keeps it because it takes the lowest id next (`MinIsSmallest`, by well-founded
  induction), a publish because a group is all of its topic (`GroupIsWhole`). `CountInv` charges every writing
  of a row to a failure, except one for the row that is published but not yet deleted (`Spent`).
  The invariant is preserved by one lemma per idea: a step moves one flusher (`OneMoves`), others keep what they have
  (`UntouchedKeeps`), the table only moves on (`FlusherDeletes`, `OutsideMoves`).
- `OutboxRelays`: the refinement of `TopicRelay`. The group a flusher publishes is a request: its rows wait because no
  other flusher holds them (`Exclusive`), and what comes before them is in it or forgotten by `ScanInv`. A delete forgets
  what was written, for the same reason; a commit that fails or a crash loses it; a committed transaction lets rows
  appear together. Fetching, locking and starting or ending a pass without rows are stutters.

`SdkConsumerProofs`, for any consumers, deliveries, messages and number of faults (deliveries are finite):

- `TypeCorrect`, `OneEffect`, `OkMeansDone`, `OnlyOnceRepeats`. With the transactional inbox, whoever is between claim and
  commit is the only one, and a committed mark is an effect. The bound on repeats counts the handlers that are
  inside: an effect is free for the first to come in, and every other one was an overlap.
- `ConsumersKeepThePromise`: the refinement of `MessageEffects`, from these invariants and `ValidInv` (a handler is only in for
  a message that can be decoded, and its steps are those of the mode). An effect in the mode `OnlyOnce` is allowed by the bound
  with its own handler still counted; an answer tells what `DoneInv` says; time limits, crashes and lost marks are
  excuses or stutters.

`PartsProofs`, for every value of the constants of the part:

- `OneWriterPerTopic` (which no run checks: the mutex makes it hold by a short argument) and `RequestsAreWhole`, of `Producers`.
- `PagesAgree`, of `AdminFeed`. `FeedAgrees` speaks of the moment when nothing is on its way; `FeedInv` follows a page there. Counts
  and version of an event, a poll or an answer are what the bus had at one time (`Genuine`), and what the poller read
  last is as new as any event. A page that does not load shows the last published counts, or the event with them is still
  to be sent, and no event that comes later can spoil it unless it is known to be old (`Overtaken`); an answer is right, or
  something newer comes (`AnswerFits`). Each way to lose that is one of the exceptions in `feedOdd`.
- `NoFalseAlarms`, of `GroupOffsets`, which is about alarms only: a committed offset is at most the end of its log, which only grows unless the
  topic is created anew (`OffLogs`), and the page reads it first (`OffAnswers`).
- `TimesAreExact`, of `RetryTimes`: all of `TimesHold`, for integers of any width. Look-backs and waits follow from facts about
  division and about wrapping a product of two numbers. A repeat is due after its interval times the factor that
  the loop computes. Rounding keeps a float on its side of every whole number that is a float itself (`NearestKeeps`), so that each turn of
  the loop stays between the sums for the multiplier rounded down and up (`GrowKeeps`, `FactorsKeep`), and cutting off the
  fraction does too. That is an induction over the attempts; the library's
  induction theorems take an operator and cannot be instantiated here, so `Induction` and `Recursion` state for
  sets and functions what they need: a set with 0 that is closed under the successor has every natural number, and a step function
  has a sequence (both from well-foundedness, `WFMin`).
- `PeopleSeeWhatIs`, of `RetryStats`: all of `StatsAgree`, for any finite table. `SortLists` shows that a list by rank has every
  element once; `MergedAreRight` follows the loop that merges errors into classes by induction over the list of errors: after k
  errors the classes are right for the rows of these (`StatClassesOK`). `TotalIsAll` adds the counts up. The rest is
  `StatInv`: what the page shows fits the table as long as no row moves, and the delete takes what the page counted if the class
  is its own class.

`ConsumeStreamProofs`, for streams of any length and clients that repeat themselves any number of times:

- `AnswersAreMatched`, `ClientsAreTold`, `WaitsAreGuarded`. A client that knows batch ids names the batch (`AnswerInv`).
  For one that does not, question and answer have to be in step: what is asked or under way is about the batch
  that is out (`StepInv`), and once a batch was lost nothing can be accepted (`DeadInv`). The last one is the reason
  why a writer that gives up must take the stream with it. `TellInv` follows the reason of a cancellation to the
  status: a context that is cancelled without the client having left has a reason in `abortErrCh` or `errCh`,
  because the loop writes its error before its deferred `cancel` runs.
- `StreamExchanges`: the refinement of `BatchExchange`, from the same invariant. `Send` asks, an accepted result answers,
  a wait that fails loses the batch; what handler, loop, repeat job, watchdog and client do is a stutter.

`ConnStoreProofs`, for any streams and any finite set of ids (`IdsAssumption`, needed to count):

- `BagsAreGone`, `SeriesAreGone`, `GaugeIsExact`, `ConnectedReads`, `ServedAreVisible`, `StrategiesStayApart`. Store and
  metrics are written by key, so the invariant says whose an entry may be: it belongs to a stream of that key
  that has not removed it yet (`BagInv`, `NoGhostSeries`). A timer that can still mark belongs to a run that
  reads (`LoopInv`), which keeps the late timers of `consumeOnce` out of the metrics. What a stream finds of its
  own is `AloneInv`, for ids no other stream has; a strategy it looked up can only be a rival's (`FoundInv`). `Recount`
  is the one place where sets are counted: moving a key from one state to another moves the gauge by one.

`LokiSinkProofs`, for any finite set of lines, any sizes and any number of failed pushes:

- `LokiAccounts`. Lines and dropped lines are two accounts (`LokiLineInv`, `LokiDropInv`). A push that fails in silence is within the
  interval after the last report, and reports are an interval apart, since `lastErrorAt` is the time of the last one. That a flush delivers what was
  queued before it follows the lines main asked for through the queue, the batch and the push that ends the
  drain (`LokiAskInv`); it needs that the worker drains only after it has seen the request, and until it has
  acknowledged it (`LokiTurnInv`).

Two earlier runs, with two instances on one row of the retry queue and with three faults on one partition, are not
kept: their properties are invariants that `FailedRowsAreExhausted`, `DeferredRowsArePending`, `CommitsFollowHandling` and
`FirstDeliveriesInOrder` prove for any number of instances and faults, and that other runs still check.

Every invariant, action property and refinement that a run checks is stated by a theorem. Only model-checked are the
liveness properties, since fairness and ENABLED are beyond the prover: `PendingIsDelivered`, `WaitEnds`, `LoopEnds`,
`EveryMessageHandled`, `RowsAreDelivered`, `BatchesEnd`, `ProdEnds`, `AppEnds`. And the order of the lists is only in the
model: no property is about it but that each list has its elements once.

The proofs assume what the modules name (`...Assumption`): tables and sets of ids are finite where something is counted,
bounds are natural numbers, the first whole numbers are floats. They are about the modules as they stand, whose abstractions
section 2 and section 6 describe.

## 6. Not modelled

- The Scala SDK: the same protocols as the Go SDK, on futures. `Outbox` and `SdkConsumer` are translated from the Go code and
  say nothing about it.
- The outbox's error throttle, which only decides what is logged.
- The text of errors and its normalisation, message contents, credentials, TLS, HTTP routing, authentication,
  migrations, configuration, the database pool, and the parts of the web interface that only display.
- Counters in `internal/pkg/metrics` that are only incremented.
- Generated code (`*.pb.go`).
- In the consume stream: results inside an answer (they are in `KafkaDelivery`) and the size of a batch, on
  which only the length of its budget depends. So the hazard that the repeat job takes the first result of an
  answer without looking at its message id is not covered.
- In `KafkaDelivery` the Kafka reader's prefetching is one position per partition, and the log does not grow or expire.
- In `Outbox` the trigger channel, and transactions that roll back (they are open for ever).

`PROJECT.json` lists each component with its status, and the hazards that no property covers.

## 7. Plan

Done, in this order: `RepeatQueue`, `ConsumeStream` with `BatchExchange`, `KafkaDelivery`, `ConnStore`; `Outbox`,
`SdkConsumer`, the seven small modules; proofs of the retry queue, the delivery cycle, the outbox, the SDK consumer, the
producers, the store, the consume stream with its refinement, and the log sink; `AtLeastOnce` and `RepeatLedger` with the
refinements that implement them; proofs of repeats per fault, of the dashboard and the offsets page; `TopicRelay` and
`MessageEffects` with their refinements, the retry delays and the statistics for all values.

Open, models: the Scala flusher and consumer against the properties of `Outbox` and `SdkConsumer`; results with
message ids in `ConsumeStream`; `ConnStore` composed with `RepeatQueue`, where the bag the job finds is the one a live
stream stored.
