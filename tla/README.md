# jotify: a TLA+ verification of the notification service

jotify stores notifications for its business clients, charges them against a
quota, and delivers them through channels and providers, at once or later from a
scheduler that runs on every node. This directory holds TLA+ models of its core,
the TLC runs that check them on small instances, and TLAPS proofs that hold for
all sizes. `PROJECT.json` lists the components, runs, mutants, the source lines
each definition models, the findings, the hazards and the theorems.

## The system

| Component | State | Operations | Talks to |
|---|---|---|---|
| sharding loop job (`pkg/job`) | permits of a semaphore, one goroutine per locked table | Run, tableLoop, bizLoop, Acquire, Release, UpdateMaxCnt | redis lock, etcd watch, the scheduler's `loop` |
| notification scheduler (`service/schedule/sharding`) | shared batch size, error ring, adjuster | loop, batchSend | repository, sender, bit ring, adjuster |
| bit ring (`pkg/bitring`) | bits, write position, count | Add, ThresholdTriggering | - |
| batch adjusters (`pkg/batch`), ring buffer (`pkg/ringbuffer`) | current size, last response times and their sum | Adjust, Add, Avg | - |
| send service and strategies (`service/notification`, `service/sendstrategy`) | - | Send, AsyncSend, BatchSend, BatchAsyncSend | repository, sender |
| repository and quota cache (`repository`) | quota counters in redis | Create, BatchCreate, MarkSuccess, MarkFailure, Incr, Decr, BatchIncr, BatchDecr | redis, DAO |
| notification DAO (`repository/dao`) | rows and callback logs in two databases of four tables | create, tryBatchInsert, the updates | MySQL, id generator, sharding |
| sender, channels, providers (`service/sender`, `channel`, `provider`) | position of the selector | Send, BatchSend | repository, callback service |
| callback service (`service/notification/callback`) | callback logs, a map of configurations that is never emptied | Send, SendByNotification(s) | callback log repository, configuration, gRPC clients |
| business configuration (`repository/biz_conf.go`, caches) | local and redis cache with expiry | GetById | MySQL |
| ids and sharding (`pkg/snowflake`, `pkg/sharding`) | sequence counter | NextId, Shard, ShardWithId, BroadCast | - |
| registry, application, resolver (`pkg/registry`, `ioc/app.go`, `pkg/client`) | lease of the session, watch goroutines, address lists | Start, Close, Register, Unregister, Subscribe, resolve, ResolveNow | etcd, gRPC |
| gRPC clients (`pkg/grpc/clients.go`) | a client per service | Get | gRPC |
| balancers (`pkg/client/balancer`) | weights of nodes, the rw node cache, the hash ring | Build, Pick, Done, addNode, removeNode | gRPC |
| idempotency (`pkg/idempotent`) | keys in redis | Exists, MultiExists | redis |

The hard behaviour is concurrency between nodes (locks with a time to live),
between the table goroutines of one node (one ring, one adjuster and one batch
size for all), between requests (quota counters that go below zero and are
reset by refunds), between the two goroutines of a resolver (an unbuffered
channel), between the calls of a client (weights changed by Pick and Done) and the clients of
different services (one cache of nodes), caches that outlive what they hold, and the failure of one step among several (a lost
answer, a context that is done, one database out of two). What makes the components
correct: permits are neither leaked nor released twice; leases on a table
exclude each other; tables are taken over after a crash; the error threshold is
exact; sizes stay in bounds; quota is conserved and agrees with what is stored;
a call of the callback service records the outcome of a log or says that it could
not, asks no business twice for it, and ends with its context; a configuration is stale for a bounded time; an id leads to the table its
notification was stored in; a change of a service reaches its callers; no weight
is gained or lost; no client is given a connection to another service; a key goes
to the node the ring promises and stays there when other nodes come and go.

## Modules

* `ShardingLoopJob` models `pkg/job` on a set of nodes. Run is `runPc`/`runPos`,
  a tableLoop goroutine is a slot `<<node, k>>` with its own `loopPc`. One action
  per step between two calls whose answers matter: `RunAcquire`, `RunExceedLimit`,
  `RunTryLock`, `RunLockFails`, `RunRelease`, `BizReturn`, `Refresh`,
  `RefreshFails`, `Unlock`, `Exit`, and the environment (`UpdateMaxCnt` from etcd,
  `Cancel`, `Crash`, `Restart`, `Tick`). The redis lock of the dlock library is
  external: a key with an owner token and a time to live; Refresh and Unlock
  compare the token; any call may fail, with or without effect. `lease` is the
  time for which the last successful call still protects a loop; time advances
  for keys and leases alike.
* `BitRing`, `BatchAdjuster`: the two data structures of the scheduler as
  operators on records, with the corrections their constructors make. Sizes are
  words of `Word` values and wrap.
* `EventWindow`: what the ring promises, a sequence of the last events.
* `ShardingScheduler`: the table loops of one node on top of these. A loop is
  `batchSend`, `RecordEvent`, `CheckThreshold`, `Adjust` (or the unlocked
  `AdjustFixed`, `WriteFixed`, `ReturnFixed`), `StoreBatchSize`; a pass starts
  with `NewPass` and its context ends with `BizTimeout`. `FindReady` is taken as
  the repository interface declares it (its DAO method is a stub that panics).
* `NotificationSend`: the send path from the service to the provider. A request
  goes through `Decr*`, `Create*` or `Insert*` (one step per database), `Refund*`,
  `Send`/`BatchSend`, `MarkFailure`, `GiveBack*` or `Fetch`, or ends in one of the two
  panics of a delivery (`GetTemplatePanics`, `ProviderPanics`). `call` fixes its kind.
  Notifications are numbered within the request and carry only their channel.
  `charged`, `unearned` and `lossy` are history variables: what the quota
  counters were really charged for, what was given back without a charge, and
  whether an answer or a refund was lost.
* `IdSharding`: `NextId` and the parts of an id, `Shard`, `ShardWithId` and
  `BroadCast` as operators, with the widths and counts of the code; the number of
  values of the time field is a parameter. `MCNotificationSend` takes the database
  of each notification from `Shard`.
* `BizConfRepo`: `GetById` as one step per access, `LocalGet`, `RedisGet`, `DaoGet`,
  `LocalSet`, `RedisSet`, by threads of several processes. A configuration is its
  version and changes once (`ChangeConf`); caches age with `Tick`. That a `GetById`
  takes at most `MaxGet` ticks is a bound of the model, for the deadline of the
  caller's context.
* `CallbackService` extends it. A thread runs `Send` (`Find`, a batch after its
  cursor) or `SendByNotification(s)` (`FindByNotificationIds`), and for each log
  `GetConf`/`GotConf`, `ClientsLoad`, `Dial`, `ClientsStore` (Clients.Get), then
  `Answer` or `CallFails`, and after the batch `Update`; `FindError`, `Unreadable`
  and `Panic` are the ways out. A scenario fixes what the threads run, how logs are
  numbered, which versions have a callback section, the retry policy and how the
  clients are configured. Logs never change in the code (see below), so the model
  keeps no status of a log. `answers` is a history variable.
* `ServiceDiscovery`: a server is `App.Start`/`App.Close` over the registry (`Start`,
  `Register`, `Unregister`, `CloseSession`, `Stop`), with a key in etcd under its
  lease (`Expire`, `LoseLease`). A connection is a resolver: `Build`, `ResolveNow`,
  `Shut` and `CloseResolver` come from gRPC; `Subscribe`, `Handover`, `LoopReturns`
  are its watch loop; `Receive`, `ReceiveEmpty`, `WatcherReturns` the goroutine of
  Subscribe; `List`, `ListFails`, `UpdateState` a `resolve()` of either caller. etcd
  and gRPC are external. `fresh` and `missed` are history variables.
* `WeightBalancers`: the three weighted pickers, of the clients of several services.
  A Build is `BuildStart`, a round per connection (`SkipConn`, `ReuseNode`, `MakeNode`)
  and `BuildEnd`; the rw builder is shared by all clients (ioc/grpc.go:109-122) and
  holds its lock meanwhile. A node is identified by the connection and the Build it
  was made for, and so keeps its connection as the code does. The attributes of
  connections are a parameter: any weight, 0 included, any group, the service as
  the name, and possibly of the wrong type, which the rw builder passes over. A call is
  `Pick`, a `Visit` per candidate (`DynamicRead` and `DynamicWrite` where the code
  holds only the read lock), `Select`, and `Done` with its outcome. `Add` and `Sub`
  wrap like unsigned words. `raced` and `reset` are history variables: they say
  when the dynamic balancer lost an update and when a success of the rw balancer
  overwrote a current weight.
* `HashRing`: `AddNode`, `RemoveNode`, `Search`, `GetNodeAddr` and `PickAddr` of the
  consistent hash balancer. The order of equal hashes after a sort is left open.
  `Near` is the abstract promise, without a ring. `ClientBalancers` is the clients with
  one of the four balancers.
* `MC*`: constants for TLC. `*Proofs`: theorems.

`ShardingScheduler` extends `BitRing` and `BatchAdjuster` and instantiates
`EventWindow` with a refinement mapping; it is the `bizFunc` that
`ShardingLoopJob` calls, and each of the two abstracts the other to what it can
see of it (a function that returns; passes that start and a context that ends).
`CallbackService` composes the callback service with the configuration caches and
the clients, since its hazards lie between them; the sender that calls it
(`NotificationSend`) ignores what it returns.

The operators introduced by "A bug:" are deliberate mistakes. Nothing uses them:
each replaces the definition after it to show that a property would notice.

## Runs

| Run | What it shows | Bounds |
|---|---|---|
| `job` | `TypeOK`, `PermitsAccounted`, `LeaseExclusive` | 2 nodes, 1 table, limits 0..2, TTL 2; nodes symmetric |
| `job_live` | `Drains`, `TableServed` | 2 nodes, 1 table, limits 0..1, TTL 2 |
| `scheduler` | `RingIsWindow` (refinement), `ThresholdExact`, `CancelReturns` | 2 loops, ring of 3, 2 consecutive, 67 % |
| `adjuster` | `TypeOK`, `BatchSizeInBounds`, `SumExact` | 2 loops, both adjusters, sizes 2..5, step 2, buffer of 2 |
| `send` | `TypeOK`, `QuotaConserved`, `AnswerReliable`, `ChargedIffCreated`, `LogHasNotification` | 2 requests out of 7 kinds, 2 channels, 2 databases, quota 2 and 1 |
| `callback` | `TypeOK`, `StaleBounded`, `AnsweredOnce`, `NoSilentLoss`, `CallEnds` | 3 logs in batches of 2, 2 processes with 3 threads, life of an entry 2 ticks, a GetById at most 1 |
| `discovery` | `TypeOK`, `EventNotLost`, `DeadLeaves`, `WatcherEnds` | 1 server started twice, 1 connection |
| `balancer` | `TypeOK`, `WeightConserved`, `OwnService`, `RingExact`, `RingMoves` | 2 services with 5 connections, 2 builds, 4 calls, 2 at a time, words of 16 values; 3 addresses with 2 virtual nodes, 5 hashes; calls symmetric |
| `batch_underflow` | violation of `BatchSizeInBounds` | step 3, minimum 1 |
| `immediate_send` | violation of `CreateErrorReturned` | immediate requests only, nothing lost |
| `refund_timeout` | violation of `FailedCreateRefunded` | default requests only, nothing lost but the context |

Two nodes with two slots give every conflict over one key, inside a node and
between nodes; a TTL of two ticks separates a key about to expire from a fresh
one. More tables only add independent keys (the proofs cover any number); for
liveness they matter, see below. A ring of three with a threshold of two has
every fill level, the wrap and a window longer than the threshold; a buffer of
two overwrites; sizes 2..5 with a step of two are clamped at both ends. In `send`
two requests suffice for a refused decrement between another request's charge
and refund, the batches cover one and two notifications per database, and the
quota is enough for each request alone and not for every pair. In `callback`
three logs in batches of two give a full batch, a short one and the start over;
scenarios pit a scan against a lookup in one process, go through every policy and
dial configuration with one scan, and run the clock against two processes that
only read (a clock beside the scans would add nothing, they do not look at it).
`discovery` reaches every order of two goroutines, `ResolveNow`, two lives of a
server and all losses; the number of changes etcd has still to report needs no
bound, because each start of a server makes only a few; servers and connections
are independent of each other but for the list, and the proofs cover any number.
In `balancer` two builds suffice for a node that is kept under another connection's
attributes, replaced, or dropped by the Build of the other service and still called;
the connections differ in weight, group and service, and one has no usable
attributes; a word of 16 values wraps below zero within one Pick; the hashes are all
placements of six virtual nodes up to rotation, collisions included.

The violations are disagreements between the code and its own comments; the
findings in `PROJECT.json` quote them.

* The adjusters subtract unsigned numbers before clamping.
* The immediate strategy inverts its test of the creation's error: with what could
  not be charged or stored the sender is called, what was stored is answered with an
  error and goes no further. It also makes the sender give quota back that was never
  taken, which is what `unearned` counts in `QuotaConserved`.
* A creation that fails because the request's context is done is not refunded,
  since the refund uses this context.

Met on the way and visible in the models, without a run of their own.

Scheduler: `loop` does not look at its context. A pass whose minute is over continues
as long as batches of other tables keep the shared error ring below its threshold
(its own all fail). When the whole node is cancelled all batches fail and passes do
return (`CancelReturns`).

Send path: `sms.NewProvider` does not keep the repository of providers it is given, so
the first delivery that finds its template and version calls a nil interface
(sms_provider.go:78) and panics: no notification of a registered channel is ever
delivered, from a request or from the scheduler, and `MarkSuccess` is never reached.
`CreateErrorReturned` is therefore about calling the sender. Further, a batch of
which one database failed stays stored in the other and is refunded as a whole,
and `BatchCreate` answers without an error; duplicate ids are never recognised
(`gorm.Config{}` does not set TranslateError, so `ErrDuplicatedKey` is never
returned), which is why the model has no retry of an insert; the status of a
stored notification never changes; when every provider fails the SMS channel
calls a nil provider, too; the status update of a batch is an empty branch
(sender.go:146), so its failures give no quota back.

Callbacks: `sendAndSetChangeFields` changes a copy of the log, so what it sets (a
success, the next retry, the failure of callback.go:121) is never written; the
update itself names no row, as `CallbackLog` has no primary key, and is refused,
which ends a scan after the first batch that got an answer; while no business
answers, a short batch starts the scan over and it goes round until its context is
done; the cursor is the id of a notification compared with the id of a log, so
with snowflake ids a scan passes over everything after its first full batch and
returns nil; `SendByNotifications`
empties its own map when a notification has no log and sends nothing; logs are
read from `callback_logs` and written to `callback_log_<i>`; `Clients` as wired
cannot dial (no transport credentials, a service configuration that is not JSON)
and panics, and so does an answer of failure under a configuration without a retry
policy. `StaleBounded` is about `GetById`; the map in the service keeps a
configuration as long as the process lives.

Discovery: a server that lost its lease is never registered again; the goroutine
of `Serve` tests the error of `Listen` (app.go:41), so a server that serves no more
stays registered; a watch that etcd ends turns into a loop of lists; what changes
between the list of `Build` and the subscription is seen with the next change. A
cancelled watcher that holds an event for a loop that is gone stays blocked for
ever: `WatcherEnds` names this exception.

Balancers: the resolver never sets `AttrWeight` (grpc_resolver.go:76-79), so as wired
every node of `WeightBalancer` and `DynamicWeightBalancer` has the weight 0, and the
read and write weights it sets are int where the rw builder asserts uint32, so the rw
picker is empty: the weights of the run are those the code would see from a resolver
that set them. Nodes of `WeightBalancer` start with efficient weight 0, so until calls
succeed only the heaviest of the first list is picked; a current weight below zero
wraps and makes its node the heaviest; a node kept in the rw cache keeps its old
connection, though the comment at rw_weight_balancer.go:49 says it is updated;
every instance has the service name as its node name, so the instances of a service
share one entry of the cache, and a picker can hold one node several times; a Build
for one service deletes the nodes of all others from the cache, whose current and
efficient weights start anew with their next Build; an address that joins the hash
ring may move a key between two others whose hashes collide, as the whole ring is
sorted again by a sort that is not stable (`RingMoves` excludes it); `Pick` of the
consistent hash balancer takes its read lock twice (lines 140 and 169) and would deadlock with a
`removeNode` that waits in between, if that had a caller; `RandomBalancer` never sets
its length; the weighted random one may pick past its last node; the efficient
weight of an rw node grows with every success and wraps after 2^32 of them.

Strategies: the window of a scheduled strategy is computed from Start and Deadline,
which are zero for it, and not from ScheduleAt (notification_send.go:82).

## Fairness

`ShardingLoopJob!FairSpec`: a goroutine that can run is run, business functions
return and time passes (weak fairness), and redis does not refuse every attempt
at a free key for ever (strong fairness of a successful TryLock per table; Run
comes back to each table in every round). `TableServed` further assumes that a
TryLock that set the key and lost its answer does not happen for ever, and that
some node stays up with a positive limit. It is claimed for one table: with
several tables and fewer permits a node skips the table it stands at whenever it
is at its limit, and a table may never get its turn.
`ShardingScheduler!FairSpec`: goroutines run, and the minute of a pass passes.
Nothing is assumed about results, cancellation, faults or crashes.
`CallbackService!Spec`: a thread that can go on does (weak fairness of `Step`);
neither calls that end nor businesses that answer are assumed, so `CallEnds` rests
on the context alone.
`ServiceDiscovery!Spec`: goroutines go on, etcd removes what has expired, gRPC asks
again while an address does not answer (all weak); strong fairness where the code
has a choice that comes up again and again: a list is not refused for ever, and a
select does not for ever prefer the watch to a context that is done. Starting,
crashing, closing and losing a lease are free.

## Proofs

`ShardingLoopJobProofs` (any nodes, tables, limits, TTL; from `TTLAssumption`,
`CntAssumption`, `TablesAssumption`, `OwnerAssumption`): `Inductive` proves
`Spec => []IndInv`, from which `TypeCorrect`, `PermitsCorrect`, `LeaseCorrect` and
`SlotsSuffice` follow. `LeaseExclusive` is not inductive: that two leases cannot
coexist follows from each lease being backed by the key in redis for at least as
long (`LeaseBacked`), which needs that a live token belongs to a running loop of
the same table (`OwnerLive`) and that a key exists exactly as long as it has time
to live (`KeyExpires`). The type of the counter and the accounting need each
other: a permit can be released only because it is counted, which is a fact
about the cardinality of the busy loops, and a crash resets the counter of a
node without goroutines (`DownIsEmpty`). `SlotsSuffice` justifies the bounded
number of slots.

`ShardingSchedulerProofs` (any number of loops, configuration of the ring, either
adjuster, any sizes and word; from the assumptions of `ShardingScheduler`,
`BitRing` and `BatchAdjuster`). `BatchSizeCorrect`, with `AdjustStep <= MinSize`,
follows a size from the adjuster through the loop's local variable to the shared
one. `ThresholdCorrect` and `RingImplementsWindow` rest on `RingOK`: the event
counter is the number of bits set among the positions of the ring; one added event
moves one position into the window and one out of it, which gives the refinement
of `EventWindow` step by step. `SchedulerTypeOK` needs no relation between step and
smallest size: the wrap of `Shrink` stays in the word. `SumCorrect` is about a sum
that is a recursive function; that a sum follows the change of one of its terms is
shown by the least index at which it would not.

`NotificationSendProofs` (any finite set of requests, any channels, databases,
quotas and batches; from `CallAssumption`): `SendTypeOK`, `SendQuotaConserved`,
`SendAnswerReliable`, `SendChargedIffCreated` and `SendLogHasNotification`, all from
`SendInvariant`. Its invariant has one part per request, which says at each step
what is stored and charged by then (`Creating`, `Inserting`, `Settled`,
`Answered`), and one for all of them, the conservation of the counters. A request
in the middle of a batch is the hard case: as long as nothing failed, the
databases it has dealt with hold all their notifications with their logs, and after
a failure one of them misses one. Conservation is a fact about the number of pairs
of request and notification that are charged; that a request is charged for all or
for none of its notifications (`Belongs`) lets a step move a whole request's share.

`CallbackServiceProofs` (any threads, processes, logs, batch size, scenarios,
`TTL` and `MaxGet`; from `BizConfAssumption` and `ScenarioAssumption`):
`CallbackTypeOK`, `StaleConfBounded`, `AnsweredAtMostOnce` and `NoLossInSilence`, from
`CallbackInvariant`. A copy of the old configuration
bounds how long ago the change can be: an entry of redis ends its life at most a
life and a `GetById` after it (`RedisLimit`), one of a local cache at most two of
each (`LocalLimit`), and each point of a `GetById` has its own bound (`GetLimit`). The calls
have an invariant per thread: what is left of a batch has no answer yet
(`Unanswered`, which also says that a batch with nothing to update has had none), a
thread that is about to call has a client (`Connected`), and nil was returned only
without an answer to record (`Told`). Only `Connected` speaks of shared state, which other threads only add
to as long as the process lives.

`ServiceDiscoveryProofs` (any servers, connections and restarts; from
`DiscoveryAssumption`): `TypesHold` and `NoEventLost`, both from `InvHolds`.
`EventNotLost` speaks of a loop that waits; between two waits the invariant must
say where the change is: still to be reported, in the watcher's hands, or in a
list that has not been made (`Fresh`). For this it needs that the list of a loop
belongs to a building resolver or a resolving loop (`Lifecycle`).

`HashRingProofs` (any addresses, virtual nodes, hash functions and number of
hashes; from `RingAssumption`): `RingCorrect` proves `RingSpec => []RingExact`. The
invariant is that the ring is sorted and holds exactly the virtual nodes of the
connections; that a search in such a ring finds a nearest node is the lemma
`SortedRingExact`, with the wrap as its second case. `KeysStay` proves
`RingSpec => RingMoves`, what consistent hashing is for: before and after the step
`PickAddr` gives a nearest address, and without collisions there is only one
(`NearUnique`), so a key that moves has lost its address or met the new one.

`ClientBalancersProofs` (any services, connections, attributes, calls, word and number
of Builds; from `WeightAssumption`, `AttrAssumption` and `RingAssumption`):
`BalancerTypeOK`, `ServicesApart`, `ClientRingCorrect` and `ClientKeysStay`, from
`ClientInvariant`.

- `ServicesApart` proves `OwnService`. The cache outlives pickers and belongs to all
  services, so the invariant `NamesOK` says of the cache, of the Build in progress and
  of every picker that each node is kept under the service its connection goes to.
- `NoWeightLost` proves `WeightConserved`. Its invariant `Ledger` says that the two
  sums differ by a multiple of the word; that a Pick between its read and its write
  is alone at its node and knows its weight, until two of them meet; and that
  nobody holds a node that the Build has not made yet (`Made`). Each step of a call changes one term of
  each sum (`OneLedger`), by amounts that are equal up to the wrap; the lemmas
  `SumsExist`, `SumAt` and `SumChange` give the sums of the community modules over
  any finite set that meaning.

`IdShardingProofs` (any width of the time field): `FieldsReadBack`,
`IdFindsTable` (the ten bits in an id lead where the whole hash led: this is right
for 2 databases of 4 tables and depends on their product dividing 1024),
`BroadCastComplete`, and `IdsDiffer` (equal ids of one generator are 4096 calls
apart, with the same time and hash bits).

Every invariant a passing run checks is proved, and so are `RingMoves` and the
refinement of `EventWindow`. Only model-checked: liveness (`Drains`, `TableServed`,
`CancelReturns`, `DeadLeaves`, `WatcherEnds`, `CallEnds`), which rests on fairness
and is out of the prover's reach, and the runs that expect a violation.

## Not modelled

Time beyond ticks and flags (sleeps and retry intervals are scheduling);
floating point (the event rate is a percentage); validation of requests; logging;
the contents of notifications, templates, provider requests and callback requests;
the ring buffer's Reset (no caller). redis applies a command at most once per call:
go-redis by default sends a command again when the connection failed, and a DECRBY
whose first answer was lost would then count twice, which the models leave out.

Two reads are made at once in the models: the groups of the candidates of an rw Pick,
which the code reads node by node while a Build may change one, and the two reads of
the current size in the unlocked fixed adjuster. The locks of the consistent
hash balancer are not modelled: its steps are whole.

Of the notification DAO `BatchUpdateStatus` has no caller, `CompareAndSwapStatus`
and `GetByKey` stand behind the inverted test of the immediate strategy, `MarkSuccess`
behind a delivery that panics, and `FindReady` is a stub.
The time window of a strategy is stored and read by nobody. The idempotency check has no caller. Round robin is one atomic counter, random and
weighted random keep no state, and the hash balancer is a stub. Templates and
providers are single reads and writes, the JWT interceptor is a stateless check,
the gRPC server implements no method, and `ioc` is construction, except `App`.

## Plan

1. Proofs about operators that the runs only exercise: which candidate a Pick of
   an undisturbed `WeightBalancer` selects.
2. When the code gains callers: deliveries that succeed and `MarkSuccess`, the
   idempotency check under lost answers, the compare-and-swap of a status, `FindReady` and the windows it would read.
