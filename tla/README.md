# Verification of milady's concurrent core

TLA+ models of the parts of milady that keep state while several actors work on
it, the TLC configurations that check them on small instances, and TLAPS proofs
for every value of the constants. Paths are relative to the repository (`src/`).

Run a model with `tlc -config X.cfg M`, check proofs with `tlapm M.tla`. The
name of every run, its module and its cfg are in `PROJECT.json`, which also maps
each definition to the lines it models and lists the hazards and the mutants.

## 1. Inventory

milady is a code generator (`cmd/milady` and three protoc plug-ins) together
with the library (`pkg/`) that the generated services link. The generators turn
text into text; most lines of the repository are theirs. What is hard to get
right is in the library, and in the one part of the generators that works on a
file somebody else edits too:

| component | state | operations | interacts with | what makes it hard | what makes it correct |
|---|---|---|---|---|---|
| `pkg/shield/window` | ring of buckets, offset, lastAppendTime | Add, Append, Reduce | breaker, limiter | the ring is advanced lazily by the next Add; pauses of any length | Reduce sees exactly the last `Size` bucket periods |
| `pkg/shield/circuitbreaker` | state word, a window | Allow, MarkSuccess, MarkFailed | gin and gRPC middleware | requests decide on a snapshot; rejections feed the window | opens exactly when calls fail; lets in again |
| `pkg/shield/ratelimit` | inFlight, prevDropTime, two windows, two caches | Allow, done | middleware, CPU sampler | a dozen atomics with no lock; handlers that panic | drops only above the limit; dropping ends |
| `pkg/container/group` | map, constructor | Get, Reset, Clear | breaker middleware | Get and Reset each take the lock twice | one object per key, none of an old constructor |
| `pkg/sse` hub | client map, broadcast, Send and task channels, statistics | Serve, Push, Close, the loop, workers | application, clients, Store | five kinds of goroutines over bounded channels that get closed | no panic, no loss or duplication unaccounted for, order, progress |
| `pkg/sse` resend | Store, Last-Event-ID | Save, ListByLastID, Serve, client | hub, client | an event is pushed while a client reconnects | a reconnection leaves no hole |
| `pkg/sse` client | retryCount, backoff, connected, stopCh | Connect, Disconnect, the loop | server | Disconnect against retry, a second Connect | stop ends the loops |
| `pkg/ws` client | conn, context | ping, TryReconnect, Close | server | Close or a second caller during a dial, no lock | reconnects; leaves no connection behind |
| `pkg/servicerd` Consul, `discovery` | service set, watchers, one notification channel each, addresses | Watch, resolve, broadcast, Next, Stop, Build, update | Consul, gRPC | registration against broadcast, failed queries, timeouts | no update lost, none older, every watcher catches up |
| `pkg/servicerd` etcd | lease, keep-alive channel, watch channel | Register, heartBeat, Deregister, Next | etcd | lease expiry, retries with timeouts, requests applied late | registered while it runs, gone once its context is cancelled |
| `pkg/servicerd` nacos | watchChan | callback, Next, Stop | Nacos client | the callback blocks | the user sees the last change |
| `pkg/rabbitmq` | connection, isConnected, channels | monitor, Consume, Close | broker | reconnection against Close, acknowledgement on a lost channel | reconnects; a message stays until it was handled |
| `pkg/kafka` | marked and committed offset, session | ConsumeClaim, AsyncProducer, handleResponse | broker | failed handlers, panics, rebalances | nothing unseen is skipped |
| `pkg/gocron` | two maps, cron entries | Run, DeleteTask, Stop | cron | run-once tasks that fire before their name is stored | names and entries agree |
| `pkg/mapp`, `pkg/prof` | servers, closers; session, closeFns | Run, watch, stop; StartOrStop, checkTimeout | all servers | a closer that fails; a timer against a signal | everything is stopped; settings are put back |
| `pkg/jwt` refresh tokens | tokens, expiries, client-side cache | Login, Refresh, Logout, Cleanup | Redis | validation, storing and revoking are separate calls that may fail | one live token per login; nobody is locked out |
| `pkg/goast` merge | a user's Go file | mergeCode | generators, user | what is "already there" is decided by names; merged again and again | nothing of the user's is lost; a second merge adds nothing new |

Everything else (options, logging, tracing, databases, cryptography, encoders,
error codes, clients of third-party services, the templates and parsers of the
generators) is stateless, wiring or I/O; `PROJECT.json` lists it with the reasons.

## 2. Modules

| module | models |
|---|---|
| `RollingWindow` | `pkg/shield/window`; `CircuitBreaker` extends it, `BBRLimiter` has two instances |
| `CircuitBreaker` | `sre.go`, the gin middleware and the gRPC interceptors that call it |
| `BBRLimiter` | `bbr.go` and the middleware that calls it |
| `ObjectGroup` | `pkg/container/group` |
| `SSEHub` | `hub.go`, `server.go`, `task.go`, `safemap.go` |
| `EventService` | what the hub promises, without its channels: `SSEHub` implements it |
| `SSEResend` | Push with a Store, `resendEvents`, `Last-Event-ID` |
| `SSEClient` | `client.go`'s connection loop |
| `WSClient` | `pkg/ws/client.go` |
| `ServiceDiscovery` | `registry/consul`, `discovery` |
| `EtcdRegistry`, `NacosWatcher` | `registry/etcd`, the watcher of `registry/nacos` |
| `RabbitMQ` | connection, monitor and consumer of `pkg/rabbitmq` |
| `Kafka` | consumer group and asynchronous producer of `pkg/kafka` |
| `GoCron` | `pkg/gocron` |
| `Profiler`, `AppLifecycle` | `pkg/prof`, `pkg/mapp`; the second extends the first |
| `RefreshTokens` | rotation of refresh tokens in `pkg/jwt` and its two stores |
| `CodeMerge` | `pkg/goast/merge.go` over what `ast.go` parses |
| `RollingWindowProofs`, `CircuitBreakerProofs`, `BBRLimiterProofs`, `SSEHubProofs` | theorems about the module of that name |
| `SharedStateProofs` | theorems about `ObjectGroup`, `RefreshTokens` and `CodeMerge` |
| `ServicesProofs` | theorems about `AppLifecycle` with `Profiler`, and `ServiceDiscovery` |
| `ClientsProofs` | theorems about `SSEResend` and `WSClient` |
| `BackgroundProofs` | theorems about `RabbitMQ`, `Kafka` and `GoCron` |
| `MC*` | the constants of the runs, and the sums described in section 3 |

In every module a goroutine is a program counter (`pc`, `at`, `cpc`, `hub.at`,
`req[r].at`), and a step is one operation on a lock, an atomic, a channel, a map or
an outside service: what the scheduler can interleave. Code under one lock is one
step. A definition with "A slip:" in its comment is a mutated form of the one that
follows it and is used only to show that a property would notice the slip.

**RollingWindow.** A bucket is its sum and `Count`; `Add` and `Append` do the same
to both. `Tick` lets any time pass, so a pause may skip the whole ring. `added`
is the history the ring is compared with. `Visited` is what the iterator hands to
a reducer. `Avg` of an empty window is NaN in the code; nobody calls it and it is
left out.

**CircuitBreaker.** `Summarise` reads the window, `Decide` is the rest of `Allow`
(`k = 1 / success` as the fraction `Den / Num`, the random draw as a choice where
the probability is between 0 and 1), `Reject` and `Return` mark. `GinMark` and
`GrpcMark` are the two middlewares: gRPC marks nothing for a call without error,
neither marks anything for a panic. `Failing` is the condition of the code,
which opens with exactly `request` calls and at exactly the rate `success`; its
documents say more than the one and below the other (section 5). `served` and `unmarked` record the real
outcomes; a summary also notes what it should have read (`good`, `calls`) and
whether a call in the window was not marked (`blind`).

**BBRLimiter.** Every load and store of `shouldDrop`, `maxPASS`, `minRT`, `Allow`
and `done` is a step of its own. The CPU load is an input, above the threshold or not. With
no response time in the window the code converts `math.MaxFloat64` to `int64`,
which Go leaves to the processor; `RawMinRT` allows what amd64 (1 in the end) and
arm64 (saturated) give, and `maxInFlight` what the overflowing product then is.

**ObjectGroup.** `GetFast` and `GetSlow` are the two critical sections of Get, `ResetNew`
and `ResetClear` those of Reset. An object is its number and the version of the
constructor that made it.

**SSEHub.** `Register`, `Unregister*`, `Take`, `HubSend`, `HubFull`, `SendTimeout` and
`HubStop` are the loop of `Hub.run`; `Open`, `Deliver`, `StreamClosed` and `Disconnect` are
`Serve`; `AppPush`, `PushNext`, `PushOne`, `SubmitAdd` and `Submit` are Push; `Worker*` the
task pool; `Close*` `Hub.Close`. A close of a closed channel or a send on one sets
`panicked`, which ends the process. `isSendClosedEvent` is written and read without a
lock, so a set flag may be read as unset. Timers are steps that may always fire.
`Register` is the rendezvous on the unbuffered channel and the loop's `clients.Set` in
one step: between the two Serve has nothing to do for the hub's promises but run
unregistered for a moment. `SSEResend`, where that moment matters, has both.

**EventService.** The abstract specification of the hub. A message is accepted once;
then it is received on a connection of its user, missed because the user is
offline, or given up, once and for good, and the statistics count each of these.
Messages accepted promptly (they found room in the broadcast channel) are received on a
connection in the order of their events. `SSEHub!Service` is the refinement
mapping: a user is online while the map has a connection of theirs, a message is
pending from the moment Push counts it until it is settled (`Unsettled`), and what is
received, missed and given up are the hub's histories.

**SSEResend.** The path of an event through the hub is abstracted to a FIFO and,
when `Slow`, to the task pool, which overtakes and gives up. `Connect` is the
rendezvous of Serve with the hub's loop, `SetClient` the loop's `clients.Set`:
Serve may list the Store between the two. An event that Push looks up after the
listing and before `SetClient` is neither listed nor pushed; it is noted in `missed`, and so
is what a listing that fails (`ListFails`) leaves out. An error of `Save` ends Push
before it has done anything and is left out, as are events of several types. Event
ids grow in the order of Push; the code makes them from a microsecond clock and a
random part, so ids of one microsecond may be out of order.

**SSEClient.** Loops started by Connect, `retryStrategy` and Disconnect. The code
recognises a refused connection by the text Windows uses; `Texts` says which texts
an error may have, and the run allows both at every dial. Only after a field of an
event is `stopCh` looked at (`StreamStopped`): blank lines and heartbeats are skipped before that.

**WSClient.** `Reconnectors` are the ping goroutine and an application that calls
TryReconnect itself, whenever it likes: TryReconnect looks at nothing before it
dials. A ping that fails, or waits too long behind another writer (`PingLate`), and the call
that follows are two steps, as are a dial and the assignment of `conn`; `DialFails`
doubles the delay up to its ceiling, and `Backoff` waits for it or takes the cancelled
context. `needless` counts the calls begun on a working connection, beside another call
or after Close, and those that Close overtook.

**ServiceDiscovery.** One service. `WatchLock` to `WatchReturn` is Watch, with
`r.lock` held from first to last; `FirstQuery`, `Query`, `Store` and `Notify` are
resolve and broadcast; `Next`, `NextLoad` and `Update` the resolver's loop. Consul is a
list with an index that changes at any time; queries may fail.

**EtcdRegistry.** etcd is external: leases, keys, keep-alive channels, changes.
Each heartbeat is a process with the attempts of one outage; a request in it, and
the Put of Register itself, may fail, time out, or time out and be applied later. The watcher is the notification
channel and the Get that follows it.

**NacosWatcher.** The client's memory, its callback on the channel of capacity 1,
Next and Stop. Next deletes the `id` entries from maps which that memory shares
(`ids`, `named`): a version read a second time comes with other ids.

**RabbitMQ.** Connections and channels are numbered; a channel dies with its
connection, and what was delivered on it goes back to the queue. The monitor's
sleep, dial and publication of the new connection are separate steps, as are
the consumer's initialise, delivery, handler and acknowledgement. The broker delivers
no more than `prefetch` unacknowledged messages (`ch.Qos`), 0 being no limit. A producer is an
input: it keeps nothing but a channel.

**Kafka.** One partition. `TakeMessage`, the handler's end (`HandleDone`, or `HandleError` for an error or a panic),
the mark and the commit are separate steps; rebalance and crash may come between any two.
`ConsumerGroup.Consume` asks sarama for one session and returns when it ends (`ClaimReturns`);
another one begins only when the application calls it again (`Consume`).
The producer is the two response channels, handleResponse and Close.

**GoCron.** Every access to a map or the scheduler is a step. A firing is a
goroutine of its own (`Jobs`); the next firing does not wait for it. A job may panic
at any firing; `cron.Recover` ends it then, and DeleteTask is not called.

**Profiler, AppLifecycle.** Of the profiles cpu stands for those that are switched,
mem for the one that saves and restores a setting. `switched` tells the program's own
state from on and off, because the closers of block and mutex set the rate to 0. A server's Start fails, or
returns once it was stopped. The errgroup is external: its context is cancelled
with the first error.

**RefreshTokens.** `RevokeOld`, `StoreNew` and the validation are separate calls of the
store; a Redis call may fail before or after it was applied, and the client-side
cache may still answer for a deleted token.

**CodeMerge.** A file is a set of declarations with the names `AstInfo` gives them.
`MergeGoFile` is a call of mergeCode: imports, constants, variables, types with their members, then
functions, each decided by names as the code does, with what is found inside
function bodies and the package name masking what it masks in the code. Of embedded
types of other packages (`Foreign`) the parsers see nothing in an interface and an empty
name in a struct; a variable appended to a file that has some goes into parentheses, where its
text has no `var` and `Contains` does not find it again. `MergeFails` is the error for a
struct or an interface inside parentheses, and for a text to be replaced that occurs
twice (`errDuplication`). Between
merges `Edit` adds a declaration of the user's, as long as the file compiles.

## 3. Runs

Several small components share a run: `part`, chosen in the initial state, says
whose behaviour this is, and the other components' variables stay as they are. A
run is then the sum of the components' state spaces, not their product; a property
of one part is trivially true in the behaviours of the others, and its mutant
shows that it is not in its own. Fairness conditions carry `part` in them for the
same reason.

Bounds are named constants; where a bound is a guard (`Max*`, `LastOffset`) the program would go on
where the model stops. That is why the cfgs turn deadlock checking off: at its
bounds a model may stop, and so may these servers when nobody calls them.

| run | bounds and why they are enough | shows |
|---|---|---|
| `breaker` | 2 callers, 2 buckets, 3 periods, `request` 2, `success` 1/2: a snapshot goes stale, the window drains, equality is met | `TripsExactly`, `QuietWindowAdmits` |
| `breaker_grpc_rate` | as above with gRPC alone and 4 periods | violation of `TripsOnlyWhenFailing` |
| `bbr_limiter` | 3 concurrent requests of 4, 2 buckets of a second: limits 0, 1 and above one, a request delayed at any atomic, places lost by panics | `DropNeedsConcurrency`, `CoolDownEnds`, `LimitExact` |
| `sse_hub` | 1 user, 2 connections that may overlap, 4 events, channels of 1 or 2, 1 worker: fast path, slow path, retry, time-out and overtaking all occur | `NoPanic`, `Conservation`, `FastPathOrder`, `ImplementsService` |
| `sse_hub_live` | no overlap; 3 events, and Close at any moment up to the first (`MaxCloseEvents`), with 2 polling rounds | `OnlineReachable`, `CallsReturn`, `MessagesSettle`, `CloseReturns` |
| `sse_hub_reconnect` | overlapping connections | violation of `OnlineReachable` |
| `shared_state`, window | 3 buckets of 2 ticks, 15 ticks: two and a half turns, pauses shorter than, equal to and longer than the window, at every phase of a bucket | `WindowExact` |
| `shared_state`, group | 2 callers, 4 Gets, 2 resets of one key: a Get between and across Reset's two sections | `GetsCoherent` |
| `shared_state`, tokens | 2 requests at a time, 4 tokens, one failing call, either store: two generations of rotation, overlaps with refresh and logout | `OneTokenPerLogin`, `NoLockOut` |
| `shared_state`, discovery | 2 resolvers, 4 lists with and without usable instances, one change after the start: a second broadcast meets a full channel, queries fail | `NoLostUpdate`, `NeverBackwards`, `CatchesUp` |
| `shared_state`, merge | 3 edits of 10 declarations, 3 merges of 6 generated files: methods, groups, locals, blank variables with and without parentheses, embedded types, `init`, a function named like the package | `MergeExact`, `KeepsUserCode` |
| `discovery_watch` | as discovery | violation of `WatchReturns` |
| `clients`, resend | 3 events, 2 breaks, pages of one event: events before, during and after a listing, a listing before `clients.Set`, one that fails | `NoneForgotten`, `EventuallyReceived` |
| `clients`, sse | 2 loops, the code's interval, ceiling and 5 retries, any number of refusals of either text | `StopEndsLoops` |
| `clients`, ws | the ping goroutine and a user who calls TryReconnect, 2 cuts, 2 calls or late pings that nothing calls for, delays up to the ceiling | `StraysBounded`, `Reconnects` |
| `background`, rabbitmq | 2 messages, no prefetch limit or a limit of 1, 2 channels, 2 faults: a message is redelivered after a lost channel, a failed one holds the other back, Close comes during the monitor's sleep | `ManualAckKeeps`, `ConsumptionResumes`, `CloseEndsAll` |
| `background`, kafka | 3 offsets, 3 calls of Consume, 2 sends | `CommittedWasTried`, `EveryMessageTried` |
| `background`, cron | 2 users, 1 run-once name, 2 entries, 1 job at a time, any number of panics: a name is deleted and added again while the old entry's job runs | `NamesMatchEntries`, `OnceLeaves` |
| `gocron_once` | 1 user, 2 jobs | violation of `OnceRunsOnce` |
| `services`, app | 2 servers, 2 sessions, 3 signals, failing closers | `StopsUnlessCloserFails`, `SettingsRestored` |
| `services`, etcd | 1 Register, 2 attempts, 3 faults (a lost channel and both attempts, so that the ends without a channel are reached), the watcher | `CancelRemoves`, `HeartBeatHeals`, `WatcherCurrent` |
| `services`, nacos | 4 changes: the channel is full while the next callback waits | `NacosCurrent` |

Symmetry is used in `breaker`, `breaker_grpc_rate` and `bbr_limiter`, over the
requests; these runs check no liveness. The discovery part also passes with two changes (830 874 states), which is too
slow to keep.

**Fairness.** Weak fairness of each goroutine's steps: the Go scheduler runs what
can run, timers and tickers fire, and a `select` with a ready case takes one.
Nothing is assumed of users, the application (it need not call Consume or TryReconnect
again), what a server sends, breaking connections, failing requests, crashes or
Consul's changes. Strong fairness, and why:

* taking `r.lock` in `ServiceDiscovery`: `sync.RWMutex` does not starve a waiter;
* in `WSClient` a dial succeeds in the end when it is tried for ever, and the
  `select` that waits for the delay or the cancelled context chooses at random,
  so a cancelled context is taken in the end;
* leaving Consume in `RabbitMQ`: again a `select` in a loop, with the exit channel
  closed, does not choose the other case for ever.

In `EtcdRegistry` a lease that nobody keeps alive expires, and a keep-alive channel whose
lease or context has ended is closed in the end; in `GoCron` an entry fires again and its
job ends; in `SSEClient` a dial ends, but no stream has to; Consul's queries end.

## 4. Proofs

TLAPS checks these for every value of the constants that satisfies the named
assumption of the module (`WindowAssumption`, `HubAssumption`, and so on). The
assumptions say what the constants are: bounds are natural numbers, a ring has a
bucket, a channel a capacity, `success` is a fraction up to one, generated
declarations look like what `ParseGoCode` returns. Where a module has a set of actors
(requests, callers, users, connections, resolvers, workers, timers) the set is arbitrary.
Where it has one or two by name the theorems are about those: one application that
pushes to the hub and one that closes it, one stream of one user in `SSEResend`, the ping
goroutine and one application in `WSClient`, one consumer in `RabbitMQ` and `Kafka`.
Every invariant and every action property that a passing run checks is
proved; the invariants below are the strengthenings that make them inductive.

**Rolling window** (`RollingWindowProofs`: `TypeCorrect`, `RingCorrect`, `ReduceExact`).
`WindowExact` is about what Reduce reads and says nothing of the buckets it skips.
`RingInv` describes the whole ring: the last `Size` periods up to the last append are
each at their number modulo `Size`, later indices are empty, and `lastAppendTime` is a
multiple of the bucket duration. The lemmas on division and remainder
(`ModShift`, `ModDistinct`, `ModReach`) say that the buckets `ResetBuckets` empties are
exactly those of the periods passed over (`ClearedRing`); `RingExact` derives
`WindowExact`. The breaker and both windows of the limiter use these lemmas.

**Breaker** (`CircuitBreakerProofs`: `BreakerTypeCorrect`, `BreakerTripsExactly`,
`BreakerQuietAdmits`, `GinTripsOnlyWhenFailing`). `MarksInv` compares, period by period, what was
marked with what happened; `SeenInv` does so for what a request read. Between them is
`WindowSums`: the sum over the visited part of the ring is the sum over the last
`Size` periods. It needs induction over a list, in the form of `InductiveSet`, which
is about sets of numbers and follows from the well-foundedness of `<` on Nat: the sets are
the lengths for which a fact about `SumUpTo` holds. `GinTripsOnlyWhenFailing` is the
property that `breaker_grpc_rate` refutes, for a breaker behind the gin middleware:
there it holds, panics included, at the boundary that the code has (`GinInv`: the marked successes are the real ones), so the
gRPC interceptors alone are the cause.

**Limiter** (`BBRLimiterProofs`: `DropsConcurrent`, `CoolDownBounded`, `LimitsExact`).
`inFlight` is the number of requests that hold a place and of places lost by panics, at every atomic, and what
a request has loaded was true when it loaded it. `DropInv` follows `now` and
`prevDropTime` through the loads and stores of a request: whoever is on the way to a
drop was under load or within a second of a drop. `LimitInv` has the ring invariant of both
windows and what the caches hold; `ReadsClosed` turns it into `LimitExact`.

**Hub** (`SSEHubProofs`).
* `HubTypeCorrect` (with Close) from `TypeInv`: the message in the hands of a worker or of the
  loop is a message.
* `HubChannelsOwned` and `HubNeverPanics`, for a hub that is not being closed (`~Closes`). The loop may hold
  a connection whose channel was closed meanwhile; `ChannelInv` says who owns
  a channel: it is closed only after its Serve has gone and the map has
  forgotten it, and whatever the loop holds is open.
* `HubReaches`, for users whose connections do not overlap (`~Overlap`), from `ReachInv`. With overlap
  the property fails: that is the run `sse_hub_reconnect`.
* `HubConserves`: every counted message has exactly one holder, once. `CountInv` also needs that
  no Push comes back to a user it has done (`FreshInv`) and that the loop's hands are empty
  while it sends nothing. Each action moves one message from a holder to another.
* `HubFastOrder`: along the line broadcast, loop, Send channel, wire the fast messages are sorted,
  and those further on precede those behind (`LineInv`); what is in the pool is not fast (`SlowInv`).
* `HubImplementsService`: the initial state maps to the initial state of `EventService`, and
  every step of the loop, Serve, Push, the pool and Close to one of its steps or
  to none. The mapping's pending messages are those in a channel or in somebody's hands, by
  `HeldInv`; `Receive`'s order is `LineInv`, and its user `UserInv`.

**Group, tokens, merge** (`SharedStateProofs`).
* `GroupCoherent`: what was handed out since the map was last emptied is in the map
  (`HandedHeld`), and what the map holds is of the constructor of the last Reset that
  returned, or of a later one (`ValsCurrent`).
* `TokensCounted`, `TokensNoLockOut`: a token that is about to be stored is balanced by one that is
  about to be revoked or by a fork (`Accounted`), over every interleaving of requests and failing calls.
* `MergeKeepsUserCode`: a property of each merge; `MergesExact` from `ExactInv`: until the user edits
  and after, each name of the latest generated file is declared once, everything it would add is present
  (copies of blank variables aside), and every declaration is a fixed point of the merge.

**Services** (`ServicesProofs`).
* `ProfilerRestores`: while no start and stop overlap, a changed setting has a close function that
  puts it back (`RestoreInv`).
* `DiscoveryTypeCorrect`; `DiscoveryNoLostUpdate` from `UpdateInv`: before its Watch returns a resolver has
  loaded nothing and has no loop (`FreshInv`), from registration to Stop it is in the watcher map
  (`RegisteredInv`), an empty list is never stored (`StoredInv`), and the promise already holds while
  Watch unlocks (`PendingInv`). `DiscoveryNeverBackwards` from `OrderInv`: there is at most one
  resolve loop, or one Watch about to start it, and what resolvers have, what is stored,
  what the loop holds and Consul's index are in this order.

**Clients** (`ClientsProofs`).
* `StraysCounted`: `StrayCount` counts the working connections that no call has only just dialled (`Loose`).
  Without a call under way all but the one held were paid for by needless calls; with calls under way,
  each of which will add one, they and the calls are at most one more than the needless calls. Close
  takes that one away. `StraysBounded` is the first of these cases and the one after Close.
* `NothingForgotten`: every stage of an event's way (Push, the hub's channel, the client's queue, the wire)
  passes the owed events on in order, so what the client lacks and was not missed is after its Last-Event-ID
  (`WayInv`). The window between listing and `clients.Set` is in it: an event that is looked up there is in
  `missed`, one that is looked up later has a registered client.

**Background** (`BackgroundProofs`).
* `KafkaCommitsTried`: marks and commits stay behind the last message the claim has seen (`ClaimInv`).
* `RabbitKeepsUnhandled`: what is about to be acknowledged was handled (`AckInv`).
* `CronNamesMatch`: a name without an entry is being deleted, an entry without a name is being stored, and each
  process does what its place says (`CronInv`).

Only model-checked: liveness under fairness (`CatchesUp`, `EventuallyReceived`, `StopEndsLoops`,
`Reconnects`, `ConsumptionResumes`, `CloseEndsAll`, `EveryMessageTried`, `OnceLeaves`,
`StopsUnlessCloserFails`, `HeartBeatHeals`, `CancelRemoves`, `WatcherCurrent`, `NacosCurrent`, `CallsReturn`,
`MessagesSettle`, `CloseReturns`), which is out of the prover's reach.

## 5. What the runs found

Violations, each with a finding in `PROJECT.json`:

1. `breaker_grpc_rate`: the gRPC interceptors do not mark calls without error, so the
   breaker opens at a high success rate.
2. `sse_hub_reconnect`: the unregistration of a user's old connection deletes the new
   one from the map; the user stays connected and gets nothing.
3. `discovery_watch`: Watch blocks on its own notification, with the registry
   locked, if a broadcast came between its registration and its send.
4. `gocron_once`: a run-once task is begun twice when it is still running at the next
   tick, or fired before Run stored its name.

Behaviours the models contain and the properties are stated around:

* `Hub.Close` and a client that disconnects meanwhile may both close its channel,
  and Push during Close may submit to a closed task channel: both panic. `NoPanic` is
  claimed for a hub that is not being closed.
* After the hub loop has stopped, a Serve that starts or ends blocks for good.
* The breaker opens with exactly `request` calls and at exactly the success rate `success`
  (`sre.go:130`). `circuitbreaker/README.md:91-92` ("exceeds", "falls below") and `sre.go:22-23` ("greater",
  "lower") are strict, while `README.md:81` calls `request` a minimum. `TripsExactly` keeps to the
  code for opening, and shows that a call is rejected only with the rate below `success`.
* The limiter goes on dropping for up to a second after the load has gone, while
  `ratelimit/README.md:13` says that requests are only dropped above the threshold; `CoolDownEnds` bounds it.
* A panicking handler is not marked by the breaker, and keeps its place in the
  limiter for ever; `DropNeedsConcurrency` counts the lost places.
* The limiter's caches are stamped when they are stored, not when they were computed (`bbr.go:193`).
* An event that took the task pool or was given up may be behind the client's
  Last-Event-ID and is then not resent; `NoneForgotten` leaves such events out.
* Serve registers over an unbuffered channel and may list the Store before the loop
  has run `clients.Set` (`server.go:72`, `hub.go:173`). An event pushed in between is neither listed nor sent, and
  the next event puts it behind the Last-Event-ID; so does a listing that fails, after which Serve
  goes on (`hub.go:318`). These are the events in `missed`.
* Disconnect does not end a stream in which no field of an event arrives any more: blank lines and
  heartbeats are skipped before `stopCh` is looked at (`client.go:221-237`).
* On Linux a refused dial does not have the expected text, so the SSE client's
  retries are not limited.
* Disconnect after the SSE client has disconnected itself closes `stopCh` twice (`client.go:125`).
* A Build that gave up leaves a watcher that nobody stops (`builder.go:74`).
* TryReconnect replaces a connection without closing it and without a look at whether it works
  (`pkg/ws/client.go:144`): called after the ping goroutine has reconnected, beside it, or overtaken by
  Close, it leaves a connection open that nobody knows.
* A close function that fails ends `stop`: the servers behind it go on, and Run waits
  for them for ever (`app.go:96`, although `app.go:64` says "stop the service if either
  signal is triggered"). A SIGTERM that finds a SIGTRAP in the signal channel, which holds one, is dropped.
* A profiler's timer of an old session may cut a later one short (`profile.go:145`). The block and
  mutex rates are set to 0 afterwards, whatever the program had set (`profile.go:241`, `profile.go:263`).
* etcd's Deregister ends neither heartBeat nor the keep-alive: a heartbeat that loses
  its channel, or a Put of Register or heartBeat that timed out and is applied late, puts the service
  back. Only cancelling the context removes it for good (`CancelRemoves`). A heartbeat without a channel blocks for good,
  one out of attempts ends, and a Put applied late hangs on a lease nobody keeps.
* A failed Get of the etcd watcher, and a failed read of the Nacos one, use the
  notification up. The Nacos callback blocks the client after Stop, and two tokens for one
  change give the same instances with different ids (`watcher.go:73`).
* A RabbitMQ consumer acknowledges automatically by default, although
  `pkg/rabbitmq/README.md` speaks of manual acknowledgement; a handler that fails
  neither acks nor nacks, so that with a prefetch limit as many failed messages as the limit stop the
  consumer until its channel is lost; a cancelled context makes Consume open a channel at every
  tick; `isConnected` may be true after Close; a Producer keeps the channel of the
  connection it was made from.
* A Kafka message whose handler failed is passed by the mark of the next one. Consume returns nil after
  every rebalance (`consumer.go:55-69`): who does not call it in a loop stops consuming. The
  nil check of `ConsumerGroup.Close` is inverted (`consumer.go:82`); a message sent after
  `AsyncProducer.Close` may panic.
* A run-once task that panics is not deleted; one that panics at every firing stays for ever (`cron.go:95`).
* Two refreshes with one refresh token that overlap both succeed.
* `goast`: a type that is grouped on one side only is appended again (`merge.go:606`), a
  struct grouped on both sides makes the merge fail, and locals of functions and the
  package name mask generated declarations of the same name. A variable that the file
  has only inside a function which the merge replaces is added by the second merge.
  `MergeExact` is stated for files without these (`Plain`, `Masked`). A generated `var _ I = ...` without
  parentheses is appended again by every merge into a file that has other variables (`merge.go:313-331`), which
  compiles and is allowed for (`BlankCopies`). A user's interface that only embeds interfaces of other packages is
  replaced by the generated one (`merge.go:435`), although `cmd/protoc-gen-go-gin/main.go:46` tells users not to
  worry about the code they have written; `KeepsUserCode` names this case (`Unread`).

## 6. Not modelled

Own registration in Consul and Nacos (calls only), parsing and formatting of the SSE
stream, options and defaults, heartbeats on the wire, the degrade handlers,
the partition consumer of `pkg/kafka`, the signing of access tokens, comments
and layout in `pkg/goast`.

The map covers a small share of the repository's lines, and will: most of
them are templates and parsers of the generators, generated examples, wrappers
that make one call of a library (databases, caches, locks, logging, tracing, gRPC and
gin options, cryptography), and start-up code. Their correctness is in the
text they produce or the library they call. A model of them would copy the code
string by string and have no interleaving, failure or order for a model
checker to explore. `PROJECT.json` lists them one by one.

## 7. Plan

What is left:

1. The safety part of what is only checked as liveness, as invariants with proofs: for
   `MessagesSettle`, that whoever holds a message is at a place from which it goes on; for `WatcherCurrent` and
   `NacosCurrent`, that a change not yet seen has its notification under way.
2. Abstract specifications of the Consul registry (a resolver sees a growing sequence of lists) and of the
   token stores, with `ServiceDiscovery` and `RefreshTokens` shown to implement them.
3. Type invariants of `SSEClient` and `NacosWatcher` as theorems.
