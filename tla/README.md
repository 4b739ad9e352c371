# TLA+ specifications of finokit

finokit is a Go toolkit of thin libraries: configuration with hot reload,
messaging over NATS, object storage, pagination, database and Redis providers,
errors with generated codes, logs. These modules specify the parts of it that have
state and concurrency of their own, model-check them on small instances with TLC,
and prove the most important properties for every instance with TLAPS.

## The system

| component | state | operations | who it talks to |
|---|---|---|---|
| loader, `config/loader/memory` | `sources`, `sets`, `vals`, `snap`, list of watchers, `exit` | `Load`, `Sync`, `Snapshot`, `Get`, `Watch`, `Close`; one goroutine per source; watcher `Next`, `Stop` | reads and watches sources, merges with the reader, sends to watchers through one-place channels |
| sources, `config/source/*` | content, watchers; a memory source a bounded channel, a NATS key a subscription with a callback goroutine, a file an inotify watch | `Read`, `Watch`, `Next`, `Stop`, `Update` | called by the loader's goroutines; the NATS server, the kernel |
| reader, `config/reader/json` | none | `Merge`, `Values` | called by loader and configuration |
| configuration, `config/default.go` | `snap`, `vals`, `exit` | `Load`, `Sync`, `Set`, `Del`, `Get`, `Watch`, `Close`; the `run` goroutine | one loader, which it does not own |
| facade, `config/config.go`, `config_helper.go` | `DefaultConfig`, its lock and its flag | `InitDefault`, `Load`, `Sync`, `Get`, `ScanFrom`, `WatchFunc`, `LoadServiceConfig` | configuration, file and NATS sources |
| messaging, `messaging/nats.go`, `sub_message.go` | subscriptions, `closeCh`, connection, `done` per message | `Publish`, `Subscribe`, `Close`, the pull loop, the callback, `Ack`/`Nak`/`Term` | the NATS server, handlers |
| messaging client, `messaging/client.go` | the configured subscriptions | `SubscribeService`, `Subscribe`, `Publish`, `Close` | its queue |
| storage, `storage/client.go` | none (the bucket is remote) | `Read`, `Write`, `List`, `Remove`, `Upload`, `Download`, `ensureBucket` | MinIO / S3, the file system |
| pagination, `pagination/*` | the key of the codec | `EncodeOffset`, `EncodeKeyset`, their decoders, `Resolve`, `ResolveKeyset` | callers carry its tokens |
| code generator, `errorx/generator` | the Go files and the document it writes | `Generate` | YAML files that people edit |
| `redis`, `db`, `addr`, `logs` | none or set once | checks, defaults, selection | client libraries |

What is hard in it: the loader and the configuration release their locks between
merging, capturing, comparing and sending, so notifications overlap and are lossy by
design; sources fail, hold undecodable bytes, and change while nobody is subscribed;
a message is delivered again while its first handler still runs; verdicts are lost;
a queue is closed while it subscribes, fetches or handles; services set up the same
streams at once; a publish is answered late or not at all and repeated; a key or a file
changes while its watcher is opened, read or given up; a bucket changes between two
pages, and a deletion of many keys fails in part. `PROJECT.json` lists these
hazards line by line with the properties that watch over them.

What makes each component correct:

- *loader*: versions only grow; a watcher never goes back and never falls behind
  without a reason that can be named (a full channel); the snapshot is the merge of
  what the sources gave, also after one of them was broken and repaired; closing
  ends its goroutines.
- *configuration*: `run`, `Load` and `Sync` install snapshots concurrently, and none
  of them may undo a newer one; `run` ends when the configuration is closed, unless
  `Loader.Watch` fails for ever.
- *facade*: the default configuration has the sources of every Load that succeeded since
  the last `InitDefault`, and its calls never all wait for each other.
- *messaging*: at-least-once. A message leaves the queue only after a handler decided
  about it, and in the end every message does, as long as an open subscription has its
  consumer; one verdict per delivery; a closed queue neither fetches nor keeps goroutines; a repeated publish keeps the order of its
  batch and doubles only messages without an Id; a service that subscribed without an
  error has its subscriptions open until the client is closed.
- *sources*: a loader receives contents the source had, never an older one after a
  newer one; a watcher that waits has missed nothing, with the exceptions that can be
  named; closing ends its goroutines, with others.
- *storage*: no key that stays is skipped or repeated between pages, no object above the
  limit is returned or stored, `Remove` succeeds only if everything was deleted.
- *pagination*: a token continues the list it was given out for, at its place, under the
  key it was sealed with, and nothing else, whatever token a caller presents.
- *error codes*: different code parts have different codes; a successful run leaves a
  package in which no two definitions share a name or a code, and the document says the
  same as the code. A definition named like a function of another one is not excluded.
- *files and defaults*: a service loads files of its own directory or of one place itself,
  and none of another service in a place that lies apart; an accepted configuration is
  accepted again and means the same.

## Modules

```
ConfigData            documents, change sets, View, Merge
  VersionedFeed       abstract: what a loader promises its watchers
    HotConfig         config/default.go over any versioned feed
  ConfigLoader        config/loader/memory with memory sources; implements VersionedFeed
GlobalConfig          config/config.go: the configuration of the package
WatchedSource         abstract: what a loader may expect of a source
SourceWatchers        NATS key, file and static sources; implements WatchedSource
WorkQueue             abstract: an at-least-once queue
Delivery              messaging pull subscriptions; implements WorkQueue
Publishing            messaging stream set-up and Publish
ServiceSubscriptions  SubscribeService and Close of the messaging client
ObjectStore           storage client and the bucket it shares
Pagination            page tokens and a service that pages its lists
ErrorCodes            the generator of error codes and its catalogue
FileSearch            which files a service loads (operators)
ProviderConfig        checks and defaults of redis and db (operators)
MC_*                  instances for TLC        *_proofs   theorems for TLAPS
Induction             lemmas: induction on numbers, recursive functions, ascending sets
```

**ConfigData** (`reader/json`). A document maps each path to a value or `None`; a
change set is a document or `Bad`, bytes that do not decode. `Merge` takes for each
path the last source that defines it; one `Bad` set makes it fail. Nested maps are
flattened to their leaf paths, which is what `mergo.WithOverride` amounts to as long
as no source puts a scalar where another has a map.

**ConfigLoader** (`config/loader/memory/memory.go`). One step per mutex section.
`pc` says where each source goroutine (`watch`) and each caller is; `job` holds the
locals of `update()`, which runs without a lock: `Capture` (the RLock section),
`CheckWatcher` (the version comparison), `SendUpdate` (the non-blocking send) are
separate steps, so updates of different installers interleave. `slot` is the
one-place channel of a watcher, `queue` that of a source watcher. `Install` is the
common tail of `watch`, `reload` and `Sync`; only `Sync` does not write `sets`, as in
the code. A `Watch` that re-subscribes after an error does not read the source
again. History variables (`history`, `missed`, `unseen`, `pinned`, `bySync`) are read
by properties only. A source is loaded once; `WithWatcherDisabled` is left out.

**VersionedFeed** is what remains of the loader for its users: `Publish`, `Open`,
`Accept`. It is deliberately weak: watchers may skip snapshots, and may be opened with
the content of an older snapshot than their version (`Watch` uses two lock sections).
ConfigLoader implements it under the mapping `current <- snap`,
`open <-` live and stopped watchers, `shown <- held`.

**HotConfig** (`config/default.go`) EXTENDS VersionedFeed, so what holds of it holds
for every loader that implements the feed. `runPc` follows the `run` goroutine;
`callPc`/`hand` the callers of `Load` and `Sync`; `lock` is non-empty while `Load` holds
`c.Mutex` over several steps (the other critical sections are one step and need
`lock = {}`). `synced` remembers that Sync installed the snapshot. `shares` are
the client watchers whose value is an object inside `c.vals`, which `Set` and `Del`
edit in place (`Edit`). `RunWatchFails` is a `Loader.Watch` that returns an error, as often
as it likes: `run` sleeps and tries again (`RunTryAgain`) without a look at `exit`. A
configuration that does not start `run` at all (`WithWatcherDisabled`, line 42) is left
out.

**GlobalConfig** (`config/config.go`). `default`, `inited`, `writer` and `readers` are
`DefaultConfig`, its flag and its RWMutex, which is external: a writer that waits keeps
new readers out. Each call is a `Call` step (the flag, which `Load` sets and the others
read), `RLock`, and a step that ends with the deferred `RUnlock`; `ScanFrom` repeats
the last two per key. `InitDefault` makes a configuration, waits for the lock, and swaps.
What a configuration does is HotConfig: here it is its lock (`busy`, held by a `Load`
while it reads), its sources (`loaded`) and whether it is closed. Whether a key has a
value is a choice. `kept` is a history variable.

**Delivery** (`messaging/nats.go` 174-419, `sub_message.go`, `subscriber.go`). `pc` and
`job` are the pull goroutine of each worker, `subPc` and `closePc` its `Subscribe` and
`Close`. A delivery is a message with its delivery number. `Finish` is the
compare-and-swap of `SubMessage.finish`; the request it makes travels in `sending`
and may be lost, fail on a closed connection, or arrive after the message was delivered
again. Handlers may act themselves, hand the message to another goroutine (`aside`),
fail or succeed. `CallbackTerm` is the direct `Term` of malformed bytes,
`Poison` messages the `Term` of `JSONEndpoint`. The JetStream server is external and
modelled from how the code uses it: it stores, delivers, counts, expires after AckWait,
forgets on Ack and Term. The durable consumer (`consumer`) is part of it: `PullSubscribe`
looks it up and creates it if it was not there (`LookUpConsumer`, `PullSubscribe`), which
makes the worker an `owner` (two that look at the same time both are, because creating the
same consumer twice succeeds), and `Unsubscribe` of an owner, in `Close` or after
`SetPendingLimits` failed, deletes it together with all it knew of the messages. Whoever
found it there does not delete it. Nothing in the repository creates consumers
otherwise, so the model starts without one. A loop whose consumer is gone goes on fetching
in vain; a consumer that is created afterwards starts again with the first message of the
stream.

**WorkQueue** is its abstraction: a stored message leaves the queue only after
somebody decided about it, and comes back only with all the others (`Rewind`), when the
queue is set up anew.

**Publishing** (`messaging/nats.go` 42-172, `Client.Publish`). `pc`, `at` and `info` follow
`newNATSQueue` through `ensureStreams`: `AddStream`, `ReadStream` (StreamInfo) and
`UpdateStream` are one step each, as they are separate requests, and each may be
executed by the server without the client hearing of it (`heard = FALSE`) or be lost
(`Crash`, which also stands for the death and restart of a process). Then `pc` follows
`Publish` message by message. A request that timed out stays in `flight` and may arrive
later or never; Core NATS publishes always travel that way. A nil message and one
that does not marshal are `Unsendable`: both end the call in the same place. The
server is external: a subject is bound by at most one stream, a message ID is
dropped if the stream stored it in the current deduplication `window`. The callers are
external too: they repeat a failed call or give up. Subjects have no wildcards, and no
stream is deleted. A behaviour is about one `deployment`, chosen in `Init`.

**ServiceSubscriptions** (`messaging/client.go` 25-94 over `nats.go`). `at` is the entry of the
list a call is at, `step` where `natsQueue.Subscribe` is with it: opening (whatever kind
the subscription is of), configuring and listing are separate steps, between which
Close may run. `raw` are the subscriptions that are open and not yet listed. Calls
for several services run at the same time, fail half-way and are repeated.

**WatchedSource** is what `config/source/source.go` promises a loader: it may be late and
skip contents, but what it hands over was a content of the source, and never goes back.

**SourceWatchers** (`config/source/nats`, `file`, `noop.go`, `env`, and `memory.watch` of
the loader that drives them). Contents are numbered in the order in which the source
has them, so "older" means something. `pc` follows `memory.watch`: load, open, `Next`,
retry after a merge that failed. A key watcher is its subscription (`wire`), the change
set its callback goroutine holds while it sends on the unbuffered channel (`box`), and
whether that goroutine lives (`live`): `CallbackTake`, the receive in `NextUpdate`, and
`CallbackExit` interleave, and `Stop` may come at any of them. A new subscription
replays the newest entry and then the marker (a nil entry, number 0). A file watcher is
the inotify mark (`marked`), the kernel's bounded queue (`events`), and the three steps
of `Next`: an event, the read, marking the path again. The file may be written,
replaced, removed, moved away or created at any point. Its `Watch` may fail, because it is
not there or no inotify instance is to be had (`OpenFails`): the loop sleeps, tries again,
and is where it was. A static source waits for `Stop`
only. NATS and inotify are external, and the latter is modelled for Linux. `excused` is
a history variable: the file changed while the loop was not in `Next`, or `Next`
failed, since the file was last read.

**ObjectStore** (`storage/client.go`). A request to the server is one step, so `newClient`
is `CheckBucket` and `MakeBucket`, `List` is one `ListRequest` per page of the server, `Remove`
one `RemoveBatch` per 1000 keys (some of which are deleted, some reported as errors, or
the answer is lost), `Read` a stat and a read, `Upload` a stat of the local file and its
put. Other programs put and delete keys, and the local file changes, in between. `listed`,
`stable`, `asked`, `erased`, `ours`, `grown` are history variables.

**Pagination** (`cursor.go`, `page.go`). The service has several lists, some paged by offset and
some by the last key; a caller presents any token ever given out with any query.
Sealing is modelled by what AES-GCM guarantees (only the key that sealed a token opens
it), a binding by what SHA-256 guarantees (different queries, different bindings). The
key of the service may change (`ChangeKey`, a restart with another configuration);
`issued` and `answer` say under which key a page was given.

**ErrorCodes** (`errorx/generator/generator.go`). A run collects the paths, loads and checks
file by file, checks all together, writes Go file by Go file, then the document; it may
fail before any of these, and the catalogue may be edited between any two. Two YAML
files may have the same Go file, because `sanitizeFileName` drops characters. `Declared`
is what a definition declares in the package: its variable and `New`, `Wrap` and `Is` of
its name. The generator compares names, Go files and full codes, not these functions, so
definitions `A` and `NewA` pass, and Go refuses the package; `PackageIsConsistent` has
this as its exception.

**FileSearch** (`config/config_helper.go`) and **ProviderConfig** (`redis/config.go`,
`db/config.go`) are operators without state, checked over all inputs from small sets. Of
the search, `Apart` is a place that is neither below nor above another: with
`CONFIG_PATH=conf/other` the place is itself the directory of another service, whose files
are then loaded, and nothing is claimed about it.

**MC_Libraries** extends ObjectStore, Pagination, ErrorCodes, GlobalConfig and
ServiceSubscriptions (whose specifications therefore have names of their own: `Spec`,
`PagesSpec`, `CodesSpec`, `GlobalSpec`, `ServiceSpec`) and instantiates the two modules of operators, each on an
instance of its own in one run: `focus` names
the one a behaviour is about (`store`, `pages`, `codes`, `global`, `service`, `search`, `redis`, `db`), and the others stay
in one initial state. They share no state in the code either.

## Runs

| run | instance | shows |
|---|---|---|
| `ConfigLoader_sources` | 2 sources, one flaky, 1 caller, 3 changes, 2 calls, channel of 1 | `NoSilentSourceLoss`, `ViewIsMergeOfSets` |
| `ConfigLoader_feed` | 1 source, 1 caller, 1 client, 2 changes, 2 calls, channel of 2; fair | `NoSilentStaleness`, `FeedSpec` (refinement), `CloseEndsGoroutines`, `WatchersCatchUp`, `StoppedWatchersLeave` |
| `HotConfig_reload` | 1 loading and 1 syncing goroutine, 1 client, run, whose Watch may fail, 3 snapshots; fair | `HotTypeOK`, `RunKeepsUp`, `ViewNeverGoesBack`, `CloseEndsRun` |
| `Delivery_safety` | 1 message, 2 workers, one closes, any of them creates the consumer, 1 fault | `OneVerdict`, `VerdictsAreDecided`, `OneHandlerAfterClose`, `ClosedQueueIsQuiet`, `WorkQueueSpec` (refinement) |
| `Delivery_liveness` | good, malformed and undecodable message, 1 worker, 1 fault; fair | `StoredMessagesSettle` |
| `Delivery_failover` | 1 message, 2 workers, one closes, any of them creates the consumer; fair | `StoredMessagesSettle`, `CloseEndsLoops` |
| `Publishing_shared` | 2 services, 2 streams, 4 deployments, 2 starts, 2 calls per job, 1 fault | `TypeOK`, `AgreedStreamsAreBound`, `SettingsGoBackOnlyByRace`, `StoredInOrder`, `AcceptedIsStored`, `StoredOncePerWindow` |
| `Sources_watch` | a key, a file, a static source; 5 changes, 1 failed merge, a kernel queue of 2; fair | `NothingLostInNext`, `HeldNeverGoesBack` (refinement of WatchedSource), `ChangesArrive`, `CallbacksEnd`, `CloseEndsWatch` |
| `Libraries` | store: 2 clients, 3 keys, pages and batches of 2, 1 fault, 1 foreign change, 1 call each; pages: 2 keys, 2 queries, 3 tokens; codes: 3 paths, 11 catalogues, 2 edits, 2 runs; global: 2 InitDefaults, 2 Loads or Syncs, or a ScanFrom of 2 keys, with one each of the others, 4 configurations; service: 2 services, 6 entries, 3 calls each, 2 failures; search: 1024 trees; redis and db: all configurations from boundary values | `WalkListsOnce`, `LimitHolds`, `RemoveTellsTheTruth`, `AnswersContinueTheirList`, `PackageIsConsistent`, `ServiceLoadsItsOwn`, `NormalFormsAreStable`, `NoLoadIsLost`, `CallsGoOn`, `NilMeansServed` |
| `ConfigLoader_dropped` | as `feed` | violation: an idle watcher shows an old value |
| `ConfigLoader_sync_undone` | 2 sources, one that never reports | violation: what Sync read is undone by another source |
| `HotConfig_change_back` | 1 client, 4 snapshots | violation: a change back to the first value is not reported |

Why the bounds are enough. Two installers (a source goroutine and a caller) are the
least that make updates overlap, two changes the least that overfill a watcher's
one-place channel, three the least that overfill a source channel of one and then
repair it. The channel of 100 is 1 or 2: what happens at its limit does not depend
on the limit, and the proofs hold for every `QueueCap`. Three snapshots let a caller
hold one while `run` installs another. One message is enough for two deliveries of it
to be in flight; every additional message is independent of it but for the worker it
occupies, which the liveness run with three messages covers. `MaxFaults` bounds
handler errors, lost verdicts, early expiries and failed requests of Subscribe together;
the deletion of a consumer is no fault, and happens in every run that closes a worker. Two services are the
least that race in `ensureStream`; the four deployments of `MC_Publishing` are one per
kind of interference (an old release's subjects, a shared message ID, Core NATS beside
an invalid stream list, a subject that moves between streams), and one fault is one
lost answer, late request or crash, which a second call or start then repairs. Five
changes let a file be read, replaced, removed and created again with one more in
flight, or overflow the queue of two; one failed merge opens the second watcher of
a key while the first is being given up. Three keys and pages of two are the least
with a full page, a page that is cut, and a key between them; batches of two of three
keys fail independently; the limits of 1000 are parameters, and the proof of
`RemoveTellsTheTruth` holds for all of them. Three tokens are one of each kind and one of
an earlier key. Two runs and two edits let a run see a catalogue that was never there
as a whole, and let a Go file stay from an earlier run. The trees of the search have
files in a place itself, in the directory of the service, below it, of another service
and of another environment. Two
InitDefaults compete for the lock and leave one configuration replaced and one
waiting; one key and one fallback are the least ScanFrom can hold a lock between. The six
entries are one of each kind a call meets: its own, another process's, everybody's,
another service's, and one without a handler at the end, so that one of the two
services always fails half-way; two failures make a repeated call fail too. Bounds
that only cut the state space: `MaxConfigs`, `MaxRefusals`, `MaxStarts`, `MaxTunings`, `MaxWindows`, `MaxChanges`, `MaxCalls`, `MaxVersion`, `MaxFaults`,
`MaxFailures`, `MaxForeign`, `MaxOps`, `MaxIssued`, `MaxEdits`, `MaxRuns`. Deadlock is
not checked: every system here comes to rest when its bounds are used up, or when all
is closed; that the callers of the global configuration do not block each other is the
invariant `CallsGoOn`.

The three violations are disagreements of the code with its own documents and are
described in `PROJECT.json` under `findings`.

### Fairness

Weak fairness for what the Go scheduler runs anyway: a goroutine's own steps, the end
of a call that was begun, a mutex that becomes free. Strong fairness in three places:
`RunAdopt` (it waits for a mutex that `Load` takes again and again; `sync.Mutex` hands
over to the longest waiter) and `RunStopped` (a `select` with the exit channel ready is
passed over at random only finitely often); `FetchMessage` is strongly fair because a
fetch that times out is tried again while the message stays ready. Clients are assumed
to keep calling `Next`, handlers to return. Nothing makes a source change, a caller
call, or a fault happen. SourceWatchers assumes weak fairness of the steps of the
loader's goroutine, of `Stop` and of the callback goroutines (each waits for a channel, a read or a
timer that is always served), and nothing of the source, of failures or of `Close`. Its
liveness properties therefore say what happens once the source rests, and name what
does not end: a callback that was sending when its watcher was given up, and the loop of a
file whose `Watch` fails from some time on, which never looks at `exit`; no fairness
makes that `Watch` succeed. HotConfig has weak fairness of `RunWatch \/ RunWatchFails`: the call
of `Loader.Watch` returns, with a watcher or an error, and `CloseEndsRun` names the `run` that
goes round between the two for ever. In Delivery nothing makes Subscribe succeed or a consumer
come back, and `StoredMessagesSettle` names the queues that are left without.

## Proofs

TLAPS proves, without bounds on sources, watchers, callers, workers and messages:

- `ConfigLoader_proofs`: `TypeCorrect`, `StalenessIsNeverSilent`, `LoaderIsVersionedFeed`,
  `SnapshotIsMerge`, `NoSourceIsLost`.
  For the second, the strengthening says where an update is between install and
  channel: whoever installed is at `capture` with the version current, or has captured
  it and the watcher is still on its `todo` or `now`, or it is in the slot, or missed;
  a registered watcher starts at the current version, under the same lock. It needs
  no assumption on the clock: an install whose version does not grow makes nobody
  stale. The third needs `ClockAdvances` (`ClockSteps \subseteq Nat \ {0}`), since
  versions are wall-clock times: what every process holds (`job`, `slot`, `seen`,
  `held`) is then part of an installed snapshot. The fourth is inductive with the types:
  whatever writes `sets` merges them under the same lock or leaves them unmergeable,
  and nothing is claimed while a Load is under way. The fifth rests on `SourceInv`: a
  source that is not watched has no channel, what a loader has or will get from a
  source is its content unless the change went unseen, and a caller between reading
  a source and appending it holds what it read.
- `HotConfig_proofs`: `HotTypeCorrect`, `LoadNeverGoesBack`, `LoadNeverOutrunsRun`. The
  invariant `HandsAreFresh` says that nothing held anywhere is newer than the loader,
  and that what a `Load` is about to install is at least as new as the configuration
  and as what `run` last received; it is inductive because `Load` publishes, reads and
  installs under one lock.
- `Delivery_proofs`: `TypeCorrect`, `OneVerdictPerDelivery`, `VerdictsFollowHandlers`,
  `CloseLeavesNothingOpen`, `AtMostOneLateHandler`, `DeliveryIsWorkQueue`. Verdicts rest
  on: every request is of a delivery in `done` or of a malformed message, deliveries are
  numbered, and a loop at `complete` with result `ok` has decided its delivery. In the
  refinement the deletion of the consumer is `Rewind`, and every other step of Subscribe and
  Close stutters.
- `Publishing_proofs`: `BatchesStayInOrder`, `AcceptedMeansStored`, `NoDuplicatesInWindow`, for any
  deployments, services and retries. The invariant `PublishInv` adds to them that every
  entry of the log carries the ID of its message, that what a request carries has its
  predecessors stored already (`FlightInv`: the request of a call that was cut off may
  arrive at any later time), and that a call at message `k` has stored those before it
  (`CallInv`). Ordering survives because the log only grows, which is the lemma every
  step uses. A second invariant, `SetupInv`, gives `PublishingTypeCorrect`,
  `EnsuredStreamsStayBound` and `OperatorsKeepTheirSettings`: a process at entry k
  has ensured the entries before it, and an entry that was ensured is bound by its stream
  or some process asks for other subjects; every step leaves the subjects of a stream or
  makes them those a valid entry wants (`StreamsKept`). That they are sequences without blanks
  (`TrimmedType`) is an induction over the list of subjects.
- `SourceWatchers_proofs`: `WatchersAreTyped`, `WatchersImplementSource`, `WaitingLosesNothing`,
  for any number of changes and failures. `WatchersInv` says that the entries on a subscription are in
  order and not older than what its callback holds, which is not older than what the
  loader holds; the subscription in use is the newest one, and a file that is read
  is read as it is. The refinement then has a step per adoption. `WaitingLosesNothing`
  adds `Arrives`: the newest entry of a key is held, being sent or on the wire, and a
  marked file is as it was read or an event for it is pending.
- `Startup_proofs`: `LoadsSurviveInitDefault`, for any number of loading, scanning and
  initialising callers: of the Loads since the last InitDefault none is lost. `GlobalInv` says that readers hold the lock of the package on
  the configuration that is the default one, so that a `swap` waits for them, that
  a lock of a configuration is held by the one `Load` that reads, and that what an
  InitDefault made belongs to it alone until it is installed. `CallsAreNeverStuck` follows
  from the same invariant: whoever waits, waits for a call that can go on. Its `Ready(c)`
  spells out the guards of the steps, where `CallsGoOn` uses ENABLED.
  `ServicesAreServed` proves `NilMeansServed` for any list of endpoints, any number
  of services and calls: its `ServiceInv` adds the types and that a call inside
  `natsQueue.Subscribe` is there for an entry of its service.
- `Libraries_proofs`, about ObjectStore: `RemoveNeverLies` (`RemoveInv`: while no error was
  seen, what was asked for is what the server deleted and what is still to ask for),
  `LimitIsKept`, and `WalksListEverythingOnce`, for any number of clients, keys and page or
  batch sizes. For the third, `WalkInv` says that what was listed, then the page that is being
  collected, is one ascending sequence that ends at `After(c)`, and that it holds every
  stable key up to there; a page cut at any place continues it, because the next request starts behind it.
- about Pagination: `TokensContinueTheirLists`; what was issued is remembered with the
  list, the place and the key it was sealed with, and a token that opens names the first
  two and opens with that key only.
- about ErrorCodes: `CodesAreUnique` (`composeErrorCode` is injective on what `validateSpec`
  admits, and fits into 32 bits), `PackagesAreConsistent`, whose invariant follows a run from
  file to file, and which uses of the functions only that different names have different
  ones.
- about ProviderConfig: `AcceptedConfigsStay`, for every configuration of the types,
  not only the boundary values of the run. What `normalizeAddresses` returns has
  each address once (`NormalAddresses`), and on such a list it returns the list
  (`NormalAddressesStay`); both are inductions over the list.
- about FileSearch: `ServicesLoadTheirOwn`, for any finite tree in which no file is the
  directory of another, any places and any `DEPLOY_ENV`: what is loaded from below a place
  that lies apart is the service's own or in the place itself (`ApartFromOthers`). The order of the files is a strict
  total one on such a tree (`BeforeIsTransitive`, `BeforeIsTotal`), so that
  `Sorted` leaves out none (`SortedIsAll`). FileSearch and ProviderConfig are instances there;
  the proofs use what `LibrariesAssumption` says of their parameters and never the values.
  `NormalFormsStay` and `ServicesLoadTheirOwnFiles` draw the conclusion for `LibrariesSpec`.
- That what was closed comes to rest: `ClosedGoroutinesRunDown` (ConfigLoader), `ClosedRunRunsDown`
  (HotConfig), `ClosedLoopsRunDown` (Delivery), `ClosedWatchRunsDown` (SourceWatchers). Each names a
  natural number, `StepsLeft`, and shows that once the component is closed every step of its
  goroutine makes it smaller and no step of anybody else makes it larger, with two
  exceptions in the theorems. A `Watch` that fails, of the loader in HotConfig or of a file in
  SourceWatchers, leaves the number where it is; and in HotConfig it counts what the watcher of `run` has
  yet to see, three steps for each version, and grows by as much when the loader, which
  is not closed, publishes one more. So none of the loops re-opens watchers again and again or is kept
  alive by what is already there. In ConfigLoader a step of `update` may instead serve one
  more of the watchers it captured. In ConfigLoader and SourceWatchers the number counts the changes
  still to come, so it uses their bound; that of Delivery is at most 17 whatever happens:
  a fetch under way fails, and a handler under way acts on its delivery once. HotConfig needs that no
  watcher has seen a version the loader has not published (`SeenWasPublished`).
  What `CloseEndsGoroutines`, `CloseEndsRun`, `CloseEndsLoops` and `CloseEndsWatch` say beyond
  this is left to TLC: that the goroutine can always take another step until its end, and
  by the fairness of FairSpec takes it.
- `Induction` holds what the inductions over numbers, lists and finite sets rest on. An induction theorem with a predicate for a
  parameter cannot be cited, but one with a set can: `UpTo` says that a set of numbers that holds 0
  and the successor of each of its members below n holds 0 to n. It follows from
  `LeastNumber`, which in turn is the well-foundedness of finite subsets under inclusion.
  `RecursionExists` makes the functions that a LET defines by recursion available, and
  `AscendingExists`, `AscendingIsAll` the ascending sequence of a finite set.

To be reasoned about, some definitions say what they mean without an operator that only TLC
knows: `Trimmed` and `normalizeAddresses` are recursive functions instead of `SelectSeq` and
`FoldLeft`, `Ascending` and `Sorted` choose by the order instead of `SetToSortSeq`.

The assumptions are those the modules state for their constants (`DataAssumption`,
`LoaderAssumption`, `FeedAssumption`, `HotAssumption`, `DeliveryAssumption`), which TLC
evaluates in every run, as it does `PublishingAssumption`, `WatchersAssumption`,
`StoreAssumption`, `PaginationAssumption`, `CodesAssumption`, `GlobalAssumption` and
`SubscriptionsAssumption`. FileSearch and ProviderConfig are
instantiated, and `LibrariesAssumption` states theirs.

Only model-checked:

- all liveness (`CloseEndsGoroutines`, `WatchersCatchUp`, `StoppedWatchersLeave`, `CloseEndsRun`,
  `StoredMessagesSettle`, `CloseEndsLoops`, `ChangesArrive`, `CallbacksEnd`, `CloseEndsWatch`),
  which is out of the prover's reach; of the four properties about Close the theorems
  named `...RunDown` and `...RunsDown` prove what needs no fairness;
- `CallsGoOn`, which uses ENABLED. `CallsAreNeverStuck` proves its content with
  the guards written out.

The type invariants of ConfigLoader, Delivery and SourceWatchers are not among the
properties of the runs, because the theorems hold for every instance.

Every property has a mutated form of the code (the operators marked "Mutated form
of" in the modules, listed in `PROJECT.json`) under which TLC finds it violated.

## Not modelled, and the plan

Not modelled although it has goroutines: `WatchFunc`, which keeps a watcher of HotConfig and
stops it from a second goroutine.
Not modelled because it is data without control or pure I/O: encoders, tags, secrets,
logs, tracing, hand-over to the SQL, Redis and S3 client libraries, the text of
generated files, `addr` (a stateless selection among what the network interfaces report).
Torn reads of maps that `Set` edits while a value returned by `Get` is read are undefined
behaviour in Go and left out; so is the panic of two concurrent first calls of `Close`.
Of the sources: the watchers of systems other than Linux, a `kv.Watch` that returns an
error (it is dropped, and the goroutine would use a nil watcher). Of storage: presigned
URLs, which change nothing, and buckets named per call.

Known and stated by no property:

- of two services that start on a missing bucket at the same time one may fail,
  although the bucket exists afterwards (`CheckBucket` and `MakeBucket` contain it);
- `config.Close` does not close the loader it was given, whose goroutines stay; a
  `WatchFunc` opened before `InitDefault` goes on with the configuration that was replaced;
- the generator does not refuse a definition named like a function of another one (`NewA`
  beside `A`), and the package does not compile (the exception of `PackageIsConsistent`);
- `Download` has no limit, although `storage/config.go` line 21 speaks of objects read.

What remains, in this order:

1. `WatchFunc` over HotConfig.
2. Delivery of push and Core NATS subscriptions, and `InProgress`.
3. The typing of GlobalConfig, ServiceSubscriptions, Pagination and ErrorCodes as theorems of
   their own; so far it is part of their invariants.
