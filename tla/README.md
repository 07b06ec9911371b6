# nos-event-service in TLA+

The service crawls nostr relays, stores the events it is interested in and
hands each of them on: to Google Pub/Sub, and, for some kinds, to
relay.nos.social. These modules model the parts of it in which goroutines,
transactions, retries, crashes and time interact. TLC checks them on small
instances and TLAPS proves the main results for every value of the constants.

Paths below are relative to `src/`.

## 1. The system

```
 relays  <->  RelayConnections --(subscription channel)--> RelayDownloader
                    ^   ^                 ^                       |
        backpressure|   | SendEvent       | tasks                 | GoChannelPubSub
                    |   |            TaskScheduler                v
   EventSavedEventSubscriber                           ReceivedEventSubscriber
        |           ^                                             |
        v           | message                                     v
   ProcessSavedEventHandler <-- sqlite "pubsub" <-- SaveReceivedEventHandler
        |                                                         |
        +--> Google Pub/Sub      sqlite "events" <----------------+
        +--> relay.nos.social         ^
                                      +-- cleanup timer
```

| Component | State | Operations | What makes it correct |
|---|---|---|---|
| `SaveReceivedEventHandler` (`service/app`), `bloom.EventFilter` | two rotating Bloom filters | `Handle`: look into the filter; in one transaction look for the row, decide whether the event is wanted, save it, publish a message | an event is saved and queued together or not at all; one that was not saved can be offered again |
| `PubSub` (`service/adapters/sqlite/pubsub.go`) | table `pubsub` (uuid, payload, nack count, backoff) | `PublishTx`, `subscribe` (read, hand over, wait for ack or nack), `ack`, `nack` | at-least-once delivery; a message that keeps failing does not hold up the others |
| `ProcessSavedEventHandler` | none of its own | load the event; save relays and contacts; publish; send to the relay; mark as processed | an event is settled only after everything was done for it |
| cleanup timer, `CleanupProcessedEventsHandler` | `events.processed_at` | delete the rows processed more than an hour ago | deletes nothing that is still needed; rows do not accumulate |
| `TransactionRunner` | a channel of tasks | run one transaction at a time | a caller may give up, its transaction goes on |
| `TaskScheduler`, `RelayTaskGenerator`, `TimeWindowTaskGenerator`, `TimeWindowTaskTracker` (`service/domain/downloader`) | per relay: subscriptions; per query: next window, tracker (state, context) | `sendOutTasks` every 100 ms: drop finished subscriptions, generate tasks for every query, push them | no window is skipped, windows are asked for once they have elapsed, one task per query at a time |
| `RelayDownloader` | a goroutine per task | `performTask`: `GetEvents`, publish events, report EOSE or an error | reports to the tracker of its own task only |
| `Downloader` | running downloaders by relay | `updateDownloaders` | one downloader per known relay |
| `RelayConnection` (`service/domain/relays`) | connection state, subscriptions, events to send, rate limit | `Run`, `GetEvents`, `SendEvent`, `handleMessage`, `manageSubs`, `sendEvents` | every live subscription is requested on every connection; every requester of a sent event gets its answer |
| `RelayConnections`, backpressure | connections by address | get or create a connection, notify or resolve backpressure | a connection that is up is either read from or cut |
| `RateLimitNoticeBackoffManager` | notice count, time of the last change | `Bump`, `Wait` | the delay grows with notices and decays |
| `ContactRepository`, `RelayRepository` | contacts, followees, relays found in events | `SetContacts`, `GetCurrentContactsEvent`, `Save` | a list is replaced by a newer one |
| registration (`service/ports/http`, `AddPublicKeyToMonitorHandler`), sources of relays and keys | keys to monitor, a cache of them | `Save`, `GetPublicKeys`, `GetRelays` | what is asked for and kept follows registrations, contact lists and relays |
| `migrations.Runner` | status and saved state per migration | run the migrations in order | nothing runs on an incomplete schema; a start that failed can be repeated |
| `GoChannelPubSub` | subscriptions | `Subscribe`, `Publish` | no send on a closed channel, no event passed over before EOSE |
| `di.Service` | its runners | start all, stop all when the first one ends | no half-dead service |

Hard to test: the interleaving of the task goroutines with the scheduler's round;
a transaction whose caller has given up; a crash between any two steps of the
pipeline; messages that are delivered again after their event was cleaned up;
wakeups and answers that arrive between two critical sections. `PROJECT.json`
lists each of these hazards with its line.

## 2. Modules

| Module | Models |
|---|---|
| `EventDelivery` | what the event pipeline promises: accepted events stay pending until delivered |
| `SavedEvents` | the life of a row and of the messages that name it, which both halves of the handler implement |
| `EventPipeline` | saving, queueing, processing, retrying and cleaning up events, over the database |
| `EventPipelineProofs` | theorems about `EventPipeline` |
| `SequentialDownload` | what the scheduler promises: each query walks through the windows in order |
| `TaskScheduler` | the scheduler for one relay with its tasks and subscriptions |
| `TaskSchedulerProofs` | theorems about `TaskScheduler` |
| `SubscriptionChannels` | what `GetEvents` promises: the life of the channels it returns |
| `RelayConnection` | the connections to one relay one after another, its subscriptions, and the backpressure state |
| `RelayConnectionProofs` | theorems about `RelayConnection` |
| `SendPromise` | what `SendEvent` promises: whom an answer of a relay is given to |
| `SendEvents` | the calls of `SendEvent` on one `RelayConnection` |
| `SendEventsProofs` | theorems about `SendEvents` |
| `Knowledge` | what the service promises to know of keys, lists and relays, and to ask for |
| `Contacts` | what processing an event stores: relays and contact lists, over the rows of the database |
| `Discovery` | `Contacts` composed with registrations, the sources of keys and relays, and what the saver keeps |
| `DiscoveryProofs` | theorems about `Discovery` and `Contacts` |
| `Upgrade` | what the migrations promise to what runs after them |
| `Migrations` | the migrations of the database, started again after crashes and failures |
| `Service` | `Migrations` composed with the runners of the process, its shutdown and the in-memory pubsub |
| `ServiceProofs` | theorems about `Service` and `Migrations` |
| `MC...` | sets and symmetries for TLC |

Seven of them are abstract: `EventDelivery` and `SequentialDownload` are checked by
TLC as properties of a run and proved to be implemented; `SavedEvents`,
`SubscriptionChannels`, `SendPromise`, `Knowledge` and `Upgrade` are only the subject
of refinement theorems.

In every module a definition whose name begins with `Faulty` is a mistake the
code could have made. It is no part of the model; substituted for the definition
that follows it, it shows that a property notices the mistake.

### EventPipeline

Variables and their counterparts: `stored`, `processed`, `expired` are the rows of
`events` with their `processed_at`; `queue`, `backingOff` the rows of `pubsub`;
`current`, `previous`, `rotationDue` the two Bloom filters; `saverPc`,
`saverEvent` the `ReceivedEventSubscriber` goroutine; `consumerPc`, `inHand`,
`handling` the loop of `PubSub.subscribe` and the handler it waits for. `saved`,
`published` and `answered` are history.

The transaction runner executes one transaction at a time, so a transaction is one
step, with one exception: the transaction of the saver is open between
`SaveStages` and `SaveCommits`, because it changes the duplicate filter, which is
outside the database, before it commits. Each external call has three outcomes:
it succeeds, it fails without effect (`HandlerFails`), or it takes effect and its
answer is lost (the actions with the parameter `next`). The last one is also the
transaction whose caller gave up waiting (`TryRun`). A crash undoes the open
transaction, empties the filter and forgets what the goroutines were doing.

Abstracted: payloads; uuids (`Messages`, which bounds the length of the queue); time
(the elapsing of a backoff, of the retention period and of the rotation interval are
steps that may come at any moment); false positives of the Bloom filter (they are
`SkipDuplicate`); which events are wanted (`SaveGivesUp`) and which are forwarded
(`Forwarded`).

### TaskScheduler

`subscribed`, `done`, `subs` are the slice `taskSubscriptions` and the contexts of
its elements; `lastWindow`, `tracker` the `TimeWindowTaskGenerator` of each query
(`timeWindowTaskConcurrency` is 1, so it has one tracker or none); `pc`, `pos`,
`query`, `result` the place of the scheduler goroutine within `SendOutTasks`; `task`
the task objects in use; `downloaded` is history.

A round holds the lock of the relay's generator, so `AddSubscription` waits for its
end. What interleaves with a round are the tasks, each of which looks at its own
context (`ReceiveEOSE`, `TaskFails`) and then locks the tracker (`MarkAsDone`,
`MarkAsFailed`) in a second step, and the downloader, which cancels contexts.
`Generate` is two steps, `CheckTracker` and then `StartTask`, `NothingToStart` or
`RoundFails`, because the tracker is unlocked in between. `WithoutDone` is
`slices.DeleteFunc` as the code uses it, with its result discarded.

Time is counted in windows of a minute. A task whose context is cancelled does
nothing that anybody notices unless it is still in the hands of the scheduler or has
already looked at its context: only then is it kept (`Cancel`, `Matters`).

### RelayConnection

One `RelayConnection`, which is not the one to relay.nos.social. `runPc` and `message`
are the goroutine of `Run`; `managerPc` and `active` are `manageSubs` with its
`activeSubscriptions`; `channel` says which subscriptions are in the map and whose
channel is closed; `mutex` is `subscriptionsMutex` for the two that hold it for longer
than a step, the runner while it waits for a consumer and the manager while it writes.
`busy` are the consumers that are handling a value (`performTask`), `cancelled` the
contexts. `up`, `inbox`, `asked` and `served` are the network and the relay: what can
be read, what the relay was asked for on this connection, and what of it the relay has
not closed.

`monitor` is what the backpressure loop has decided to set: it reads the state in one
critical section and writes it in another, so the state may be another one by then. The
runner reads the state without its lock, and only once it has read a message.

`triggerSubscriptionUpdate` only wakes a manager that is at its select. This is why
`managerPc` tells apart `updated` (the lock is released) and `waiting`.

Abstracted: EVENT and EOSE take the same way and are both a `value`; messages that do
not concern subscriptions are left out; so are the sleeps for rate limits and between
connections, and the end of the process. A broken connection loses what has not been
read.

### SendEvents

The other half of a `RelayConnection`, which shares only the reader with the first:
`callPc`, `callEvent`, `expired` and `outcome` are the calls of `SendEvent` in
progress; `requests` is `eventsToSend`, where an event without requests has no entry;
`mutex` is `eventsToSendMutex`, which the runner keeps while it passes an OK to the
requests one after the other (`unserved`, `serving`); `senderPc` and `toWrite` are
`sendEvents`. The order of requests is left open, but the runner serves one at a time
and waits for it.

A caller leaves in two steps, `PassResponse` or `GiveUp` and then `RemoveEventChannel`,
for which it needs the lock; its context is cancelled only after that. A relay may
answer an event as often as it was written. `abandoned` and `written` are history.
`SendEvent` lets any number of callers send the same event, and so does the model; the
service sends one event at a time, and the workers of `send-all-events-to-relay` send
different ones.

What these two modules do not show about a connection because they look at one half each:
the reader may wait for a consumer of a subscription and for a caller of `SendEvent`,
one after the other. Both waits end on their own.

### Contacts and Discovery

`Contacts`: `row` is the table `events` by integer id, `processed` the events whose
row has `processed_at`, `older` the order in which they got it, `pending` the events a
message in the queue names; `handlerPc` and `handling` are `ProcessSavedEventHandler`;
`contactsEvent`, `followees` and `relays` are the tables `contacts_events`,
`contacts_followees` and `relays`; `current` is history. Here the ids of rows are
there, because `contacts_events` refers to them and they are given away again: `id` is
not `AUTOINCREMENT` and sqlite does not enforce foreign keys unless told to. The
queue, the publisher and the relay are left to `EventPipeline`: any call of the
handler may fail (`HandlerFails`), and its message comes again.

`Discovery` closes the loop. `monitored` is the table `public_keys_to_monitor`;
`client` a registration that waits for its answer; `cache` the keys in
`CachedDatabasePublicKeySource`; `downloaders` the set of running relay downloaders.
`SendOutTasks` is a round of the scheduler as far as the keys in its filters are
concerned (`AskedAuthors`, `AskedTags`), `UpdateDownloaders` one of the downloader,
`ReceiveEvent` all that happens between a relay's answer and the commit of the saver.
A relay may return any event, asked for or not. The crash keeps the tables and
nothing else. A message of a websocket that is no registration changes nothing.

Abstracted: the content of a contact list is the set of addresses it names;
`AddressOf` is `NewRelayAddress`; the kinds of which the code knows no difference are
one, "global" or "other".

### Migrations and Service

`Migrations`: `schema` are the tables, columns and indices there are; `status` the
table `migrations_status`; `phase`, `migration`, `statement` and `failed` the place of
`Runner.Run` and of the function it calls. Every statement is committed on its own,
and the process may die between any two (`Die`) and is started again. A statement may
fail because sqlite refuses it (`CanExecute`), which is not counted as a fault.

`Service`: `runner` and `cancelled` are the goroutines of `Service.Run` and their
context; `subscription` and `lock` the `GoChannelPubSub`; `busy` the
`ReceivedEventSubscriber` inside `Handle`; `taskPc`, `published` the tasks that publish
what they receive; `handed` and `missed` are history. `StartRunners` is one step: the
runners are goroutines that may be slow to begin, so a task may publish before
anybody has subscribed (`PublishToNobody`). The other runners than the two that are
named are alike: they run, fail, panic, or stop when told to. `Saved` never stops when
told to, since the channel it ranges over is not closed; this is why the shutdown of
the program always ends with its timeout.

Abstracted: what the runners do besides; the state a migration may save, since none
does.

## 3. Runs

| Run | Shows |
|---|---|
| `pipeline_safety` | two events, one of them forwarded, three messages, one crash: the invariants, the action property `RemovedOnlyWhenDelivered` and the refinement `DeliverySpec` |
| `pipeline_liveness` | one event can never be sent; the other is processed and cleaned up all the same |
| `pipeline_filter` (violated) | the duplicate filter remembers an event that was never saved |
| `pipeline_poison` (violated) | the handler is called for an event whose row is gone |
| `scheduler` | two queries, windows one after another, subscriptions that are replaced: the invariants, the refinement `SequentialSpec`, and that the last query downloads its windows in spite of failures and replaced subscriptions |
| `scheduler_orphan` (violated) | a live task is dropped before it is pushed |
| `connection` | two subscriptions, one message on its way, any number of connections: the invariants and that nobody waits for the lock for ever |
| `connection_wakeup` (violated) | a subscription that the relay is never asked for |
| `send_events` | two callers of the same event, answers that come twice or never: the invariants, and every call returns |
| `discovery` | a client registers a key, whose owner publishes two contact lists; rows are deleted, calls fail, messages come again, the process crashes: the lists that are kept, and that what is asked for follows registrations, contact lists and relays |
| `discovery_mentions` (violated) | a note that mentions a registered key is asked for and thrown away |
| `service` | from the first statement of the first migration to the shutdown, with three crashes or failed calls: the schema the runners find, the channel that is never closed under a publisher, windows whose events were handed over, and that the process neither hangs nor stays down |

**Bounds.** With two events and three messages one event has two messages while the
other one has its own, and a message outlives its row; that is all the queue can tell
apart. One crash can hit every point of both goroutines; a second one finds a state
the first one could have left, but for the history. In the scheduler time starts at the
end of the second window and ends a window later, so a query finishes one window, is busy
with the next and has one ahead that has not elapsed; two queries are what it takes for
a round to fail after it has started a task; with two subscriptions the slice holds the
same one twice after the first has been replaced. A stale tail with a finished
subscription takes three of them, and is covered by the theorems. TLC cannot use
symmetry with liveness, so new tasks take the first free identity (`FirstFreeTask`, an
action constraint that only drops renamings of the same step). Time ends, so
`LastQueryKeepsUp` can ask for all elapsed windows at once.
Two subscriptions let one consumer be busy while the runner holds the lock for the
other, and one be requested while the other is closed; one message that waits in the
network behind the one in the runner's hands is enough to have a message about a
subscription that has been removed. Subscription ids are used once, as ULIDs are, and
`FirstUnusedSub` drops renamings. Connections are not counted. `SendEvents` needs two
callers for one to give up what the other waits for, and one event, as events meet only
in the sender's hands; the theorems cover any number of either. Two unanswered copies
are as many as can be written for the same requests (`WrittenAtMostTwice`).
In `discovery` two lists of one author, the second of which drops what the first one
has and names a relay, are what it takes to find, follow and unfollow; two ids for
three events make rows be deleted and ids be given away again. Lists of two authors
under one id, which violate UNIQUE(event_id), and metadata are in the modules and in
the theorems, but not in this run. One crash forgets the cache, the downloaders and the
registration in progress at every point. In `service` three faults tear a migration, or
make a second start fail on what the first one left, or end a runner after such a
start; two tasks with two events each wait for the lock and interleave.

**Deadlock** is checked in every run.

**Fairness.** `EventPipeline`: a goroutine that can go on does; timers fire; a call
that is retried again and again succeeds in the end, except for the events in
`Stuck`, which the relay never settles; a message that can be read again and again is
drawn in the end, since `readMsg` draws at random. Nothing is assumed of crashes.
`TaskScheduler`: the scheduler's loop, the tasks and the downloader's refresh loop
keep running; a query that is asked for again and again gets EOSE in the end. The
last one is an assumption about the relay and the connection to it: the code has no
timeout for a task, so a request that is never answered occupies its query until the
subscription ends. `RelayConnection`: the goroutines of a connection and of its
subscriptions keep running, a goroutine that waits for a `sync.Mutex` is not starved
(strong fairness; Go's mutex hands itself over after a millisecond), consumers finish
with a value, and writes return. The last one holds only as long as the relay reads:
the websocket has no deadline for writes. The relay sends something for what it
serves. Nothing is assumed of dialing. `SendEvents`: contexts expire after
`sendEventTimeout`, callers and the runner go on, and the lock does not starve; nothing
is assumed of the relay, the sender or the connection. `Discovery`: the scheduler and the
downloader go round for ever (tickers), and a round comes again after the cache has
expired; nothing is assumed of relays, clients, the handler or the cleanup, and a read
that fails only delays a round. `Service`: the process is started again when it is down
(by whatever runs the container), works through its migrations, receives from `errCh`,
and the timer of the shutdown fires; runners need not notice anything.

## 4. Disagreements between the code and its comments

1. `handler_save_received_event.go:119` says "Add to filter after successful save";
   the id is added before the transaction commits. When publishing the message or
   the commit fails, the event is not in the database and yet refused as a
   duplicate until the filters have rotated twice (`pipeline_filter`).
2. `handler_process_saved_event.go:74` says "the event is already in the database".
   A message whose ack failed outlives the row of its event, cannot be handled and
   is retried for ever (`pipeline_poison`). It costs work, but no event: such an event
   was delivered (`PoisonIsDelivered`).
3. `scheduler.go:343` says "Each task generated will be pushed to all subscribers
   of the scheduler". When the generator of a later query fails, the live tasks of
   the earlier ones are dropped; nobody performs them, and while their context
   lives nobody restarts them (`scheduler_orphan`). The task of the last query
   cannot be lost this way (`LastQueryIsPushed`). The theorem `OnlyFailedRoundsOrphan`
   says that there is no other way to lose a task, and `OrphansBlockTheirQuery` how it
   ends: the query stays at its window until the relay is dropped, or a task of an
   earlier subscription answers late and takes the place of the lost one.
4. `downloader.go:342` says "Run the filter specified by the task and for each event
   found publish it to all subscribers". A subscription registered after `updateSubs`
   has released the lock and before `manageSubs` waits for a trigger is not requested:
   its trigger is dropped (`relay_connection.go:284`). It stays so until another
   subscription comes or goes or the connection is replaced (`connection_wakeup`,
   `UpdateRequestsEverything`). There is no other way to miss one
   (`OnlyTheGapLosesWakeups`). The gap is short but not unlikely: `updateSubs` holds
   the lock while it writes and waits for rate limits, callers of `GetEvents` queue
   for it, and a mutex that was waited for longer than a millisecond is handed to the
   next waiter at the moment it is released. A task this happens to is never answered:
   it is the case `TaskScheduler` excludes by its assumption about EOSE.
5. `README.md:13` says that the service replicates "events of any kind which include Nos
   users in their `p` tags". The scheduler does ask for them, by a filter on the tag, but
   `shouldBeDownloaded` (`handler_save_received_event.go:133`) looks at the kind and the
   author of an event only, and discards one of a stranger (`discovery_mentions`). What
   it asks for is less than meant, too: `filter.go:46` stores the tags of a filter by
   name, so of several `p` tags the last one is left.

Two more observations that no document contradicts. `AddProcessedAtColumn` is not
repeatable: when the process dies after its ALTER TABLE and before the status is saved,
the service never starts again (`Torn`; `StartsUnlessTorn` says that this is the only
way, and so do the theorems `RepeatableUnlessTorn`, `OnlyFaultsTear` and
`TornIsPermanent`). And "the newest contact list wins" holds only while the row of the
list that is kept has not been cleaned up (`NewerWinsWhileKept`): an older list that
arrives later than that replaces it.

## 5. Proofs

TLAPS checks every theorem for all values of the constants, from the ASSUMEs of the
modules alone.

`EventPipelineProofs`. The inductive invariant is the conjunction of the six
invariants that are checked and four facts that make it inductive: how far the
handler must have come when the consumer is at a given point (`HandlerProgress`: what
is past a call has had its effect); that an ack deletes a message of an event that is
settled (`AckIsHarmless`); that a staged event has neither row nor message
(`StagedIsNew`); and that a message names an event that is stored or was published
(`QueuedIsStoredOrDelivered`). `Preservation` has one step per action.
`RemovalMeansDelivery` and `ImplementsDelivery` follow from the invariant step by
step; a crash maps to a stutter of `EventDelivery`. Two consequences of the same
invariant are theorems of their own: an event whose message outlived its row was
delivered (`PoisonIsDelivered`), and nothing reaches the relay before Google
(`RelayComesSecond`). `ImplementsSavedEvents` maps rows and messages to `SavedEvents`,
as the theorem of the same name in `DiscoveryProofs` does: the two modules, which have
one half of the handler each, agree on what they have in common.

`TaskSchedulerProofs`. The inductive invariant adds to `TypeOK` and `NoWindowSkipped`
that a tracker is for the window just before `lastWindow` (`TrackerIsLast`), that a
live task is known to the tracker of its query (`TrackerKnowsItsTask`, from which
`OneLiveTaskPerQuery` follows), that a tracker that is done, and a task past EOSE,
are for a downloaded window (`DoneIsDownloaded`), and what a round has collected so
far (`RoundInProgress`, from which `LastQueryIsPushed` follows). The refinement of
`SequentialDownload` maps `next` to the first window a query has not finished.
An `Orphan` is a task that lives and was generated, and that neither the round nor a
subscription has. A tracker does not start a second task while the first one lives, so
the query of an orphan cannot move (`OrphansStay`); what ends it are the
cancellation of its context and a `LateAnswer`, the answer of a task whose context was
cancelled after it had looked at it.

`RelayConnectionProofs`. The inductive invariant adds to the four invariants that are
checked that nothing is asked for on a connection that is gone, and that the runner
waits only for the goroutines of such a one (`GoneMeansClosed`). `Connecting` is the
argument about one connection after another: `run` waits for the manager, and the
manager has released the lock when it ends. `Passing` is the one about channels: only
the runner changes anything while it holds the lock. `UpdatesAreComplete`, the
safety half of `UpdateRequestsEverything`, says that an update that has not failed ends
with the relay asked for exactly what is in the map. `OnlyTheGapLosesWakeups` is about
`HistorySpec`, which adds the variable `missed` to `Spec`: the subscriptions that came
or went while the manager was between the end of an update and its select. It
constrains no step; the invariant (`OnlyMissedDiffer`) is that outside an update the
relay's requests differ from the map in `missed` only.

`SendEventsProofs`. The inductive invariant consists of the seven invariants that are
checked, that a response with good news comes from the relay (`ResponseIsHonest`), and
a count of what can still be written for an event (`WritesAreCounted`), from which
`WrittenAtMostTwice` follows. `RequestsAreCallers` is what the others rest on: it tells
that the first caller of an event finds nobody who offers it, and that the runner
serves callers of the event its response is about. That a call returns although the
runner may hold the lock and wait for it is liveness, and only checked
(`CallsReturn`): without the `ctx.Done` in `passSendEventResponseToChannel` the two
would wait for each other for ever. What is proved instead is `Served`: whoever shares
the event of the response and is not among those still to be served has an answer or
no time left. `EveryCallerIsTold` is its last instant, and it is the step in which the
refinement of `SendPromise` forgets what it heard. A reader of `SendPromise` sees
neither connections nor the sender, and no lock.

`DiscoveryProofs`. The inductive invariant adds to the types that an author whose list is
recorded has a current one, and that the followees in the table are those of that list
(`CurrentIsRecorded`). `NewerContactsWin` follows step by step: of all actions only
`StoreRelaysAndContacts` sets contacts, and a row that is still there is the one it
compares with. The safety halves of the liveness properties are proved too:
`RoundsAskForTheWanted` says what a round asks for, and together with
`FolloweesAreThoseOfTheLists` what is left of `AskedKeysConverge` and
`RegisteredKeysAreAsked` is that a round comes; `DownloadersKeepRunning` and
`DownloadsFromUsable` leave of `KnownRelaysAreDownloaded` that a refresh comes.
`ListsAreTheAuthors` says that the tables hold one whole list of the key's owner, in
spite of ids that are given away again. `ImplementsKnowledge` hides all of that: a learned list
replaces one of the same author, what happens to rows, messages and the cache is a
stutter, and a crash only ends what is asked for (`AskNothing`).

`ServiceProofs`. `MigrationsInv` tells what is in the schema by the place of the runner:
a finished migration is carried out, one that is being executed up to its next
statement, and all before it are finished. `RunnersFindTheSchema` follows, as the
runners come after the last status. `PubSubInv` says that a publisher that offers an
event holds the lock and that the subscription is open, and counts what each task has
handed over; a subscription is removed only by the end of the context
(`LockIsReleased`: nobody keeps the lock who does not offer). `RunnersInv` says that a
runner that has ended left an error to collect (`FirstErrorIsCollected`). The steps of
the migrations, of the runners, of the subscription and of the tasks are lemmas of
their own. `ImplementsUpgrade` needs `NotAgain`, that a migration that is finished is
never carried out again. What a start can fail on is settled by three theorems about the
position of every statement (`StatementPositions`): a statement that is refused is one
of a torn database (`RepeatableUnlessTorn`), only a fault within the last migration
tears it (`OnlyFaultsTear`), and nothing mends it (`TornForGood`, `TornIsPermanent`).

Only model-checked: liveness (the prover has no support for fairness and ENABLED),
of which the theorems named above hold the safety half, and the five violations, which
are counterexamples; of three of them a theorem says what they cost or that they have
no other cause.

## 6. Plan

In order of importance; each with its own invariants, refinements where there is
something abstract to say, and proofs.

1. `EventPipeline`: done.
2. `TaskScheduler`: done.
3. `RelayConnection`: done, with the states and backpressure of one connection.
4. `SendEvents`: done.
5. `Contacts` and `Discovery`: done.
6. `Migrations` and `Service`, with the in-memory pubsub and the shutdown: done.
7. The two halves of the handler, `EventPipeline` and `Contacts`, tied by `SavedEvents`:
   done.
8. What is left to compose: `TaskScheduler` with `Service`, to follow an event from the
   window of a query to the commit of the saver.

## 7. Not modelled

- `RateLimitNoticeBackoffManager` and the backoffs: from a counter and a time follows
  the length of a sleep, and in the models a sleep may take any time. That its counter
  is read and changed in separate atomic operations is in the list of hazards.
- The buffers of the network: a write to a relay that does not read returns all the same.
- The data race on the map of `RelayConnections`: the runtime may end the process for
  it, which is a crash that may come at any time (`EventPipeline`, `Discovery`).
- Metrics, logging, configuration, dependency injection, and the endpoints that only
  read: nothing depends on what they write.
- Value types beyond what tells events, keys and addresses apart, and the library that
  checks signatures.
- `send-all-events-to-relay`: a maintenance program that reads events over an HTTP
  endpoint the server does not have and sends each with `SendEvent`, which is modelled.
