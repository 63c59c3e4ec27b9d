# Verification of "Start With Go"

The repository is a Go workspace of about forty independent modules, most of them
answers to course exercises. It has no single program, so this project takes the
modules that carry real logic of their own (state shared by goroutines, locks,
channels, network connections, a database, eviction, arithmetic at its limits, and
the sequential structures with long-lived state), models each of them in TLA+, checks
the models with TLC on small instances and proves the most important invariants with
TLAPS for every value of the constants.

    tlc -config MCTopic.cfg MCTopic        check one instance
    tlapm TopicProofs.tla                  check the proofs about the topic

Every `*Proofs.tla` is checked the same way, and every run of `PROJECT.json` names
its module and its `.cfg`.

## 1. Inventory

### Message broker (`message-broker/`)

A JSON-over-TCP publish/subscribe server. Its parts and their state:

| part | state | operations |
|---|---|---|
| `queue.MessageQueue` | slice of messages with priority, sequence number, index | `Less`, `Swap`, `Push`, `Pop`, called by `container/heap` |
| `server.Topic` | the heap, `seq`, `subscribers` with their join sequence, the one-slot channel `notify` | `topicLoop` (one dispatcher goroutine), `popMessage`, `snapshotSubscribers` |
| `server.Server` | listener, registries of clients and topics, `stopCh`, `stopOnce`, `wg` | `Run`, `Stop`, `GetTopic`, `handleClient`, `removeClient` |
| `server.Client` | connection, encoder behind a lock | `Send` |

`Run` accepts connections and starts a handler per connection. A handler decodes
one request after the other; publish pushes on the heap of a topic under the
topic's lock and puts a token in `notify` without blocking; the dispatcher wakes,
pops until the heap is empty, and writes every message to a snapshot of the
eligible subscribers, sharing each client's write lock with the client's own
handler. `Stop` (from the program or from a `shutdown` request) closes `stopCh`,
the listener and the registered connections, and waits for the goroutines.

Hard: coalescing wakeups, priority order while publishes overlap with pops,
recipients that leave between snapshot and write, slow clients, two handlers
creating one topic, and everything about `Stop` racing `Run`.

### old-school

A JSON-over-TCP school administration over SQLite. State: the tables, one pooled
connection, the listener, the `sync.Once` of the initialisation. Each connection has
a handler goroutine that runs one of five methods, each a sequence of SQL
statements; only adding a student to a class uses a transaction. Hard: statements
of different connections interleave; with a single connection a wrong statement
deadlocks; statements fail in the middle; initialisation fails once.

### mini-redis

A cache with time to live, capacity and least-frequently-used eviction behind one
lock. Hard: expiry against capacity, ties in an iteration of random order, the clock
moving inside a call.

### smart-thermostat

Rooms, each with a lock, and a goroutine per started fan that moves the temperature
once a second. Calls release the room's lock, then decide from copies, then lock
again. Hard: other calls and ticks between the two critical sections, a fan stopped
and restarted within a tick.

### game-server

Players and maps; a switch holds the game's lock and the locks of two maps; one
fan-out goroutine per map holds the map's lock while it offers a message to each
player; sending reads the player's map without a lock. Hard: lock order, slow
readers, the unlocked reads.

### quli-airpods

A case, two pods with a lock each, and a goroutine that forwards the phone's bytes.
Hard: `Undock` reads `btConnected` without its lock; the forwarder checks states and
sends later; its sends block.

### calculator-api-net-dial, calculator-api-net-http

Adding and subtracting lists of `int64` over TCP and HTTP, with overflow checks made
in `int64` arithmetic. Hard: the limits of the type.

### Smaller concurrent programs

| program | state | operations | hard |
|---|---|---|---|
| `heterogeneous-input-output` | futures: a channel of one value and a `Done` flag | `Async`, `AsyncWithTimeout`, `Await`, `CombineFutureResults` | the result and the timer ready together; one value, several receivers; a flag that is set late |
| `tiktak` | a one-slot and an unbuffered channel | two loops that print in turns | who starts, who ends |
| `golang-implementation` (`Qutex`) | a one-slot channel | `Lock`, `Unlock` | an `Unlock` by somebody else, or of a free lock |
| `online-library` | a Go map of books | POST, GET, PUT, DELETE handlers, one goroutine per request | no lock: look-up and store of different requests interleave |
| `junk-shop-queue` | a slice, an index, what each client saw last | a goroutine per client: info, sell, buy | no lock: check and increment, load and append |
| `treasure-tracker` | an interval, a point | `FindTreasure`, against the judge of its tests | a budget of questions logarithmic in the ground |

### Sequential programs

| program | state | operations | hard |
|---|---|---|---|
| `tested` | working directory, commits, staged files | directory edits, `Add`, `AddAll`, `Commit`, `Checkout`, `Status`, `Log` | directories shared by pointer |
| `phone-book` | a map of contacts | `AddContact`, two removals, the choice of catchy numbers | deleting while ranging over a map; ties |
| `text-editor` | two stacks | insert, delete, backspace, moves | one stack is upside down |
| `airplane-hangar` | two nests of aircraft, queues of usable parts | `Repair` | a part is a pointer that must leave one place as it enters another |
| `airport` | flights, a sweep | the "admin" question | events at one moment |

The remaining directories are bookkeeping exercises, pure functions, single-request
clients of web services and teaching samples; section 7 and `PROJECT.json` name them.

## 2. Modules

| module | models | composed with |
|---|---|---|
| `Topic` | a topic, its dispatcher and its clients' handlers | implements `PubSub`; takes the heap as `PriorityQueue` describes it |
| `PubSub` | what a topic promises: owed to whoever was subscribed at publication, sent at most once | |
| `MessageQueue` | the array and `container/heap` on it, an exchange per step | implements `PriorityQueue` |
| `PriorityQueue` | pop removes the first message in the order of `Less` | |
| `ServerLifecycle` | `Run`, handlers, dispatchers and `Stop` | shares the conventions of `Topic`, abstracts its messages |
| `MiniRedis` | `mini-redis/main.go` | |
| `School` | `old-school` | |
| `Thermostat` | `smart-thermostat/main.go` | |
| `GameServer` | `game-server/main.go` | |
| `Airpods` | `quli-airpods/main.go` | |
| `Calculator` | both calculators | |
| `Futures` | `heterogeneous-input-output/mian.go` | |
| `TikTak` | `tiktak/main.go` | |
| `Qutex` | `golang-implementation/main.go` | |
| `Library` | `online-library/main.go` | |
| `Shop` | `junk-shop-queue/main.go` | |
| `Treasure` | `treasure-tracker/main.go` and the judge of `main_test.go` | |
| `VersionControl` | `tested/commands`, `tested/workdir` | |
| `PhoneBook` | `phone-book/main.go` | |
| `Editor` | `text-editor/main.go` | implements `TextBuffer` |
| `TextBuffer` | what an editor promises: a text and a cursor | |
| `Hangar` | `airplane-hangar` | |
| `Airport` | `airport/main.go`, the admin question | |
| `TopicProofs`, `MiniRedisProofs`, `ServerLifecycleProofs`, `SchoolProofs`, `GameServerProofs`, `AirpodsProofs` | the proofs (section 5) | each extends the module it is named after |
| `ConcurrentProofs` | the proofs about the smaller concurrent programs, one section each | extends `MCGoroutines`, and with it the six programs, and `Thermostat` |
| `SequentialProofs` | the proofs about the sequential programs, one section each | extends `MCSequential`, and with it the seven programs |
| `MCTopic`, `MCServerLifecycle`, `MCMiniRedis`, `MCSchool`, `MCThermostat`, `MCGameServer`, `MCAirpods` | the instances for TLC | each extends the module it is named after |
| `MCSequential` | one after the other: the broker's heap and the sequential programs | extends `MessageQueue`, `Calculator`, `Editor`, `VersionControl`, `PhoneBook`, `Hangar` and `Airport` |
| `MCGoroutines` | one after the other: the smaller concurrent programs | extends `TikTak`, `Futures`, `Shop`, `Library`, `Treasure` and `Qutex` |

The `MC` modules name sets and symmetries for the `.cfg` files. The two joint ones
also choose, in the first state, which program runs; the others' variables then stay
as they are, so that the states are the sum and not the product of the programs'.
Definitions that model code carry the names of the source where they can; `PROJECT.json` gives
each one's lines. Some operators come in two forms, the code's and a plausible slip
of the same code (`Eligible` and `EligibleAll`): the slip is never used by a
specification, it shows that the property would notice.

### How state and steps correspond to the code

*Granularity.* A step is what happens between two scheduling points: a critical
section, a channel operation, a write to a connection, an SQL statement. Where code
reads shared state without synchronisation (`Player.m` in game-server, `btConnected`
in quli-airpods, `Server.ln` in the broker) the model lets the read return either
value, or splits the step where the race is.

*Topic.* `hpc` and `dpc` are the program points of the handlers and of the
dispatcher, `recips` and `cur` the rest of its snapshot and the client being written
to. The order of a range over a Go map is a nondeterministic choice. A socket is the
number of unread JSON values, at most `Window`; a write to a full one waits, a write
to a closed one fails and the error is ignored, as in the code. `audience`,
`poppedAt` and `delivered` are history variables. `Subscribers`, `Publishers`,
`Faulty` and `Readers` restrict what each client does, to keep instances small.
`Stop` is only its signal here: what it does to connections is in `ServerLifecycle`.

*ServerLifecycle.* One program counter for each of `Run`, every handler, every
dispatcher and `Stop`; `wg` is the WaitGroup's counter. A handler that has never
decoded a request is `fresh`: on a closed connection a decoder may still deliver
requests it had read before, but a fresh one has none. `late` records connections
registered after the snapshot of `Stop`. A subscription is kept twice, as in the code:
`subs` is what the client has (`Client.subs`), `subscribers` what the topics have;
`removeClient` moves the first to `leaving` and then takes the client out of those
topics one by one, in any order (`LeaveTopic`). The run has one topic; that an
ended handler has left every one of several is proved (`LifecycleInvariant`). `net.Listen` may fail (`ListenFails`), and so may
`Accept`, on an open listener too (`AcceptError`).

*School.* Tables are counters, a sequence and a set of pairs; `owner` is who holds
the only pooled connection across statements. A statement outside a transaction
needs it free. Any statement may fail: most failures are a refusal and, in a
transaction, a rollback (`StatementFails`). Two end otherwise. After a failed `Commit`
the deferred `Rollback` does nothing, and the row may be there or not (`CommitFails`).
And a list that fails while its rows are read is answered with success: no loop over
`rows.Next()` asks `rows.Err()` afterwards, so the answer has only the rows read so far
(`Read`, the initial parts of the list in the order of the query). `NilDatabase` is the nil dereference that
follows a failed initialisation.

*MiniRedis.* Methods are atomic because the lock is held throughout; `Set` reads the
clock twice, so its second reading is chosen from the first one on.

*Thermostat.* `caller[c]` is what a call still has to do after it unlocked the room;
`fans[r]` counts the live fan goroutines, two and more of them when a fan was stopped and
started within a tick. `emptied[r]` is a history variable: the room was empty since its
fan was started.

*GameServer.* A switch takes its locks one by one (`locks` is what is left to take);
the fan-out is a recipient at a time while it holds the map.

*Calculator.* `Wrap` is Go's `int64` arithmetic for a symbolic `MaxInt`; `exact` runs
the same fold over the integers.

*Futures.* `given` is all that was ever sent on a future's channel, `resultChan` what
is still in it. A `select` is two actions that may both be enabled. `StoreDone` is
a step after the send, as in the code.

*Shop, Library.* Nothing orders the goroutines, so every load and store of a shared
variable is a step. `overlapped` records that two handlers were at work at a time
(for the library, for one book): it is what the clients could have avoided. Appends that
overlap in the shop may write into one array: the slice a sale stores has, at each index,
a painting that some handler's slice has there (`InSharedArray`).
`ConcurrentMapAccess` is the Go runtime's fatal error.

*Treasure.* A step is a question or an answer. The judge, from the test file, is
modelled with its border checks and its count of questions; that it never refuses is
an invariant and not an assumption.

*Qutex.* `holding` is who called `Lock` and not `Unlock` since; anyone may call
`Unlock`, as in the code.

*VersionControl.* A `*WorkDir` is an index into `heap`, so that two names for one
directory differ from two equal directories. The caller may edit the tracked
directory and every directory `Checkout` gave it (`checkouts`, an identity in `heap` as
returned, whatever it is: a `Checkout` that returned a snapshot would let the caller edit
it); nobody else's.

*PhoneBook.* The removal of duplicates visits the names in any order, deleting as it
goes. A number is a sequence of characters, since scores compare neighbours. The sort
of the catchiest may leave equal numbers in any order (`Orders`), as `sort.Slice` may,
and `BestThree` says of an index that the loop after it stops there.

*Hangar.* A part is named after the slot that had it first; the queues hold the nils
of empty donor slots too. `Repair` has four loops, over the old nest, the new one and
both again (`stage`), and a step is what a loop does for one slot; `slotsLeft` is what
is left of its range.

*Airport.* The sweep, an event per step, of those left any that none of the others
has to come before: `sort.Slice` is not stable. The regular expressions are modelled by the flights they find, those that do not parse included.

*Editor.* `TextBuffer` is one text and a cursor; the editor's two stacks map to it by
turning the right one over.

## 3. Runs

| run | instance | what it shows |
|---|---|---|
| `topic` | two clients, one publishes, one subscribes and may break, two priorities, two messages, sockets of one value | no message is stranded by coalescing tokens; the inductive invariant, types and priority order with it; `Topic` implements `PubSub` |
| `topic_live` | two messages; one client publishes, subscribes and reads, one subscribes and never reads | messages reach whoever stays unless the dispatcher is waiting for a client that does not read; a publisher that reads is never held up, although the dispatcher may be blocked on the other client when it publishes again |
| `server` | two connections, one topic, `Stop` at any time | the WaitGroup counts exactly the live goroutines, one dispatcher per topic, a handler leaves nothing behind (`Inv`); after `Stop` nothing serves; `Stop` and `Run` return, except in the cases below |
| `redis` | three keys, two slots, times to live of one second and of none | capacity, distinct insertion numbers, a unique victim (`Inv`); valid entries are never sacrificed to expired ones; no stale read |
| `school` | two connections, up to two rows of each table, failures and a restart | a student is in one school, nobody is served without a database but after a second `Start` (`Inv`); an enrolment answered with success is stored and its list true as far as it goes; the handlers never all wait for the connection |
| `thermostat` | one room, two callers, temperatures 0 to 3, eight calls | a fan at its target is being stopped, and a fan that is on has a goroutine unless its room was empty (`Inv`); a fan that stays on brings its room to the target |
| `game` | two players, two maps, two callers, channels of one | registries agree with players (`Inv`); delivery only within the map; nobody is held up by a player who does not read |
| `airpods` | two callers, three bytes, channels of two | no pod is left unconnected, order and at most once (`Inv`); every byte is taken |
| `sequential` | seven programs: six messages of three priorities; three-bit integers, three tokens, both calculators; one path, two commits, four directories; four names, six numbers; two donor and one repaired aircraft with every set of missing parts; three flights over six times; texts of five characters from two | the array is a priority queue; overflow checks are exact; checkouts restore, `Status` tells what a commit would record; the first of duplicate contacts stays whatever the map's order, the catchiest numbers are chosen with their ties; no part is lost or doubled and no possible repair left out; the number of runways; the editor implements `TextBuffer` |
| `goroutines` | six programs: four rounds; two timed futures and a plain one, two of them combined; two shop clients, two paintings, three sales; two books, two readers; every ground up to seven by seven; two goroutines at the lock | words alternate and the line is printed; a future has one answer for one receiver and gets it; each painting is sold once and answers about a book agree while requests do not overlap; the treasure is found within the budget; the lock excludes while only holders unlock |
| `server_hang` | one connection, no topic | **violated**: `Stop` returns |
| `school_both` | two connections | **violated**: nobody is both teacher and student |

Each property of a passing run has a mutant in `PROJECT.json`: one definition of the
model replaced by the slip named there, which the run then refutes.

### Bounds

Bounds are constants of the modules and appear in guards: `MaxSeq`, `MaxRequests`,
`MaxStarts`, the row limits of `School`, `MaxTime`, `MaxGets`, `MaxCalls`,
`MaxSent`, `MaxSwitches`, `MaxBytes`, `MaxTokens`. Two actors of each kind are the
least that race; two messages of two priorities the least that can be inverted;
six messages give the heap three levels; two slots and three keys the least that
evict with a choice; a full socket or channel is reached with one or two places;
three bits hold both limits of the integer type, zero and a value strictly between.
Where the interesting number is the size of a set of clients or the width of an
integer, the proofs of section 5 remove the bound.

Of the joint runs: two commits are the least that a reference can tell apart, and four
directories leave room for a checkout of each; two numbers that differ in their
prefix only are the least that duplicate, and four names the least that tie beyond
the third; two wings in the repaired aircraft compete for the donors' engines; seven
by seven makes every branch of the bisection happen in both coordinates, but for the one
of two equal distances (`treasure-tracker/main.go:77-85`), which neighbouring points never have; and the
least grounds, where a side is one, are there as well.

`topic_live` bounds the behaviour as well as the constants (`LiveNext` of `MCTopic`), so
that a second message fits: clients subscribe before the first publish, and the client
that does not read does not send a close request. With one message the publisher would
find the dispatcher in its select or gone; with two it publishes while the dispatcher
writes to the slow client, and a third token would find the slot as the second does.
Subscribing late and coming back is `topic`'s subject. No step that `Fairness` speaks of
is taken away. In `thermostat` eight calls are enough to start a fan,
stop and start it before the tick, let both goroutines move the room, and push the
temperature away again while one of them is at work.

Deadlock is not checked where the system may legitimately stop: all clients have
left, the server was stopped, every goroutine has returned, or the bound on calls is
used up. `MCAirpods` does check it.

### Fairness

Goroutines that can run do run (weak fairness of their steps), and a lock that is
released again and again is obtained: Go's mutexes hand themselves to the longest
waiter (strong fairness of `Deliver`, and of the lock steps of `GameServer`). A
select picks a ready case sooner or later, and a heap that is popped again and again
becomes empty (strong fairness of `ExitLoop` and `Drained`). Nothing is assumed of
peers, except of the clients in `Readers` and of the two users of the pods: they keep
reading. A blocked read or write returns for certain only on a closed connection.

The smaller programs assume no more: the two goroutines of `TikTak`, the futures'
workers, timers and combiner, and the tracker with its judge run when they can. A
task need not return, and nobody need await a future: `Answered` (in the run,
`FuturesAnswered`) says what holds
nevertheless. Nothing fair is assumed of `Shop`, `Library` and `Qutex`, whose
properties are safety. In `Thermostat` the ticker of a live goroutine ticks and a call
that has begun ends; nobody need make a call, and the calls that push a temperature away
from its target are finitely many (`MaxCalls`), without which no fan need ever arrive.

## 4. Findings

* `server_hang`. `Stop` promises to close all client connections and to wait for the
  goroutines (`server.go:187-193`). A connection that `Accept` returned before the
  listener was closed, and that `Run` registers (`server.go:174`) after `Stop` took
  its snapshot, is closed by nobody; its handler waits in `Decode`, and `Stop` waits
  for the handler. `StopReturnsUnlessLate` shows that this is the only way in
  which `Stop` hangs.
* `school_both`. `entity.go:46` says that a person cannot be both teacher and
  student. `handleCreateClass` checks and inserts in separate statements; an
  enrolment of the same person fits in between (`handlers.go:259`).

Further departures of the code from its documentation, seen in the models and not
given runs of their own:

* If `Stop` reads `s.ln` before `Run` stores it (`server.go:144`, `213`), the
  listener stays open and `Run` goes on accepting. `RunReturns` is stated for a
  stored listener.
* `wg.Add` comes after the registration of a connection (`server.go:179`), so `Stop`
  may return just before such a handler starts; it ends at once. `StopSilences` says
  exactly what may be left.
* ARCHITECTURE.md says that new subscribers never see older messages. A client that
  is in a snapshot, unsubscribes and subscribes again before its turn is sent a
  message older than its new subscription; `PubSub` lets it, since the message was
  published during the first one.
* If the first `Start` of old-school fails to open its database, a second one gets
  no error (`storage.go:19`), listens, and the first request ends the process.
  `FirstFailureReported` says that it takes that second call: the `Start` that fails
  returns its error and never listens.
* old-school: no loop over rows asks `rows.Err()` (`handlers.go:534-543`, `640-647`,
  `659-666`), so a query that fails while it is read is answered with success and a
  truncated list: an enrolment may be confirmed without the class just joined, and a
  teacher whose list broke off at once is answered as a student. `AnswerIsTrue` says what
  holds nevertheless.
* smart-thermostat: a fan goroutine that finds its room empty ends without clearing
  the running flag (`main.go:295`), and a fan stopped and started within a second has
  two goroutines, which change the temperature by two degrees a second against
  `main.go:259`. The reports of `GenerateReports` follow the flag. `OnMeansDriven` and
  `FanReachesTarget` except rooms that were empty for the first reason, and hold whatever
  the number of goroutines.
* quli-airpods: a byte is sent to a pod that was docked after the check
  (`main.go:236`). A pod that is out of its case, connected and not listened to fills its
  channel and stops the forwarder, and with it the other pod, for ever
  (`main.go:245`): `EveryByteTaken` is stated for users who listen.
* heterogeneous-input-output: `Done` is set after the result was sent
  (`mian.go:36`), while `mian_test.go` reads it right after `Await`; combining takes
  the inputs' only values away, and the combined future's `Done` is never set.
* junk-shop-queue: with overlapping handlers one painting is sold twice, or one is
  skipped; an append is lost; `firstUnsold` goes back; the index may leave the slice
  and end the process. `SellsEachOnce` says what survives (`firstUnsold` never passes
  more paintings than were sold) and what holds as long as handlers do not overlap.
* online-library: two borrowers of one book, a deleted book that a return brings
  back, and the runtime's fatal error, all only with overlapping requests
  (`AnswersAgree`).
* golang-implementation: whoever calls `Unlock` frees the lock, the holder or not.
* tested: a file staged, then edited back to the committed contents, is not listed as
  modified since its staging; `Commit` records the whole directory, staged or not.
* phone-book: `FindCatchyPhoneNumbers` panics on a number shorter than two
  characters; `BookTypeOK` shows that only a book with invalid numbers does.
* airplane-hangar: an empty donor slot is queued as a usable part, and the new slot it
  meets stays empty although later parts were usable; `NothingSpared` is stated for
  kinds whose donor slots were all filled.
* treasure-tracker: after the judge has ended, the tracker's goroutine waits for ever.

## 5. Proofs

`TopicProofs` proves about `Topic`, from `TopicAssumption` alone (a non-empty set of
clients, integer priorities, a bound on publishes that may be any number):

* `TopicInvariant`: `Spec => []Inv`. `NoInversion` is not inductive: to show that the
  next write respects the order one must know that what is still queued comes after
  what has been popped, unless it was published later. `Inv` adds this: a queued
  message has not been popped and its number is new (`QueueInv`); whatever is queued
  is in order with every delivered message (`DeliveredInv`) and with the message in
  flight, which none of the remaining recipients has (`InFlightInv`); a subscription
  that is old enough for a message was already there when the message was published
  (`SubscriptionInv`). One lemma per part shows that every step keeps it.
* `TypeCorrect`, `PriorityOrder`: the parts of `Inv` a reader wants.
* `NoMessageStranded`: `NoLostWakeup`, by an induction of its own: whoever pushes is at
  `notify` next, and the dispatcher only goes back to its select with an empty heap.
* `TopicImplementsPubSub`: every step of `Topic` is a step of `PubSub` or leaves its
  variables alone; a write is a delivery because of `InFlightInv`.

`MiniRedisProofs` proves about `MiniRedis`, from `RedisAssumption` alone (any capacity,
also zero or negative, and any bounds):

* `TypeCorrect`, `CapacityKept`, `InsertionDistinct`: consequences of one inductive
  invariant, `IInv`, whose core `Sound(m, s)` speaks of a table and not of the variable,
  because `Set` passes through intermediate tables (cleaned, then evicted from, then
  inserted into). One lemma per operation on tables shows that it stays sound, and
  `EvictSound` that a full table has room afterwards.
* `VictimUnique`: among the least read entries, the one with the least insertion number
  (`Least` applied twice); distinct insertion numbers make it the only one.
* `ReadsFresh`: an entry agrees with the last `Set` of its key (`Agree`), and only a Get
  that hits raises a count; every other step drops entries, or stores one.
* `ColdestDropped`: cleaning leaves exactly the live entries (`CleanedIsLive`) and an
  eviction drops the coldest of them (`EvictsColdest`), so a `Set`
  drops an entry that could still be read only when live entries take every slot.
* `CacheInvariant` joins the first four for the invariant that the run checks.

`ServerLifecycleProofs` proves about `ServerLifecycle`, for any finite sets of
connections and topics:

* `LifecycleInvariant`: the WaitGroup counts exactly the live handlers and
  dispatchers, a topic has one dispatcher, and an ended handler leaves nothing behind.
  None of the three is inductive. `RunInv` says that the connection `Run` holds
  has no handler yet, `HandlerInv` that only accepted connections have one and that a
  topic has a dispatcher from its creation, `LeaveInv` what each clean-up step has
  done, topic by topic. The counter is an argument about cardinalities: a step adds one
  element to a finite set of live goroutines, or removes one (`FiniteLive`,
  `StepWaitGroup`).
* `StopIsSilent`: a counter of zero means that nobody is alive; the handler that `Run`
  may still start is, by `SnapshotInv`, one whose connection `Stop` has closed, unless
  it is in `late`.
* `StoppedForGood`: from then on nobody is subscribed and no step serves anything, an
  invariant and an action property. A handler has no subscription before its first
  request (`SubsInv`) and `Wait` ends only when the others have ended; the handlers that
  `Run` may still start can decode nothing (`StoppedHandlers`), so no step but a clean-up
  is left to them (`StoppedStep`).
* `StopNeedsNoPeer`, what `StopReturnsUnlessLate` rests on: while `Stop` waits, unless a
  connection was registered behind its back, every handler it waits for and every
  connection a dispatcher writes to is closed, or its handler is about to close it. A
  handler is in the registry, and so in the snapshot, until it takes itself out; and a
  dispatcher writes only to connections that have or had a handler (`PeerInv`). TLC
  refutes the simpler claim that they are all closed.

`AirpodsProofs`, for any number of callers, any capacity and any number of bytes:
`CaseInvariant`. Order needs the byte in hand: all that a pod has heard is older, and
the byte itself is in its channel only once its send is over (`HandInv`); the record
of the forwarder changes its shape from step to step (`ShapeInv`). That no pod is left
unconnected follows from what `Undock` may still read.

`SchoolProofs`, for any number of connections, requests and rows:

* `SchoolInvariant`: `OneSchoolPerStudent` is not inductive. `Checked` says what a
  handler has established so far and why nothing undoes it: rows are only added
  (`Grows`), and while a transaction owns the connection nobody else writes, so that
  "enrolled nowhere else" still holds at the commit. `Others` is that argument for the
  handlers a step is not about, once for all steps; `Method` ties a statement to its
  request.
  `FirstFailureReported`, its last part, is an induction of its own: the database is
  set by the first `Start` or never, and whoever is served without it came through a
  later one (`StartInv`).
* `AnswersAreTrue`: at the query after the commit the row is there and stays (`Checked`),
  what the query gave before it broke off is an initial part of the student's classes,
  and the rest is `OneSchoolPerStudent`.
* `NobodyWaitsForHimself`, the part of `SomebodyCanRun` that needs no `ENABLED`: who
  waits for the connection waits for another handler, which is inside a transaction and
  runs its next statement on the connection it holds. `MayRun` spells out when a busy
  handler has a step.

`GameServerProofs`, for any players, maps, callers and capacities:

* `GameInvariant`: a map's registry is always the players whose map it is
  (`Registered`), as the move is one step; the locks are what keeps a map's fan-out
  from seeing it.
* `DeliveredThere`: what a fan-out has still to offer are members of its map
  (`FanInv`). A switch could take one away, but has the locks of both its maps by the
  time it moves: those it has not yet are in its list (`SwitchInv`), and two switches
  never run at a time.
* `NobodyWaitsInACircle`, what the comment at `main.go:140` claims of the order of
  locks: who waits for the game's lock waits for a switch, a switch at most for a
  fan-out that is offering a packet (which waits for nothing, as it drops what does not
  fit), and a fan-out only for the one switch. `HolderInv` says who may hold each lock,
  and that a switch never locks a map twice.

`ConcurrentProofs` holds the proofs about seven programs whose goroutines share a
channel, a slice or a map, from the named assumptions of their modules (bounds are
naturals, the combiner's inputs are futures). It extends `MCGoroutines` for its last
section; no definition of an instance (a small set, a bound) is used:

* `WordsAlternate`, `TikTakTypeCorrect` and `NeverStuck`, for any number of rounds of
  `TikTak`: the two never wait on each other and both return only with the whole line.
  There is one token, and whose turn it is follows from where it is (`Turn`).
* `FuturesTypeCorrect` and `FuturesOneAnswer`, for any futures and any inputs of the
  combiner, also one that is combined twice. `OneAnswer` is not inductive: that a second
  receiver finds nothing needs to know that a channel is empty or still has the one
  answer that was given (`GivenOnce`), and that the combiner, between its two steps,
  holds an answer nobody else can have (`Holds`).
* `QutexExcludes`, for any goroutines: the slot is full while exactly one holds.
* `ShopTypeCorrect` and `ShopSellsEachOnce`, for any clients, paintings and sales. While
  no two handlers have overlapped one request at most is under way, and `InTurn`
  says, for each place its handler may be at, what it has loaded (`SoldFirst`), what
  each client was shown and whether that is still the first unsold painting
  (`Remembers`, `Knows`), and that the last answer was true when it was given
  (`TrueAnswer`). Of overlapping handlers only the first conjunct of `SellsEachOnce` is
  claimed, and proved: every increment of `firstUnsold` follows its handler's append.
* `LibraryTypeCorrect` and `LibraryAnswersAgree`, for any books and readers: the one
  request for a book, as long as it is one, found the map as the answers before it
  left it (`Granted`), and requests for other books write other entries.
* `TreasureKept`, for a ground of any size: `FindTreasure` never asks outside the ground,
  and its interval always holds the coordinate looked for. The judge compares a
  question with the one before, and the invariant says that this was the middle of the
  interval when it answers for the point beyond (`TreasureInv`); `NarrowedKeeps` does
  the arithmetic of the four branches.
* `TreasureInBudget`, for a ground of any size: the judge's budget of questions is never
  used up. An interval shorter than `2^k` takes `2 * k` more questions, one less when
  the middle has just been asked (`Affordable`, `AnswerAffordable`), and two coordinates
  and the first and the last question fit three times the logarithm of the ground's size
  and six (`LogOfProduct`, `GroundLogs`). The provers know nothing of `^`:
  that `2^(k + 1)` is twice `2^k` comes from the library's theorem on the number of
  subsets of a finite set (`PowerStep`), and what needs induction is by the least
  counterexample (`LeastOf`, `Induction`), an argument about sets and not operators.
* `TreasureDeclared`: what the tracker declares in the end is the treasure's point.
* `RoomsInvariant`, for any rooms, callers and temperatures of `Thermostat`:
  `IdleFanBeingStopped` is inductive because it names the call that brought the room to
  its target and has still to stop the fan (`StopperKept`: no other step takes that from
  it). `OnMeansDriven` is inductive beside it: a goroutine that ends has turned the fan
  off, or found it off or its room empty, and the last of several does so too.
* `EachRunsAlone`: a behaviour of `GoroutinesSpec`, where one program runs and the others
  stand still, is a behaviour of each program's own specification. What is proved of a
  program therefore holds in the run: `GoroutinesTypesOK` is the run's `TypesOK`.

`SequentialProofs` holds the proofs about the broker's heap and six sequential programs,
and extends `MCSequential` for its last section, as `ConcurrentProofs` does:

* `QueueTypeCorrect` and `QueueIsPriorityQueue`, for any priorities and any number of
  messages. While a loop of `container/heap` is under way the array is a heap but for
  the node it is at, and that node's children are in order with its parent (`HeapAbove`
  for `up`, `HeapBelow` for `down`); this is what one exchange keeps (`UpKeeps`,
  `DownKeeps`). That the root of a heap goes first is an induction along the array: the
  least index that would go before the root has a parent that would too (`RootFirst`).
  `LeastOf`, the least element of a set of naturals, is the library's well-founded
  minimum of a set, which takes no operator. With it `Topic` rests on a proved queue.

* `EditorIsBuffer`, for any runes, any initial text and any bound: a text is cut at the
  cursor (`Cut`), and what is popped from one stack is the last of it (`LastApart`),
  the first of it turned over (`Turned`, `TurnedPush`); each operation of the editor is
  then one of the buffer.
* `VCTypeCorrect`, `VCCheckoutRestores` and `VCStatusTells`, for any paths, contents and
  messages. The directories somebody may write to, the tracked one and whatever `Checkout`
  has returned, and those of commits are disjoint (`HeldApart`), because `Clone` always
  makes a new one and both `Commit` and `Checkout` go through it; so a snapshot stays what the
  history says was committed (`Recorded`), and a file that is changed but not listed
  does not exist (`UnlistedRecorded`). `Replied` carries what the last answer claims
  until the next call.
* `BookTypeCorrect` and `BookFirstOfEach`, for any names and numbers and any order of the
  two passes: of the names visited, `bestName` has the first for each number
  (`BestAmong`), and the pass that deletes has deleted the others among those it
  visited (`Deleted`). `SameNormalized` ties the key of the map, a rewritten number, to
  what the property says of two numbers.
* `BookCatchiest`, for any book: the sort is a bijection between places and contacts
  (`FirstOnes`), those that beat one at place `i` stand before it, before the third if it
  ties with the third, and the first three beat everyone behind the place where the
  loop stopped (`FindCatchyKeeps`).
* `HangarTypeCorrect`, `HangarConserves` and `HangarSparesNothing`, for any nests with any
  parts and engines missing. `HangarInv` says what each queue holds: the parts the first
  loop has passed by, each still in its donor slot (`PartsQueued`, `NoneTwice`), and in
  the last two loops the engines that still hang in the old nest (`EnginesQueued`).
  `PartMoves` and `EngineMoves` are the two moves that must leave one place as they
  enter another; `SlotsServed` and `WingsServed` say that what a loop has left empty
  behind it found its queue empty, or a nil in it.
* `AirportTypeCorrect` and `AirportRunways`, for any flights and times. The sweep's count
  is the number of flights that have begun and not ended (`Occupied`); they all occupy
  the moment of the event swept over, as nothing left is earlier (`SweptFirst`), and a
  moment by which no further occupation begins needs no more than the maximum so far
  (`Counted`).
* `AnswersExact`, for every `MaxInt`: the bound a check of the calculator computes
  (`MaxInt - n` for positive `n`, and so on) never wraps (`AddCheckExact`,
  `SubCheckExact`), so the check is true exactly when the exact value leaves the type.
* `CalculatorTypeCorrect`, from `Servers \subseteq {"dial", "http"}`: "format" is an answer
  of the dial server only.
* `EachRunsByItself` and `SequentialTypesOK`: the same of `SequentialSpec` and its
  `TypesOK`.

Every safety invariant and every action property that a run checks is proved, but for
one. Left to model checking, and why:

* the ten properties that need fairness, for which tlapm has no rules (the rules for
  `WF_` need `ENABLED`). The safety they rest on is proved where it is not obvious:
  `NoMessageStranded` for `EventuallyDelivered`, `StopNeedsNoPeer` for
  `StopReturnsUnlessLate`, `NobodyWaitsInACircle` for `NobodyHeldUp`, `OnMeansDriven` (in
  `RoomsInvariant`) for `FanReachesTarget`, `NeverStuck` for
  `TikTakReturns`, `TreasureInBudget` for `TreasureIsFound`;
* `SomebodyCanRun`, which is stated with `ENABLED`. That the guards of a statement are
  met, which is what it rests on, is proved (`NobodyWaitsForHimself`).

## 6. Plan

Done: every program of the inventory, and the proofs of section 5. What is left, in
this order:

1. The early `Stop` of old-school (`server.go:93`), which needs the listener and the
   call of `Start` as two steps.
2. The reconnecting client of the broker, which needs addresses in the registry.

## 7. Not modelled

* JSON, HTTP and SQL syntax, logging, formatting: they carry no state. Parsing and
  validation are modelled by their outcome.
* The contents of messages, names, cached values: opaque or absent.
* Two overlapping calls of `Start` in old-school, a `Stop` of it that reads the listener
  before `Start` has stored it, and ports that the operating system reuses for a
  reconnecting client in the broker (the registry is keyed by them).
* junk-shop-queue: one client's channel sent to `ManageShop` twice. tested:
  `ListFilesIn`, which only reads. phone-book: digits outside ASCII, whose bytes the
  code counts. airport: the city question, one multiplication and the formatting of
  a time.
* Sequential bookkeeping, driven by one caller: `banking`, `store-manager`,
  `library-trouble`.
* Pure functions and single passes over the input: `milgram-experiment`,
  `habib-clothes`, `decoder`, `control-machine`, `cool-funcs`, `nameless-problem`.
* Clients of web services: `cryptocurrency-checker`, `weather-api`,
  `language-translator`. Introductions: `go-http`, `gorm-introduction`, `todo`,
  `digital-clock`, `basics`.
