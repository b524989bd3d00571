# TLA+ models of TDLib and of the application built on it

This directory holds TLA+ specifications of parts of the repository (a fork of
TDLib with a Java application on top), the TLC configurations that check them
on small instances, and TLAPS proofs. Four groups of code are modelled:

- the **binlog**, the write-ahead log in which TDLib keeps what must survive a
  restart, and the key-value store on top of it;
- the **order of messages**: the queue between threads, the sequences of
  dependent queries, and the updates with `pts`;
- the **life of an instance**: how `Td` takes requests and closes, and how
  `ClientManager` starts, serves and ends instances;
- the **Java application**: authorization, chat list, advertisement filter,
  search for an expression.

Contents: 1 inventory, 2 modules, 3 runs, 4 what the code does not guarantee,
5 proofs, 6 not modelled, 7 plan.

## 1. Inventory

| Part | State | Operations | What is hard |
|---|---|---|---|
| `OrderedEventsProcessor` (tdutils) | a vector of waiting events and three counters | `add`, `clear` | index arithmetic while the vector is compacted under waiting events |
| `Binlog` (tddb) | two files, a write buffer, a keystream position, the live events, the key | `init`, `add`/`rewrite`/`erase`, `flush`, `sync`, `change_key`, `do_reindex`, `close`, `destroy` | crash between any two steps, torn and zero tails, encryption state that must match the file |
| `BinlogEventsProcessor` (tddb) | sorted ids and events | `add_event`, `for_each`, `compactify` | which ids are accepted after erases, compaction, restarts |
| `ConcurrentBinlog`, `BinlogActor` (tddb) | an atomic counter; promises, three flags and one timer in the actor | `next_id`, `add_raw_event`, `force_sync`, `lazy_sync`, `force_flush`, `change_key`, `close`, `timeout_expired` | threads interleave taking and sending a number; promises answered too early or never |
| `BinlogKeyValue` (tddb) | a map with the id of each key's event | `set`, `erase`, `erase_by_prefix`, `force_sync`, `init` | number taken under a lock, event sent after it |
| `MpscPollableQueue` (tdutils) | two vectors, a flag, an event descriptor | `writer_put`, `reader_wait_nonblock`, `reader_get_unsafe` | lost wakeups |
| `SequenceDispatcher` (td) | a window of queries, generations, one timer; the parent's counter | `send_with_callback`, `on_result`, `try_resend_query`, `try_shrink`, `ready_to_close` | answers of several generations, closing against new queries |
| `UpdatesManager`, `pts` (td) | `pts`, pending and postponed updates, two counters, two timeouts | `add_pending_pts_update`, `fill_gap`, `get_difference`, `on_get_difference` | lost and reordered updates |
| `Td` (td) | a state, two reference counters, the stage of closing, the requests not answered | `request`, `close`, `destroy`, `hangup`, `dec_*_refcnt`, `clear` | five stages driven by other actors |
| `ClientManager`, `MultiTd`, `TdReceiver` (td) | a locked map of clients | `create_client_id`, `send`, `receive`, `close_impl`, destructor | check under one lock, act under another |
| Java: main loop and `Client.java` | the current client, three flags, the batch of the receiver thread | `onAuthorizationStateUpdated`, `q`, `lo`, `ResponseReceiver.run` | flags shared by two threads, errors handled late |
| Java: chat list | a map of chats, a sorted set, a monitor for each | update handlers, `getMainChatList`, `getSwingChatList` | lock order, a sorted set whose keys change |
| Java: `SwingUIHandler` and the retrievers | five tasks, one shared `EnumSet` | `retrieve`, merge, compare with filters | unsynchronized set |
| Java: `Parser`, `RegexAggregator`, `Handler` | tokens, a tree, the results | `parse`, `search`, `aggregate` | the end of the input; a wait for another thread's answer |
| `TQueue`, SQLite wrappers, scheduler, promises, other containers, flood control, MTProto sessions, query dispatching, file loaders, the object managers | | | see 6 and 7 |

How they interact. A user of the log calls `BinlogInterface::add/rewrite/erase`
on any thread (`BinlogKeyValue` is one); `ConcurrentBinlog` takes a number from
an atomic counter and sends a message to `BinlogActor`; the actor puts the
numbers in order with `OrderedEventsProcessor` and calls
`Binlog::add_raw_event`; the log keeps the live events in
`BinlogEventsProcessor`, writes the event to a buffer, and the buffer to the
file on `flush`; promises of the callers are answered after `sync`. At the next
start `Binlog::init` replays the file.

An application thread calls `ClientManager::send`, which hands the request to
`MultiTd` and it to the instance `Td`; answers and updates go into the
`MpscPollableQueue` of `TdReceiver`, which `receive` reads. The Java program
reads it in the thread of `Client.java`, which runs the handlers that share
fields with the main thread and the user interface. Inside an instance, queries
that depend on each other go through `SequenceDispatcher`, and what the server
sends through `UpdatesManager`.

What makes them correct: events are delivered in the order of their numbers,
none lost; a promise is answered only when what it covers is on disk, and each
is answered; whatever stops the process, the next start replays all that was
synced and nothing that was not logged; the map and its log agree; a value in
the queue wakes its reader; the server executes a sequence in order and no
query is forgotten; updates are applied once and in order and a gap closes;
each request gets one answer, and closing ends.

## 2. Modules

| Module | Models | Kind |
|---|---|---|
| `OrderedDelivery` | what `OrderedEventsProcessor` promises | abstract |
| `OrderedEventsProcessor` | the class with its vector | implements `OrderedDelivery` |
| `ConcurrentBinlog` | threads, mailboxes, `BinlogActor`; uses `OrderedDelivery!Add` for its `processor_` | detailed |
| `DurableLog` | what `Binlog` promises its user | abstract |
| `BinlogEventsProcessor` | `do_event`, `compactify`, `for_each`, and the replay of a sequence, as operators | pure |
| `Binlog` | files, encryption, recovery; uses `BinlogEventsProcessor` | implements `DurableLog` |
| `BinlogKeyValue` | the map over the log; uses `OrderedDelivery`, `BinlogEventsProcessor` | composition |
| `MpscPollableQueue` | writers, the reader, the event descriptor | detailed |
| `SequenceDispatcher` | dispatcher, parent, network, callbacks | detailed |
| `PtsUpdates` | `UpdatesManager` with a server and a network | detailed |
| `TdLifecycle` | the actor `Td` | detailed |
| `ClientManager` | `ClientManager::Impl`, `MultiTd`, the user's threads | detailed |
| `AuthorizationLoop`, `ChatList`, `AdFilter`, `RegexAggregator` | the parts of the Java application | detailed |
| `ApplicationThreads` | the first three together | composition |
| `Application` | all four together | composition |
| `*Proofs` | theorems about the module of that name (`ApplicationProofs`: about `ApplicationThreads`; `ConcurrentBinlogProofs` and `ClientManagerProofs` also about the classes they use, `OrderedEventsProcessor` and `MpscPollableQueue`) | |
| `MC*` and `*.cfg` | instances for TLC; `MCContainers` has both containers of tdutils, of which a behaviour uses one | |

### OrderedEventsProcessor

`offset`, `begin`, `end` are `offset_`, `begin_`, `end_`; `size`, `flag`, `data`
are the vector `data_array_`. `Add` is the whole of `add()`: the branch "run
now" (`RunNow`: the loop over stored events, then `Advance`: counters and
`try_compactify`) or the branch that stores the event (`Keep`). The loop is
one step with its last position `b` as a witness. `Clear` is `clear(function)`.
`base`, `out`, `given`, `released` are history variables.

The 64-bit counters are natural numbers: a wrap-around would need 2^64 events.

### ConcurrentBinlog

`last_id_`, the promises, the flags and the timer have their names in the
code. `held[t]` are numbers a thread took and did not send: the two steps of
`add()` between which other threads run. `inbox[t]` is the messages of a
thread the actor did not get; the scheduler keeps the order of one sender and
none between senders. `timer` stands for `wakeup_at_ # 0`: a timeout is only
ever moved to an earlier time, so the model keeps that one is set and lets it
fire at any moment. `binlog` is the log reduced to where an event's effect is
(buffer, page cache, disk), with `need_sync_` and with `aged` for
"`need_flush_since_` is more than `FLUSH_TIMEOUT` ago". Sizes decide whether
`add_event` flushes or reindexes; here each choice is possible at each event.
`cover[k]` (history) is what the caller of a promise may rely on: for an
event's promise all numbers up to its own, for `force_sync` all that its thread
sent before and all that the actor already had.

### Binlog

`main` and `newf` are the files `<path>` and `<path>.new`. A file is a sequence
of chunks and the number of chunks that were synced. An event chunk carries the
keystream position it was encrypted at; it can be read only at that position,
which is what AES-CTR means for a log. `stream` is the position of the writer.
`aes_key` is the AES key kept for the salt in `aes_ctr_key_salt_`. An event's
value is the number of the operation that wrote it: payloads do not influence
the code, so distinct ones are enough.

`Open` is `init()` that succeeds, with `load_binlog`, the truncation of a bad
tail and the decision to regenerate; `OpenWrongPassword` the other outcome.
`AddEvent` is `add_event()` with `lazy_flush` and the regeneration of a large
file. `do_reindex()` is cut where a crash matters: the new file is written
(in the step that starts it), `ReindexSync`, `ReindexUnlink`, `ReindexRename`.
The open of `<path>.new` in it may fail for the files in `FailOn`: `whole` is a
log that was read to its end, `cut` one whose tail was cut off.
`destroy()` is cut between its two `unlink`s. `Kill` ends the process, perhaps
half way through a `flush()`; `PowerLoss` in addition takes an end of what was
not synced away and may leave a torn event or zeros.
`hist`, `dur`, `base`, `keys` are history.

Assumptions about the outside: `unlink` and `rename` reach the disk in order
(there is no `fsync` of the directory in the code); a file is synced from its
beginning.

What `sync()` promises is limited on purpose: after a kill without `sync()` and
a restart, the new process has `need_sync_ = false`, so `sync()` without a new
event does not fsync what the previous process wrote. `dur` therefore moves
only when this process logged something (`Promised`).

### BinlogKeyValue

`map` is `map_` with the id of each key's event. `set`, `erase` and
`erase_by_prefix` change the map and take numbers in one step, under the lock;
`held[t]` is what the thread still has to send. The log below is used through
its two promises: numbers are put in order (`OrderedDelivery`), and a restart
keeps a beginning that has all that was synced (`DurableLog`). What a restart
keeps beyond the synced part stays unsynced, as `Binlog::init` starts with
`need_sync_ = false`: `synced` is left alone, and a second crash may lose it.
`hist[n]` is the contents of the map when number `n` was taken; `Moment(j)` is the
number that belongs to the first `j` events of the file. After a restart the
numbers start again behind the last id in the file, so the moments that the file
still has are counted back from there. `LogAgrees` compares the replay of the
file with `hist`: the file is always the map of some moment.

### MpscPollableQueue

Every critical section is a step, so is the write to the descriptor after the
lock is released (`Release`). The reader is `TdReceiver::receive`: it takes
values while `ready_cnt` says there are some, then looks twice in
`reader_wait_nonblock` (clearing the descriptor between the looks), then sleeps
in `event_fd_.wait`, with or without a timeout.

### SequenceDispatcher

`d` are the members of a dispatcher, `exists` and `cnt` what the parent
knows of it, `to_parent` the messages to the parent. `OnResult` is `on_result`
with the resend decision, the generation and the timeouts, and the loop that
sends what is ready. The network (external) keeps the contract of
`invokeAfter`: a query whose predecessor failed is answered with a wait
failure. Callbacks (`hands`) may give a query back to be sent again.
Assumption: the parent's mailbox is emptied within the second the dispatcher
waits before it reports `ready_to_close` again.

### PtsUpdates

`m` is `UpdatesManager`; `net` are updates under way, which may be lost and
come in any order; `diff` is the request `getDifference`, answered with all, a
slice, nothing, or an error. An update about a chat that is not known is
refused: on arrival it is dropped and `getDifference` is started (`Refuse`), and
among the postponed ones, when the difference is in, it is put aside again
(UpdatesManager.cpp:2032-2038, `refused` in `AfterGetDifference`; any of them may
be refused at any time). `Counts` are the `pts_count`s of the server's
updates, some of them 0. The two timeouts (gap and retry) are flags, as every
expiry is possible once one is set.

### TdLifecycle

`td` has the state of the actor, with its mailbox: a message that Td sends to
itself runs after the handler. A request is of one of eight kinds, by how its
`on_request` treats it (answered at once, by message, by a request actor, by a
promise) and by the states in which it is accepted; this stands for the several
hundred `on_request` functions. A request of the kinds `actor` and `promise` may be
taken before the authorization (Td.cpp:3065-3067, 3093-3095: `testProxy`,
`setAlarm`), or is refused there. `close_flag` is the stage of closing, `bad` the
failure of any check in the code, `late` the close requests that come in the
last two stages.

### ClientManager

Each section under `impls_mutex_` is a step. `send` is cut between the read
lock and the write lock under which it creates the instance. `box[c]` are the
messages to `MultiTd` about a client, in order. An instance answers its
requests, may close, and reports it, as in `TdLifecycle`; its steps here (`TdAnswers`,
`TdCloses` and the like) are a contract that the code of `Td` keeps, much shorter
than that code, and the map names the functions they stand for. The same holds for
what `AuthorizationLoop` and `ChatList` say of TDLib and `ConcurrentBinlog` of the
scheduler.

### The Java application

`AuthorizationLoop`: the main thread between `create` and the end, the receiver
thread with its batches, the instances. `serverLogout` and `slowAssign` say
what may happen in a behaviour: the user is logged out by another device; an
update is handled before `Client.create` has returned to the main thread.
`ChatList`: `mainChatList` and every chat are monitors; a synchronized block in
which another monitor is taken is two steps. The button gives the list's monitor
back, clears the screen, starts the stream and visits the chats, each a step of its
own; `changed` are the threads whose stream will end with a
`ConcurrentModificationException`. `user` says what the user does:
type `gcs`, press refresh, or log out and in. `AdFilter`: an addition to the
shared `EnumSet` is a read and a write. `RegexAggregator`: `parsed` is computed
by the recursive descent of `Parser`, `Trees` is the reference grammar, `Words` the
words at the leaves of a tree.

`ApplicationThreads` puts the first three together and `Application` adds
`RegexAggregator`. They share no variable, so a behaviour moves one part and
leaves the others where they start; every property is about one part, so no
interleaving is lost. There are two modules because `RegexAggregator` needs
`RECURSIVE` operators, about which nothing can be proved: a behaviour of
`Application!Spec` satisfies `ThreadsSpec`, which the theorems are about.

## 3. Runs

| Run | Instance | Shows |
|---|---|---|
| `containers` | `OrderedEventsProcessor`: numbers 3 to 7 (from 1 after `clear`), two events, compaction from 2 finished cells; `MpscPollableQueue`: 3 writers with 2 values each | `InOrder`, `VectorAgrees` (nothing held back, marks and cells agree), `ClearReleasesWaiting`, implements `OrderedDelivery`; `NothingLost`, `NoLostWakeup`, `AllReceived` |
| `concurrent_binlog` | 2 threads, 2 numbers, 1 `force_sync`, 1 `force_flush` or `change_key`, 1 close, 1 crash | `SyncDurable`, `PrefixDurable`, `CloseKeepsDelivered`, `AnsweredOnce`, `WaitsAreServed`; `AllServed`: promises answered, events written |
| `binlog` | 3 operations, one key and the empty key, compaction from 2 ids | `NeverFatal`, `ReplayAgrees`, `NothingDurableIsLost`, `ImplementsDurableLog` |
| `binlog_keys` | 2 operations, two keys and the empty key, `FailOn = {whole}` | `NeverLockedOut`, `NothingDurableIsLost` |
| `binlog_zero_tail` | 2 operations, one key, `BadSizeTails` | finds `NothingDurableIsLost` violated |
| `binlog_key_value` | 2 threads, 2 keys, 2 values, 4 numbers, 2 restarts | `LogAgrees`, `IdsAreSound` (every event accepted, no two keys with one id), `RestartGivesPast` |
| `sequence_dispatcher` | 3 queries, 3 failures, window 2, shrinking from 2 | `ExecutedInOrder`, `QueriesKept` (answers find their query, none skipped, closed only when done), `AllEnd` |
| `pts_updates` | 5 updates with counts 1, 2, 0, 1, 2; 2 failures | `AppliedInOrder`, `GapIsHandled` (checks, a timeout or request for every gap, one difference at a time), `GapCloses` |
| `td_lifecycle` | 3 requests of any kind, 2 managers | `StagesInOrder`, `RequestsAnswered` (at most once; all before the stop), `ClosingEnds` |
| `client_manager` | 2 clients, a request and a close, 1 update | `ChecksHold`, `RequestsAnswered`, `ClosingEnds` |
| `application` | 3 clients, 2 refusals; 2 chats of which one is a group, 2 positions, 2 updates; all messages with at most 2 of each url; all expressions of at most 7 tokens | `ClientsInTurn`, `ListIsRight`, `AllFindingsMerged`, `ParserFollowsGrammar` (the tree of the grammar; beyond it a beginning; exactly the words of the tree searched), `AllComeBack`, `UserIsServed` |
| `application_relogin` | as `application`, with 3 tokens | finds `AssertionsHold` violated |

Where a module has a type invariant it is a conjunct of one of these (`NeverFatal`,
`VectorAgrees`, `IdsAreSound`, `QueriesKept`, `GapIsHandled`, `RequestsAnswered`,
and the invariants of `application`).

Why the bounds are enough to meet the hard cases:

- Five to seven numbers and `CompactMin = 1` (5 in the code) let the vector be
  compacted with events waiting behind the compacted cells, and catch up and
  grow again with old cells in it.
- Two threads and two numbers give the gap of `ConcurrentBinlog`: the second
  number arrives first. The `force_sync` can come before, inside and after
  it. Longer gaps are covered by the theorems, which hold for every number of
  threads and events; threads are not symmetric here because of the liveness
  property.
- Three operations give add–rewrite–erase, an erase of the last id with a new
  id after it, a reindex between any two, and compaction (`CompactTotal = 1`
  instead of 10). Crashes are unbounded: any number, at any step. A second key
  is needed for a stale cached AES key to differ from the right one.
- Four numbers let both keys be set, one erased and set again with the id of
  an event that the restart lost. With two restarts the second can lose what the
  first one read and nobody synced, and go back to a moment of the process before.
- Three writers: one between lock and descriptor, one that adds behind it, one
  after the reader's second look.
- Three queries with a window of two: one waits for the window, and two
  generations are under way when the vector shrinks.
- An update that counts 2 can cover another one's gap in the sums of
  `accumulated_pts_count`; one that counts 0 shares its `pts` with the one
  before. Two failures start the retry timeout twice.
- Three requests: one in work when the close comes, the close, and one after it,
  which may be a second close. More requests are covered by the theorems, which hold
  for any number of them.
- Three clients: one logged out, one that follows, and one created by mistake
  would be visible.
- Seven tokens reach `(a|b)&c` and `a&(b|c)`, every pair of operators, a bracket on
  either side, one inside the other, and every way to end the input inside a
  bracket.

Fairness. Weak fairness throughout, of steps that the code's scheduling makes:

- `ConcurrentBinlog`: the scheduler runs an actor that has a message
  (`ActorStep(t)`) or an expired timeout (`TimeoutExpired`); time passes
  (`Tick`); a thread that took a number sends its event (no blocking between
  the two). Nothing is assumed of `ForceSync`, `Control`, `Close`, `Crash`.
- `MpscPollableQueue`: a writer leaves `writer_put`, the application calls
  `receive` again, the reader moves unless it sleeps. No timeout is needed.
- `SequenceDispatcher`: the server answers what it was sent, callbacks answer,
  both actors handle their messages, the timer fires. Failures are bounded.
- `PtsUpdates`: a timeout that stays set expires, a request is answered and its
  answer handled. The conditions are written as `[]<>~guard \/ []<><<A>>_vars`,
  which is weak fairness without evaluating `ENABLED` of large actions.
- `TdLifecycle`: Td's mailbox is worked off (`Flush`), and once Td closes the
  owner lets go, the actors that hold a reference end and the databases close (`Closing`). Requests need not be answered before.
- `ClientManager`: the application calls `receive`, calls of `send` and
  `create_client_id` end, `MultiTd` handles its messages, a closing instance
  closes.
- `Application`: the threads run when they are not blocked, TDLib answers, and
  the user answers a prompt.

`CHECK_DEADLOCK FALSE` is set where a behaviour may come to its end: after a
crash, a close, or when all bounded inputs are used.

Every property has a mutation of a definition that breaks it (the operators
commented "Mutation" or "Mutant" beside the definition they replace), for
example `Synced_StaleFlag`: `need_sync_` read before `flush()` sets it.

### The findings

`binlog_zero_tail`: a power loss can leave zero bytes at the end of the file.
In an encrypted log these decrypt to random bytes. If the length read from them
is too large, too small or fails the crc, `load_binlog` cuts the tail off and
sets `db_key_used_ = false;  // force reindex` (Binlog.cpp:567), because the
keystream has already passed the tail. If the length is in range but not a
multiple of 4, the error has code -2, the file is truncated at once
(Binlog.cpp:517-525) and the loop is left; the sizes agree afterwards, so
nothing forces the reindex. The comment at Binlog.cpp:753-754 says such zeros
are "clearly impossible content for a real encrypted log event, so just ignore
it". From then on events are written with a keystream that is ahead of the
file: they are added, synced, promised, and unreadable at the next start.
`BadSizeTails = FALSE` in the passing runs leaves exactly this outcome out.

`application_relogin`: `setChatPositions` has `assert isRemoved;`
(Application.java:204) and `assert isAdded;` (Application.java:213), which say that
the list never lacks a position of a chat and never has one that is new. They
hold for one login (`ListIsRight`, proved in section 5). After `lo` the program
goes on with a new client (Application.java:288, "recreate client after previous has
closed"), but `chats` and `mainChatList` are static and nothing empties them. The new
client's `UpdateNewChat` replaces the chat by one without positions, so the old
entry is not removed; when the chat still has the same order, `add` finds it and
returns false. With another order both entries stay, and the chat is listed twice.
`FirstLogin` in the passing run leaves the second login out.

## 4. What the code does not guarantee

Met while modelling, besides the findings above. No comment, assertion or test of
the repository speaks of these cases, so they are not runs of their own; each appears as a named condition in a property or as a
value of a constant that the passing runs leave out.

- `Binlog.cpp:641`: when the tail of the log was cut off and the open of
  `<path>.new` fails, the log goes on with a keystream ahead of its file, and
  events synced later are lost (`FailOn = {"cut"}`).
- `RegexAggregator.search`: when a search is answered with an error the loop
  that waits for the messages never ends (`AggregateEnds` says "or `refused`").
  `Parser`: at the end of the input the last bracket can close two
  (`AcceptedIsBeginning` allows it, and nothing more).
- Chat list: `gcs` takes the monitor of the list and then a chat's, the update
  handler the other way round; they can wait for each other (`AllComeBack`
  says "or `Crossed`", which is this pair and no other; it is checked for `gcs` too,
  and fails without `Crossed`).
- Authorization: an update handled before `client` is assigned speaks to no
  client (`slowAssign`); after a logout by another device, `q` may send `close`
  to a closed client, and an error on its way makes the application create
  two clients (`serverLogout`); of these only the newer one is closed, so `main`
  may return while the other has its database open. The last step needs 5
  clients, more than the run has: it came up as a step of the proof of
  `ClientsInTurn` that could not be proved, and `DoneMeansClosed` now says
  `~serverLogout`.
- `SequenceDispatcher`: a query that fails in the client ends in state
  `Finish`, and the next one is sent without `invokeAfter` while earlier ones
  are still under way: the order is not kept (`local`).
- `Td`: a close request that arrives in the last two stages of closing may not
  be answered (`late`).

## 5. Proofs

`ConcurrentBinlogProofs` proves of `OrderedEventsProcessor`, for every `Data`,
`FirstSeqNo`, `LastSeqNo` and `CompactMin` (the module assumes that they are
natural numbers, and that `NoData` is not an event; it extends both modules,
which is why the definitions of the class are named `VectorInit`, `VectorNext`,
`VectorSpec`, `VectorTypeOK`):

- `ProcessorCorrect`:
  `VectorSpec => [](VectorTypeOK /\ InOrder /\ NothingHeldBack /\ MarksAreWaiting)`.
  The four are inductive only together. `InOrder` alone is not: the loop of
  `add()` delivers what is in a cell, so one needs that a marked cell holds the
  event given for its number (`MarksAreWaiting`), and that the next number to
  deliver is the one after the last delivered (`NothingHeldBack`).
  `MarksAreWaiting` needs in turn that all marks are strictly after `begin_`:
  otherwise the jump of `offset_` when `begin_` meets `end_` would give an old
  mark to a new number. One step per action (run now, keep, clear), and for
  "run now" one lemma per conjunct.
- `VectorIsRight`: `VectorSpec => []VectorAgrees`, the same without `InOrder`, in the
  form in which the run checks it.
- `ClearCorrect`: `VectorSpec => ClearReleasesWaiting`, from the same invariant.
- `ProcessorImplementsDelivery`: `VectorSpec => ImplementsDelivery`, the refinement
  with the marked cells as the waiting numbers. This is what allows
  `ConcurrentBinlog` to use `OrderedDelivery!Add` instead of the vector.

The same module proves of `ConcurrentBinlog`, for every set of threads and kinds
of events and all bounds (`FirstId` positive, the bounds natural numbers,
`Contents` a set of records), the theorems `SyncIsDurable`, `DiskHoldsPrefix`,
`CloseLosesNothing`, `NobodyIsForgotten` and `TypeCorrect`: `Spec => []P` for
`SyncDurable`, `PrefixDurable`, `CloseKeepsDelivered`, `WaitsAreServed` and
`TypeOK`. All rest on one inductive invariant `IInv`. What it adds to the
properties, and why:

- `LogOK`: what the processor handed on and has a payload is in buffer, cache or
  disk, nothing else is, and the cache is before the buffer. A sync then puts
  all of it on disk, and a crash leaves a beginning.
- `CoverDelivered`: a promise that waits for a sync covers delivered numbers
  only; a `force_sync` behind a gap nothing beyond the number it waits for.
- `CoverSent`: a `force_sync` still in a mailbox covers numbers that the
  processor has, or that are before it in the same mailbox. This is where the
  order of one sender's messages is used; when the message is the first one, the
  last case is gone.
- `MessagesOK`, `HeldFresh`, `SeenTaken`: a number in a thread's hands is in no
  message and at or after `next`, so the content it gets later belongs to no
  delivered number.
- `FlagsOK`: a flag is set only with the timer. Without it the
  early returns of `do_lazy_sync` and `do_immediate_sync`, which leave the timer
  alone when a flag is set, could not be shown to keep `WaitsAreServed`.

One lemma per action; `LogKept` is shared by all steps that move events towards
the disk, `TakeCover` by all that take a message.

`PromiseAnsweredOnce` (`Spec => []AnsweredOnce`) needs a second invariant on top
of `IInv`, `OnceInv`: that no promise is answered twice can only be shown when one
knows all the places a promise may be in. `FreshMessages`: the number of an event
under way is new to the processor, and the promise of a `force_sync` under way is
in no vector and not answered. `SentOnce`: two messages that carry a promise are
different. `PromisesApart`: inside the actor the sets of answered, waiting and
lost promises do not meet.

`ClientManagerProofs` proves of `MpscPollableQueue` (`QueueSpec`), for every set
of writers and every natural `MaxPuts`, `NoWakeupIsLost`
(`QueueSpec => []NoLostWakeup`), `NoValueIsLost` (`QueueSpec => []NothingLost`) and
`CountsAgree` (`QueueSpec => [](QueueTypeOK /\ CountMatches)`). The inductive
invariant is `QueueTypeOK /\ CountMatches /\ NothingLost /\ WakeupArmed`: `CountMatches` (the
reader's count is what the reader's vector still holds) is needed because values
are taken by that count without a check, and `reader_wait_nonblock` swaps the
vectors when the count is zero: a wrong count would overwrite values.
`WakeupArmed` says that the flag `wait_event_fd_` is set only over an empty
writer's vector, and that a reader that sleeps has the flag set, the descriptor
written, or a writer on its way to it. `NoLostWakeup` by itself is not
inductive: over an empty vector it says nothing, and the next `writer_put` would
fill it without a writer that wakes the reader.

The same module proves of `ClientManager`, for any number of clients, updates
and requests (assumptions: there is a client, the requests are finitely many,
the closing requests are among them, and 0 is no request id, which `Client.h`
asks of the user: "Must be non-zero"), `ChecksNeverFail` (`Spec =>
[]ChecksHold`) and `RequestsAreAnswered` (`Spec => []RequestsAnswered`), from
`ManagerInvariant` (`Spec => []IInv`). Both properties speak of flags and
histories (`bad`, `stray`, `answers`), so the invariant says where everything is
before the flag could be set:

- `ImplsOK`, `BoxOK`: `impls_` knows an instance exactly when it was or will be
  created, its mailbox begins with `create` and has `close` as its last message
  only. So no `send` reaches an instance that does not exist, and none is
  created twice, although `create` and `send` are posted by different threads.
- `CallsOK`: a call of `send` that was interrupted to take the lock for writing
  finds the entry again or finds it closed; the destructor runs alone.
- `ReportsOK`, `ClosedOK`: the end of an instance is the last report of its
  client in the queue that `receive` reads, and its entry is still there. This is
  what makes `close_impl` and the erasure in `receive` happen once.
- `OnePlace`, `LateOK`, `Accounted`: a request is in one place: with the caller,
  in the mailbox, pending in the instance, in the output queue, or answered;
  a request sent after the end can only be in the queue as error 500; and no
  request except one that closes is in no place at all.

`TdLifecycleProofs` proves, for every positive number of managers and every
finite set of request ids (`TdAssumption`), `ClosesInStages`
(`Spec => []StagesInOrder`) and `EachRequestAnswered` (`Spec => []RequestsAnswered`),
from `TdInvariant` (`Spec => []IInv`). The closing of Td is driven by counters
that fall to zero, so the invariant says what each one counts:

- `Balance`: `actor_refcnt_` is one for the request actors together, one for
  every manager alive, one for every `actorGone` in the mailbox and one for the
  databases; `request_actor_refcnt_` likewise. From this it follows that
  a stage ends exactly when the last holder of that stage is gone, and that the
  `CHECK`s on the counters hold.
- `Stops`: `stop_cnt_` is the end of the closing plus the end of the owner; there
  is at most one hangup, and it is behind all requests of the owner. So Td
  stops only after both.
- `Once`: a request is in the mailbox, in `request_set_` or answered, and never
  in two of them.
- `Owed`: from the second stage on, what is in `request_set_` are close requests
  whose answer is already in the mailbox before the message that could end the
  fourth stage, or that came too late (`late`). This is the part that was
  found by asking TLC for counterexamples: the answer to an early close request
  travels through the mailbox, and arrives before the report that the
  databases are closed only because of the order in which the two are sent.

Each helper of `Td` has one lemma that says what it does to the four parts, and
each action one that composes them.

`SequenceDispatcherProofs` proves, for any number of queries and failures, every
window, shrink size and set of timeouts (`ConstantsOK`: natural numbers, the
window not empty), `QueriesAreKept` (`Spec => []QueriesKept`) and
`ExecutedInSequence` (`Spec => []ExecutedInOrder`), from `DispatcherInvariant`
(`Spec => []IInv`). The heart of `IInv` is `Good`, a statement about any
dispatcher, the queries outside it, the answers of the server and the finished
queries, so that every helper of the class gets a lemma of its own, with the
entries under work as a parameter:

- `Lined`: the entries are consecutive queries, the first of them `Base + 1`,
  where `Base` counts those that were shrunk away or belonged to a dispatcher that
  was closed. `id_offset_` never runs ahead of it. This is what `TryShrink` has
  to keep.
- `Ordered`: behind `finish_i_` all is finished; behind `next_i_` nothing waits
  to be sent, and what is not finished is of the current generation; between the
  last query sent and `next_i_` all is finished. `do_resend` of a query of an
  older generation may leave `next_i_` alone only because of the second part.
- `Tokens`, `Counted`: the queries outside (`net`, `hands`) and the entries in
  state `Wait` are in one-to-one correspondence, with the token that finds the
  entry again.
- `Judged`: a query to be sent again was not executed; a callback has the right
  answer in hands; and the last query sent, if it ended, was answered by the
  server (one that ran out of time in the queue is never
  behind `next_i_`).
- `Chained`, when queries fail at the server only: all queries before one that was
  answered were executed or ended, and so were those between a query under way
  and the one it has to be invoked after. The second loop of `loop()` keeps it
  because `Ordered` and `Judged` describe the query that `InvokeAfter` names.
- `ParentOK`: the parent counts the unfinished queries and the `on_result`
  messages it has not read, and is told at most once at a time that the dispatcher
  is idle. When the count is zero nothing is under way (`Quiet`), so
  closing the dispatcher loses nothing.

`ApplicationProofs` proves three theorems about `ThreadsSpec`, from
`ThreadsAssumption`: the bounds are natural numbers, the sets of chats and limits
are what their names say. `PartsMoveAlone` shows that a step of `ThreadsNext` is a
step or a stutter of each part, so the argument is one about each part.

`FindingsAreMerged` (`ThreadsSpec => []AllFindingsMerged`), for every message
and all sets of urls. `AdvertisementObjectsRetriever` and
`TriggerWordsRetriever` read and write the shared `EnumSet` without a lock, so
one may overwrite what the other added. The invariant says why nothing is lost
all the same: whoever writes has found something (`WritersOK`), and both can only
find `TRIGGER_WORD` (`FindsFacts`), so a write of one contains what the other
wrote. The mutant of the run, in which the products have a flag of their own,
breaks exactly this.

`Authorized` (`ThreadsSpec => []ClientsInTurn`), for any number of clients,
refusals and commands. That the clients come one after the other is not inductive:
a client is created when the receiver handles `Closed`, so one has to know that
no second `Closed` can be on its way. The invariant `InTurn` therefore says what
is under way at all: no client exists yet (`Begins`), or there is a client
`n`, all before it are gone and all after it do not exist (`Others`), the field
`client` names it or is being assigned (`Assigned`), and it is in one of eleven
phases, from `Fresh` to `Follows` or `Quits`. A phase fixes the state of the
instance, its inbox, and all responses that the receiver has not handled, in its
batch or in the queue of TDLib (`Pipe`), and where the two threads may be. Every action
then leads from a phase to the same or a later one (the lemmas `...Turn`), and
`Recreate` from `Follows(n)` to `Fresh(n + 1)`. `NoLostWakeup` is inductive with
the types (`AuthTypes`) and holds with `serverLogout` too.

`ListStaysRight` (`ThreadsSpec => []ListIsRight`), for any chats, orders, updates,
limits and readers. `Pending` is the updates of TDLib that are not handled yet, the
one under work included. `Announced`: a chat that TDLib or an update speaks of is
one the application has, or `UpdateNewChat` comes before; without it the handler
would look for a chat that does not exist. For the first login:
`AnnouncedOnce`: each chat is announced once, so that `UpdateNewChat` never replaces
a chat whose positions are in the list; `LastCounts`: the last update in
`Pending` that brings the main position of a chat brings the one TDLib has, or
there is none and the application has it; `Matches`: the list is the
union of the main positions. When `Pending` is empty the last two are
`AgreesWhenQuiet`. `Replaces` is the lemma about the code of the handler: what
`NewPositions` makes of the positions of a chat has at most one in the main list, and
it is the one the update carries. The types also say who may hold which monitor
between two steps (`LocksTyped`).

`BinlogProofs` proves, for any number of operations and of keys and every
`CompactTotal`, five theorems about `Binlog`. The assumptions on constants are
`CompactTotal \in Nat`, `MaxOps \in Nat`, that `NoKey` is no key, that `FailOn` and
`BadSizeTails` are what their names say, what `Ids` and `Data` are in this log
(`OperationsAssumption`), and `EventsAssumption` and `MarksAssumption`: the marks
`Empty`, `Erased`, `NoFile`, `Down` are none of the values they stand beside.

- `NeverLockedOutHolds` (`Spec => []NeverLockedOut`), from `KeyInvariant`
  (`Spec => []KeyInv`), without a further hypothesis: whatever the tails of files
  look like, and whether `<path>.new` can be opened or not. `KHeader` says that the
  header of the file the next `init()` finds has a known key and is synced when the
  file is encrypted, so that a power loss cannot turn the file into one that is
  read as plain. To keep it, `KReindex` says which of the two files exists at each
  stage of `do_reindex()`, that the new one has the key of the process, and that
  it is synced before the old one is unlinked; `KRun` that the key kept for the
  salt is the current one or none; `KDestroy` that `destroy()` removes
  `<path>.new` first, so that the file it removes last is the one `init()` sees.
- `NeverFatalHolds`, `ReplayAgreesHolds`, `NothingDurableIsLostHolds`
  (`Spec => []P` for the invariant of that name) and `ImplementsDurableLogHolds`
  (`Spec => ImplementsDurableLog`, the refinement of `DurableLog`), from
  `LogInvariant` (`Spec => [](KeyInv /\ LogInv)`), under two hypotheses:
  `~ BadSizeTails` and `"cut" \notin FailOn`. Without the first the property is
  false, as the run `binlog_zero_tail` shows (section 4). Without the second `init()`
  goes on with a file whose tail it has cut in memory only (`Binlog.cpp:641`), so
  the log continues behind bytes that cannot be read.

The parts of `LogInv`, and why each is needed:

- `LFound`: the file that `init()` would find stands for a beginning of the
  history, and so does each beginning of the file that a power loss may leave,
  for at least `dur` operations (`Recovers`). The statement about the file as it is
  would not survive a power loss; the one about its synced part would not
  survive a kill.
- `LRun`: the file and any beginning of the buffer together stand for a beginning
  of the history (`Running`), since `Kill` may come half way through `flush()`;
  `stream` is at the end of an encrypted file, as otherwise the next event is
  unreadable; the ids in the log are at most `last_id_`, as otherwise the
  next `add` is a `LOG(FATAL)`; all is synced unless `need_sync_` is set, which is
  what the early return of `sync()` relies on.
- `LMemory`: the processor holds what the history left, and no id above `last_id_`.
- `LReindex`: the new file alone stands for the whole history (`Complete`).
- `LHistory`, `LTypes`: bounds and types.

"Stands for" is `Stands(events, ops)`: the replay of the events accepts every
one of them and gives what the operations left. The lemmas about it are where
the algorithms are. They are in `BinlogEventsProcessorProofs`, for any ids and
any data, and the proofs about `Binlog` and about `BinlogKeyValue` share them:
`DoEvent` with compaction changes the view of the processor in one place
(`FitsSound`), `AfterEvents` of a longer sequence is one more `DoEvent`
(`AfterAppend`), and the replay of `LiveEvents(p)` gives the view of `p` again,
although the events in it may carry the flag `Rewrite` (`LiveEventsRegain`). The
two functions are recursive over the length and over the ids; the inductions are
made over sets of numbers (`LeastNat`, `NatInd`), which needs no operator
parameter. The proof made one change to the model necessary: both were written
with `FoldLeft` and `SetToSortSeq`, about which the library has no theorems to
cite.

`BinlogKeyValueProofs` proves, for any threads, keys, values, prefixes, numbers and
restarts (assumptions: `MaxNumber` and `MaxRestarts` are natural numbers, prefixes
are sets of keys, the ids and the data are those of this log, and the marks are
none of what they stand beside):

- `LogStandsForMap`: `Spec => []LogAgrees`.
- `IdsStaySound`: `Spec => []IdsAreSound`.
- `RestartKeepsSynced`: `Spec => RestartGivesPast`.

The map in memory, the events on their way and the file are three different moments
of the same past, and no variable holds what is between them: `hist` has the
contents of the map but not the ids. The invariant `KInv` therefore says that
there are functions `W` and `E` with `Inv(W, E)`: `W[n]` is the replay of the log up
to the number `n`, from ids to entries, and `E[n]` the event with that number.
`FileOK`: each beginning of the file that a restart may keep replays to `W` at its
number, and every event in it was accepted. `EventsOK`: each event that is not in
the file yet leads from `W[n - 1]` to `W[n]`, so the processor will accept it
when its turn comes; `HeldOK`: each of them is at the log or with one thread, once.
`PastOK`: the map is the map of the last `W` and `hist` the contents of the others,
and in each `W` a key has one id (`Good`). That ids are used again after a restart is
covered by the bound in `Good` and `Stands`: no id is above the last number. A step that takes numbers extends `W` and `E` (`LogStep`, used by
`set`, `erase` and `erase_by_prefix`), a delivery moves events into the file
(`Continued`), a reindex shortens the file and keeps its replay. A restart keeps a
beginning of the file and syncs nothing, so the invariant has to keep a moment for
every beginning from the synced one on (`FileOK`, `PastOK`: all of
`Moment(synced) .. last_id - 1`), also those of earlier processes. Their old numbers
may be taken again, so the restart moves `W` and `hist` (`Beginning`,
`RestartStep`): they are counted back from the last id of the file, with negative
numbers where the file has more events than ids. A sync or a reindex is what ends
the past. `KInv` quantifies over all functions, so TLC cannot evaluate
it; TLC checks what it implies. The proof made two changes to the model: the map
is updated by `Put` instead of `:>` and `@@`, which the prover does not know, and the
ids and the data of events are constants of `BinlogEventsProcessor` (`Ids`, `Data`),
to which `Binlog` and `BinlogKeyValue` give their meaning by an assumption.

Only model-checked: `PtsUpdates`, whose server and whose application of updates
are folds over sequences of any length; `AllComeBack` and the other
liveness properties (TLAPS has no proof rules for fairness and `ENABLED`); what
the recursive parser of `RegexAggregator` computes for every input.

## 6. Not modelled

- `sqlite/`, generated code, the TL generator, build files and the examples in
  other languages: vendored, generated, or not part of the program.
- The object managers (`MessagesManager`, `ContactsManager`, `StickersManager`
  and the like), more than half of TDLib's own lines: each is a large set of
  handlers over unbounded maps, most of whose code converts between
  representations; a finite instance of one would not resemble it. What they
  share (requests, promises, closing, updates in order) is in `TdLifecycle`
  and `PtsUpdates`.
- Cryptography, transports, proxies: no state beyond what a session sees.
- `BinlogEventsBuffer`: `Binlog::init` never creates it.
- `SeqKeyValue`, `TsSeqKeyValue`: a map behind a lock, no step cut in two.
- Of modelled parts: `MpscPollableQueue::destroy` and the scheduler's readers;
  `close_silent` and a dispatcher without a parent; `qts`, `seq`,
  `differenceTooLong`, saving of `pts`; `MultiImplPool`, the old `Client::Impl`,
  `ExitGuard`, `receive` from two threads; Swing windows; the morphology library
  behind the retrievers (an input of `AdFilter`). Weak memory orders of the
  lock-free containers are outside an interleaving model.

## 7. Plan

1. `TQueue` over a log; `FloodControlStrict`, `ChangesProcessor`.
2. Actor scheduler: migration and stop, and the two facts `ConcurrentBinlog`
   assumes of it (one handler at a time, order of one sender).
3. `SessionConnection`/`Session`: acknowledgement, resend, duplicates.
4. `PartsManager` and `FileLoader` over `OrderedDelivery`.
5. `qts` and `seq` in `PtsUpdates`.
6. Proofs: `PtsUpdates`.
