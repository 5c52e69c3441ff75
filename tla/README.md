# TLA+ models of WebKit2's process architecture

WebKit2 splits a browser engine over processes: the UI process, web content
processes, one network process, and GPU, plug-in and WebAuthn processes. The
code that is hard to test is the code that keeps those processes in step: IPC
connections and the waits on them, launch and exit, suspension, the reuse of
processes and of pages, and data that several of them hold copies of. This
directory models that code in TLA+, checks it with TLC on small instances, and
proves what matters most with TLAPS for instances of any size.

    tlc -workers 2 -config Throttler.cfg ProcessThrottler   # one run
    tlapm ProcessThrottlerProofs.tla                        # one proof module

`PROJECT.json` lists the components, the runs with their properties, the source
lines of every definition, the hazards, the findings and the theorems.

## The system

| part | state | operations | what makes it hard |
| --- | --- | --- | --- |
| `Platform/IPC` (`Connection`) | incoming queues, `SyncMessageState`, pending sync replies, `m_waitingForMessage`, async reply handlers | send, sendSync, waitForMessage, dispatch, invalidate, didClose | two threads per end, nested dispatch while waiting, two processes waiting for each other, close against reply |
| `AuxiliaryProcessProxy`, `ProcessLauncher` | launcher, pending messages, connection | launch, send, terminate, shutDown, destruct | messages before the launch, failing launches, handlers that must be called once |
| `ProcessThrottler`, `ProcessAssertion` | activities, assertion, pending suspend request, timeout | add/remove activity, reply, timeout, expiration, invalidation | late replies, processes that hang, an operating system that revokes assertions |
| `WebProcessPool`, `WebProcessProxy`, `WebProcessCache` | processes and their users, cached and pending processes | create, navigate, swap, suspend, close, cache, evict, terminate | a responsiveness check between the decision to cache a process and its caching |
| `WebPageProxy`, `ProvisionalPageProxy`, `SuspendedPageProxy`, `WebBackForwardCache`, `WebBackForwardList`, `PageLoadState` | page, provisional page, suspended pages, load state | load, policy decision, commit, suspend, unsuspend, prune | callbacks that arrive after the navigation or the page is gone |
| Network process: loaders, `NetworkCache`, `CacheStorageEngine`, service worker fetches, web storage, IndexedDB, downloads | loads, records, queues of reads and writes, areas | load, store, retrieve, clear, fetch, set item | several queues over one file system, timeouts, processes that go while they are served |
| Web process: `WebProcess`, `WebPage`, `WebLoaderStrategy`, `StorageAreaMap` | loads, local copies of storage | the other ends of the above | optimistic local changes |
| GPU process and remote rendering | resource caches, display lists | cache, use, release | uses that arrive before or after a release |
| Plug-ins, WebAuthn, inspector, automation, injected bundle, API | registries and forwarding | | little protocol of their own |

The parts meet at `IPC::Connection`: a `WebProcessProxy` is an
`AuxiliaryProcessProxy`, which owns a connection and a launcher; its throttler
suspends the process by an async-reply message over that connection; pages, the
back/forward cache and service workers keep it alive; when the last of them goes
the process pool caches it or shuts it down. Properties worth having follow from
that: no wait without somebody who ends it, no message or handler lost or used
twice, no process suspended while it has work, none shut down while it is used,
none reused across sessions, and nothing kept alive by what has ended.

## Modules

| module | models |
| --- | --- |
| `Connection` | `IPC::Connection` between several processes: main threads, work queues, sync messages and nested dispatch |
| `WaitForMessage` | `Connection::waitForMessage` with its condition variable, at the grain of critical sections |
| `AuxiliaryProcessProxy` | `AuxiliaryProcessProxy`, the launcher, and the async reply handlers of `Connection` |
| `ProcessThrottler` | `ProcessThrottler`, the assertion it holds, and the process it suspends and resumes |
| `WebProcessCache` | `WebProcessCache` with what puts web processes into it and takes them out: pages, navigations, suspended pages, service workers, termination |
| `WebBackForwardCache` | `WebBackForwardCache`, its entries, `SuspendedPageProxy`, and the navigations of one page that suspend, wait for and resume pages |
| `PersistentMap` | abstract: what local storage promises of one origin |
| `StorageArea` | the network process's `StorageArea` and `LocalStorageDatabase`; implements `PersistentMap` |
| `StorageAreaMap` | the web processes' `StorageAreaMap`s, composed with `StorageArea` through the messages between them |
| `MC*` | instances for TLC |
| `*Proofs` | TLAPS proofs about the module of the same name; `WebProcessCacheCapacityProofs` has those about `WebProcessCache` that count |
| `StorageCopies` | definitions for the proofs about `StorageAreaMap`: the invariant of the link between a web process and the area, and what a step can be to one process |
| `StorageCopiesProofs`, `StoragePendingProofs` | proofs about the copies of `StorageAreaMap`, and about its pending changes |

In all of them a method that runs to its end on one thread is one action, with
all the methods it calls. It is split only where another thread or client code
gets in between. Definitions named as faulty variants stand next to the ones they
vary; they are plausible mistakes that the properties must notice.

### Connection

Every process has a main thread, given by its call stack (`stack`): a wait for a
sync reply, a loop over a vector of messages that `SyncMessageState` or
`dispatchIncomingMessages` dispatches, or a handler. Client code is arbitrary: in
a handler, or with an empty stack, it sends any message of `CallSites`, replies,
invalidates, or returns. For every peer a work queue reads the channel and does
what `processIncomingMessage` does: it gives replies to pending calls, puts
marked messages before `SyncMessageState` and wakes the semaphore (binary, shared
by all connections, as in the code), or queues them and schedules the run loop.
The flags are the code's: dispatch-while-waiting, the
`OnlySendMessagesAsDispatchWhen...` option, ordered sync messages, unbounded
scopes, timeouts, delayed replies. Processes may exit, connections may close or
be invalidated, and the exits of the web process on a failed send or a close are
there. Channels deliver in order; that is what the platform transports promise.

`CallSites` of `MCConnection` are messages WebKit2 really sends (an undo step, an
alert, a touch event, the IPC test's triangle).

### WaitForMessage

One end and its two threads. The main thread is at a program counter between the
places where it takes `m_waitForMessageMutex`; each step of the work queue is one
critical section. Each wait has any of the `WaitForOption`s. The target message
may arrive at any time, and so may sync messages, plain ones, the close and the
timeout. A sync message for the `SyncMessageState` may take the queued messages
along (`ProcessWhileWaiting`). A throttled connection dispatches its queue in
batches and goes on through the run loop or a timer; when the queue is full the
web process is killed and the queue emptied (`Enqueue`). The throttling level is
left out: any batch up to `BatchSize`, with or without the timer, may be next. A
parked thread that times out still has to take the mutex again, which is where a
message can be lost.

### AuxiliaryProcessProxy

The process, the `Connection` object and the proxy have lifetimes of their own.
`sendMessage` has its three states (launching: stash; running: add a handler,
send, fall through if refused; terminated: call the handler from the run loop).
A reply, `connectionDidClose`, the destructors of the connection and of the proxy
call handlers; a handler that is being called may send again. The loop of
`didFinishLaunching` over the stashed messages takes one per step, because the
process already runs, and leaves out a load request whose page is gone
(`shouldSendPendingMessage`). Subclasses differ in
`didClose`: it shuts a web process's proxy down and leaves the network process's
with its closed connection, so `DidCloseEnds` may do either.

### ProcessThrottler

Activities come and go, the operating system refuses and revokes assertions and
warns of expiration, the process handles `PrepareToSuspend` and
`ProcessDidResume` when it gets to them, answers late or never, or exits.
`invalidateAllActivities` is taken one activity per step because each removal
runs `updateAssertionIfNeeded`. The throttler's owner, `client`, is one of three
kinds: a proxy that also takes the UI background assertion (`WebProcessProxy`, in
a pool that asks for it), one that does not (`GPUProcessProxy`), and one that
calls the completion handler before `sendPrepareToSuspend` returns (plug-ins,
WebAuthn).

### WebProcessCache

A process is used by pages, provisional pages, suspended pages, service workers
and shutdown-preventing scopes (`InUse`). `MaybeShutDown` is evaluated over the
uses a step leaves: it caches an idle process or ends it. Caching makes a request
`<<p, n>>` in `pendingAddRequests` whose callback is in the process's
`isResponsiveCallbacks` until a ping, the responsiveness timer or a crash answers
it, or, for a process known to hang, on the run loop. Every handler that touches
these is an action: creating, loading, navigating, committing, suspending and
closing pages, starting and stopping service workers, answers, evictions, memory
pressure, data removal, crashes and requested terminations. A suspended page is
only a use of its process here. Not modelled: prewarmed processes, related pages
that share a process, a provisional page with a data store of its own, a single
web process, and destroying the pool. A navigation that waits for a page that is
still suspending is in `WebBackForwardCache`. Which process an item was last shown in
is not kept: `Navigate` may take any running process of the page's data store, where
the code takes that one without a look at its data store (`WebProcessPool.cpp:1865`).
So `DataStoresAreSeparate` is claimed of items that the page itself made. The launch is `AuxiliaryProcessProxy`'s.

### WebBackForwardCache

The UI process does all of this on one thread, much of it inside destructors: an
entry that is removed destroys its suspended page, the page may have been the last
use of a process, and the shutdown of the process removes the entries of others.
So the objects of the UI process are one record, `ui`, and every method is an
operator from a record to the record it leaves; `FoldLeft` follows the loops over
entries, with what the earlier turns did to the later ones. An action is what the
run loop delivers: a policy decision, a commit, a message of a web process, a
timer, memory pressure, a crash. `UIStates` gives the fields of the record and the
members they stand for.

A page that is left is asked to suspend (`SuspendCurrentPage`) and put into the
cache, or is kept until the first layer flush to prevent flashing. A navigation to
its item waits for the answer (`WaitUntilReadyToUnsuspend`) and goes on when the
answer comes, the timeout removes the page, or the page is destroyed, in which
case its handler is posted to the run loop. What was decided then may have
changed: the page may be closed, the navigation replaced, the suspended page
closing (`ContinueNavigation`, `SwapProcess`). The choice between the source
process, a cached one, that of a suspended page and a new one depends on domains
and settings, and is arbitrary here. `web` and `replies` are the other side: what
a web process makes of `Suspend`, `Resume` and `Close`, in order, and its answers.

Not modelled: several pages that share the cache, redirects of provisional
navigations, the reload after a crash, navigations without an item to come from,
`removeEntriesForSession`.

### Web storage

`PersistentMap` is the abstract specification of one origin's local storage: a map
that operations change one at a time and a saved copy that follows it; only a
crash takes changes back, to what was saved. `StorageArea` is the network
process's side. It runs on one serial work queue, so an action is a task of that
queue: connecting a listener (which opens the database and imports it), changes,
an update of the database with at most `MaximumItemsToUpdate` items, which
schedules the next one, removal of the last listener or of the session (which
closes the database and writes what is left), deletion of the data. Events are
sent to listeners from the main run loop (`mainRunLoop`), so acknowledgements,
which the work queue sends, may overtake them.

`StorageAreaMap` EXTENDS it with the web processes: each has a copy that it
changes at once, counts of pending changes, a seed that tells its acknowledgements
from those of an earlier copy, and channels to and from the network process that
keep their order. Synchronous calls (`ConnectToLocalStorageArea`, `GetValues`) are
split where they wait. The network process may crash, a web process may exit or
drop its map, the session may be removed and added again, and the data deleted.

Not modelled: failures of SQLite, session storage and its cloning, renaming of
origins, transient namespaces, suspension of the storage thread, and the delivery
of events to documents.

## Runs

| run | instance | shows |
| --- | --- | --- |
| `throttler` | 3 activities, 5 requests, every kind of client, fair | no RELEASE_ASSERT fails; the assertion is the one the activities call for; a process with an activity is resumed; only the current, answered request suspends; an idle process without the UI background task ends up suspended although it never answers |
| `connection_two_way` | UI and web process, 3 messages each way | no message is stranded; no circular wait |
| `connection_failures` | UI and web process, 2 messages each way, an alert that is ordered behind plain messages and that the user answers late, timeouts, a web process that invalidates its connection or exits, fair | pending replies match the nested waits and no wake-up is lost, through failures too; an ordered message overtakes no plain one; every `sendSync` comes back |
| `connection_cycle` | 3 processes, a cycle of sync calls and a marked message | the unbounded-scope flag breaks the cycle; a request kept aside while another connection is dispatched is not lost |
| `wait` | 4 messages, any options, batches of at most 2, killed at 3 queued, timeout, close, fair | a parked thread missed no message; only a wait that gives up takes a message with it, no other is lost or doubled; no queued message is stranded; the wait ends |
| `proxy` | 3 messages, 2 with reply, fair | handlers are called once, replies find them, connections are released invalid, messages arrive in order; all handlers are called after the exit of the process, and after the end of the proxy |
| `cache_sessions` | 2 processes, a persistent and an ephemeral page, 2 checks per process | processes are not shared between data stores; an ephemeral session leaves nothing in the cache; what is cached runs and is idle; a provisional page's process is not shut down under it; the cache agrees with what processes say of themselves |
| `cache_domains` | 2 processes, 2 domains, capacity 1, 1 check each, fair | the cache keeps its capacity; every check is settled |
| `suspended_pages` | 2 items, capacity 2, 3 navigations, 1 disruption | nested destruction leaves the list and the entries in agreement, with the assertions that `AssertionsHold` names kept; one WebPage per process; once messages have arrived a WebPage is open, suspended or closed in its process as the UI process holds it; a navigation that waits has a timeout that ends the wait |
| `storage_area` | 1 web process, 2 keys, batches of 1, 3 changes, 1 disruption of any kind, fair | the area and its database implement `PersistentMap`; what is outstanding adds up to the map; every change is saved in the end |
| `storage_maps` | 2 writers and 1 reader, 2 keys, quota 1, 2 changes, 1 deletion | when all has arrived, readers and a sole writer show what the network process has; pending changes and acknowledgements under way correspond one to one |
| `storage_last_writer` | 2 writers, 1 key, 2 changes | **violated**: the last writer shows the value it overwrote (findings) |

### Bounds

* Throttler: a late reply needs two requests, a reply that could be mistaken for
  it a third; three activities are needed for a removal between two others.
  `MaxRequests` only stops new activities, never an answer or a removal.
* Connection: a circular wait needs one call from each side, a nested one a
  second, and ordering a plain message before the ordered one: 2 or 3 messages per
  end.
  In the cycle every process sends once to each of the others, and the UI process
  asks the web process only from a handler, as
  `NetworkProcessProxy::testProcessIncomingSyncMessagesWhenWaitingForSyncReply` does.
* WaitForMessage: a target, a message before and after it and a sync message.
  Three queued messages are needed to leave some behind a batch, and are as many as
  the killing threshold, so that a fourth finds the queue full.
* Proxy: a plain message, one that asks for a reply and one sent while its
  handler is being called, so that all places a handler can be are used at once.
* Cache: `MaxRequests` is 2 where a stale answer meets a second check of the same
  process. A process never comes back after shutdown, so `Processes` bounds how
  many are ever made: two are needed to leave one and come back to it. One domain
  suffices except for replacement of another's process, which needs two.
* Suspended pages: three navigations are needed to leave a page, come back to it
  and be replaced while waiting. The disruption (a crash, an eviction, a change of
  capacity, an expiration, memory pressure, a report about an item) can come at
  any moment; timeouts, answers, closing the page and layer flushes are not
  bounded. The same invariants also hold with 3 items, 2 navigations and 2
  disruptions.
* Storage: `MaximumItemsToUpdate` is 1 instead of 100 so that two changes already
  take two updates; a clear between two changes needs three changes. A quota that
  only the network process can judge needs two writers of different keys. The
  third process only reads. Crashes and removed sessions are in `storage_area`,
  where they meet the database, and not in `storage_maps`: see Observations.
  Symmetry (processes of the cache; keys and processes of storage) is used in
  safety runs only.

`CHECK_DEADLOCK FALSE` is given where the program really may stop: all activities
gone and the throttler destroyed, all messages sent and handled, the proxy
destroyed, the page closed, all changes made. The cache runs check for deadlock.

### Fairness

* Throttler: the main run loop fires a started timer and finishes a loop it has
  begun. Nothing is assumed of the process: it may hang.
* Connection: main threads that are not blocked go on, work queues read what has
  arrived, finite timeouts elapse, handlers return. A delayed reply has strong
  fairness: the client sends it provided its thread keeps getting back to client
  code. Nobody is assumed to send or to exit.
* WaitForMessage: the main thread runs unless parked, finite timeouts elapse, and
  a close that has begun goes on.
* Proxy: the run loop and the work queue run what is dispatched to them. The
  process need not answer and the client need not let the proxy go.
* Cache: a process with a pending check answers, or its responsiveness timer,
  which `isResponsive` starts, fires; dispatched functions run. No fairness of
  pages, evictions or crashes.
* Storage: the work queue runs a database update that is scheduled. Nothing is
  assumed of web processes, and a crash may always come first.

## Proofs

All theorems hold for every value of the constants that the named assumptions
(`ThrottlerAssumption`, `WaitAssumption`, `ProxyAssumption`, `CacheAssumption`,
`AreaAssumption`, `MapAssumption`) allow; TLC evaluates these on every run. A
theorem that needs more has it as a hypothesis, and that is said here.

### ProcessThrottler

* `ThrottlerNeverAsserts`: `Spec => [](TypeOK /\ NoReleaseAssertFailure)`. That no
  assertion has failed is not inductive: one must know that the timer runs only
  while a request is pending and nothing wants the process to run, and that a
  request next to an activity exists only inside
  `uiAssertionWillExpireImminently`, where the assertion is the suspended one
  already (`RequestInv`).
* `ThrottlerResumesProcess`: `RunnableProcessIsResumed` and
  `AssertionMatchesActivities`, for every kind of client. `ResumeInv` adds what ties
  the process's queue to the throttler: if the last lifecycle message is
  `PrepareToSuspend` then its request is pending or the assertion is the suspended
  one, so that the next activity sends a resume behind it. Lemmas say what
  appending to and taking from the queue does to its last message.
  `ThrottlerHoldsRightAssertion` states the second part alone.
* `RepliesSuspendOnlyPreparedProcesses`: the action property
  `ReplySuspendsOnlyPreparedProcess`. While a request is pending, either its message
  is the last on its way and there is no reply to it, or the process is suspended
  with nothing on its way (`ReplyInv`); a late reply has another identifier.

### WaitForMessage

* `ParkedThreadsMissNothing`: `ParkedThreadMissedNoMessage`. `WaitInv` ties the
  program counter to the registered wait: from the search of the queue on, under
  the lock, no target is in the queue while the wait is to go on.
* `OnlyAbandonedWaitsLose`: `OnlyAbandonedWaitsLoseMessages`. While the connection is
  valid and its queue has not overflowed, every message that arrived is queued, with
  the waiter or was given to the client, once only, or was taken by a wait that gave
  up (`PlaceInv`), and the last are all messages that were waited for (`TargetInv`).
  A critical section moves one message, moves a whole queue behind another, adds the
  message that arrives, or both of the last; a lemma for each says that this keeps
  every message in one place.
* `QueuedMessagesHaveTasks`: `QueuedMessagesAreScheduled`. With throttling one function
  on the run loop, or the timer, is enough, because it schedules the next. Without, each queued
  message needs one of its own: there is an injection from the queue into the
  functions on the run loop (`Ticketed`), which also survives that a wait takes a
  message out of the queue.

### AuxiliaryProcessProxy

* `HandlersCalledOnce`: `EveryHandlerIsCalledOnce`. Opening a connection starts
  with an empty map and clearing the map replaces the handlers being called, so
  both must be known to be empty at that time; `LifetimeInv` says when the process,
  the connection and the proxy exist together and where handlers can be meanwhile.
* `ConnectionIsReleasedClean`: `ReleasedConnectionIsInvalid` and
  `NoHandlersOfDestroyedConnection`, from the same invariant.
* `RepliesHaveHandlers`: `RepliesFindTheirHandler`. A message is in one place on its
  way out and back, and while the connection is valid its handler is in the map
  from before it is sent (`WireInv`).
* `MessagesArriveAsSent`: `MessagesArriveInOrder`. What was received, what is on its
  way and what is pending are, one behind the other, the accepted messages
  (`OrderInv`); after the connection is closed the end is missing, never the middle.

### WebProcessCache

* `CacheKeepsIdleProcesses`: `CachedProcessesAreIdle`, and
  `CacheForgetsEphemeralSessions`: `EphemeralSessionsLeaveNothing`. The invariant
  adds that the pool's processes are exactly the running ones. One lemma
  (`MaybeShutDownKeeps`) carries the argument: a step that adds no use of a
  process it does not take, and ends sessions only where it evicts, keeps it. For
  each handler it remains to show these two conditions, which is where the code
  could go wrong.
* `ProcessesAreNotShared`: `DataStoresAreSeparate`, and
  `ProvisionalPagesKeepTheirProcess`: `ProvisionalProcessIsRunning`. `SeparateInv` says
  it of every use, suspended pages included, because a navigation takes a process
  over from one use to another; `CacheShape` says which process is where in the
  cache, so that a process taken out is not one that is evicted in the same step.
* `CacheStaysWithinCapacity`: `CacheWithinCapacity`, and `CacheAgreesWithProxies`:
  `CacheMatchesProxies`. Only the answer to a check fills the cache
  (`OnlyPingsFillTheCache`), and `addProcess` evicts as many as it must
  (`PingMakesRoom`, `RoomIsEnough`); the invariant adds that the cached processes
  are finitely many.

### Web storage

* `AreaKeepsDatabase`: `DatabaseAddsUp` for an area with a database (`~IsEphemeral`,
  a hypothesis of all theorems about the database), any keys, values, quota and size
  of a batch. It is inductive with the types and with what
  it leaves open: while there is no area nothing is outstanding (`AreaInv`).
* `AreaIsPersistentMap`: `ImplementsPersistentMap`. The map is the area's items
  while it exists and the file otherwise, so that closing and opening are stutters.
  Each task has a lemma that it keeps `AreaInv` and is the step of `PersistentMap` it
  should be (`PersistentMapStep`): a change for the same change, a crash only for a
  crash, and for all other tasks a save or a stutter, so that no update, close or
  removal of a session may take a change back.
  `FileWithSaves` carries the update in batches, `AreaCloses` the last one.
* `MapsUseArea`: `Spec => AreaSpec`. Web processes reach the area only through
  messages, and every handler is a task of the area with parameters of the right
  kind (`LinkTypeOK`). So what holds of the area holds of the composition:
  `StorageKeepsDatabase` and `StorageIsPersistentMap`, for any number of processes.
* `CopiesAgree`: `ReadersAgree`, and `PendingsAreAwaited`: `PendingChangesAreAwaited`,
  for any number of processes, keys, values and changes, with deletions of the data
  and exits of web processes. Both have the hypothesis `Undisturbed`: no map is
  destroyed while its process lives, no session is removed, and the network process
  does not crash. Without it they are false of the code (see Observations: a new
  map starts with seed 0 again).
  The proof goes by process. `StorageCopies` lists what a step can be to one process
  (`LocalStep`): the process starts over, or one of ten things happens to its copy
  and its queues. `NextOutcome` shows that every action is one of these to every
  process, and the rest is about `LocalStep` alone. `LinkInv` says which messages
  can be on the link of a process that is connected or is not. A reader's invariant
  (`ReaderInv`) is that the last of the changes it has not seen, if any, gives a key
  the network process's value; the sole writer's (`WriterInv`) that its requests lead
  from that value to its own, unless something on its way will drop its copy. Both
  are only needed of the last change to a key, which avoids induction over the
  queues.
  `AwaitInv` counts requests and acknowledgements for each seed from the current one
  on. `PendingChangesAreAwaited` speaks of the current seed only, and a clear makes
  the next one current; so it must be known that nothing has a later seed.

### What TLC alone checks

* Liveness under fairness (idle processes suspended, handlers called in the end,
  waits that end, checks settled, changes saved, every `sendSync` coming back): the
  prover does not handle it.
* `Connection`. `NoCircularWait` holds for the call sites of the runs and not for all
  (see Observations), so there is no theorem for every value of the constants.
  `OrderIsMaintained`, `QueuedMessagesAreScheduled`, `PendingRepliesMatchWaits`,
  `BlockedHasNothingToDo` and `RequestsAreUnderway` relate a stack of nested frames
  in each process to queues in the others, and an inductive invariant would have to
  say of every frame of every stack what it may have taken out of them; it was not
  attempted. `QueuedMessagesHaveTasks` proves the first for one end with the
  threads of `WaitForMessage`.
* `WebBackForwardCache`. Its operators fold over the entries with what earlier turns
  did to later ones (`FoldLeft`), and what a fold computes for every list needs
  induction over data.

## Findings

`storage_last_writer` shows the code doing what a comment of the repository says it
does not. Two web processes set the same item. The network process applies both,
queues the event about the first change on its main run loop, and acknowledges the
second from the work queue. The acknowledgement arrives first, the second process
takes its key as no longer pending (`StorageAreaMap.cpp:213`), and then applies the
event: it shows the value it overwrote, and nothing corrects it.

### Observations

Seen while choosing instances, and not kept as runs. The first three are stated in
their modules; adding the property to the named `.cfg` shows the behaviour.

* `BackgroundIsBounded` (`Throttler.cfg`): when the UI background task expires with
  two activities, the first removal resumes the process and the last makes a new
  request, whose timeout is then stopped (`ProcessThrottler.cpp:235`, against the
  comment at line 165). A client that answers inline gets a background assertion
  without a timeout after its answer (`ProcessThrottler.cpp:227`).
* `InterruptedWaitIsNotParked` (`Wait.cfg`): an interruption between
  `dispatchMessages` and the wait is seen only after the timeout
  (`Connection.cpp:585`, against the comment at `Connection.h:76`).
* `ShutDownProcessesAreReleased` (`CacheSessions.cfg`): clearing the cache during a
  responsiveness check leaves a callback that nobody will call and that keeps the
  process and the pool (`WebProcessCache.cpp:99`, against the comment at
  `WebProcessProxy.cpp:289`).

* With an ordered sync message, a plain message and a sync message back in
  `CallSites`, `NoCircularWait` fails: `dispatchMessages` swaps plain messages out
  together with the ordered one (`Connection.cpp:177`), and when the handler of
  such a message calls the peer the nested wait does not see the message the peer
  waits on. So it is claimed for the call sites of `connection_two_way` and
  `connection_cycle`, which have no ordered messages.
* `OrderIsMaintained` leaves out plain messages in vectors that outer dispatch loops
  have swapped out (`Connection.cpp:177`): an ordered message that a handler's nested
  wait dispatches is ahead of those. It also says nothing of the order of plain
  messages among themselves: a dispatch function left over from messages that were
  moved (`Connection.cpp:156`) dispatches a later one first.
* A message stored in the decoder between the timeout, or an interruption, and the
  mutex is destroyed with the wait (`Connection.cpp:586`), while the connection is
  open: `abandoned` does not stay empty. `OnlyAbandonedWaitsLoseMessages` says that
  nothing else is lost. As the timeout ends every wait, `WaitEnds` does not notice a
  lost notification; that is what `InterruptedWaitIsNotParked` above shows.
* A crash during the check of a process for the cache calls `shutDown` twice
  (`WebProcessProxy.cpp:876`), against the assertion of `disconnectProcess`
  (`WebProcessPool.cpp:952`). The model takes the two calls as one.
* Messages of one connection kept aside (`messagesToPutBack`, `Connection.cpp:196`)
  while a handler of another waits for their sender could block it; the call sites
  of `connection_cycle` do not have that pair.
* `waitUntilReadyToUnsuspend` calls the handler of an earlier navigation inline
  (`SuspendedPageProxy.cpp:149`). If that navigation is still known, because its
  WebPage was suspended meanwhile and `didDestroyNavigation` went to a
  `SuspendedPageProxy`, it may be given this page's process and remove this page's
  entry, which destroys the page inside its own method. It takes four navigations.
  The model stops there (`DestroyedWhileWaiting`), and `AssertionsHold` does not
  cover what follows.
* `suspensionTimedOut` of a page kept to prevent flashing removes nothing, although
  its comment says it will destroy the page (`SuspendedPageProxy.cpp:239`). Such a
  page is not in the cache and not counted in `OneWebPagePerProcess`. If its process
  has crashed it is still found by `findReusableSuspendedPageProcess`.
* A commit after the committed process has crashed reaches
  `ASSERT(m_hasRunningProcess)` (`WebPageProxy.cpp:7415`), and a report of a cached
  page that crosses a change of capacity to zero `ASSERT(capacity())`
  (`WebBackForwardCache.cpp:71`); both in debug builds only, and neither is among
  what `AssertionsHold` covers.
* A process made for a navigation that turns out to be gone stays running without
  a user (`WebPageProxy.cpp:3223`).
* `applyChange` fills a cleared copy with `oldValue`, a null string, where its
  comment says that local changes are kept (`StorageAreaMap.cpp:240`). Such an item
  counts in `length()` and `contains()` and reads as absent; the model takes it as
  absent, and no property is about the number of items of a copy.
* With a dropped map, a removed session or a crash `PendingChangesAreAwaited` fails:
  a new map starts with seed 0 again and may take an acknowledgement meant for the
  old one (`StorageAreaMap.cpp:173`), and a change made while connecting fails stays
  pending. `waitUntilSyncingLocalStorageFinished` writes one batch only.

## Not modelled

Every other component is in `PROJECT.json` with the reason. In short: the engine
itself (DOM, layout, script, IndexedDB) is in WebCore, outside this repository;
encoders, decoders and message dispatch are data layout or generated; transports,
media, graphics and authenticators are platform I/O; API wrappers have no state
that the properties need.
Some parts could be modelled and are not: the loaders and caches of the network
process and service worker fetches depend for most of their steps on WebCore, the
file system and the network stack, which a model would have to make up;
`PageLoadState`, `WebBackForwardList` and URL scheme tasks are sequential and unit
tests reach them; `ResponsivenessTimer` is about real time, of which
`WebProcessCache` has the two outcomes. Of the modelled components, what is left
out is said with each module above.
