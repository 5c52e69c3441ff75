---------------------------- MODULE WaitForMessage ----------------------------
(***************************************************************************)
(* Connection::waitForMessage of Platform/IPC/Connection.cpp: the main     *)
(* thread waits on a condition variable for one particular message, the    *)
(* "target", while the connection work queue delivers messages and may     *)
(* find the connection closed.                                             *)
(*                                                                         *)
(* One end of a connection, with its two threads.  Every step of the work  *)
(* queue is one critical section of m_waitForMessageMutex; the main thread *)
(* is at `pc':                                                             *)
(*   "running"   client code or the main run loop                          *)
(*   "dispatch"  in waitForMessage, about to call dispatchMessages         *)
(*   "lock"      dispatchMessages returned, about to take the mutex        *)
(*   "waiting"   parked on m_waitForMessageCondition                       *)
(*   "notified"  unparked, about to take the mutex again                   *)
(*   "timedOut"  the timeout elapsed, about to take the mutex again        *)
(***************************************************************************)
EXTENDS Naturals, Sequences, Functions

CONSTANTS
    SyncMessagesAreMarked,  \* the peer marks sync messages DispatchWhenWaitingForSyncReply
    IsThrottled,            \* isIncomingMessagesThrottlingEnabled()
    MayClose,               \* the peer may close the connection
    MayTimeOut,             \* the calls have a finite timeout
    BatchSize,              \* maxIncomingMessagesDispatchingBatchSize
    KillingThreshold,       \* maxPendingIncomingMessagesKillingThreshold
    MaxMessages             \* bound: messages the peer sends

ASSUME WaitAssumption ==
    /\ {SyncMessagesAreMarked, IsThrottled, MayClose, MayTimeOut} \subseteq BOOLEAN
    /\ {BatchSize, KillingThreshold} \subseteq Nat \ {0}
    /\ MaxMessages \in Nat

VARIABLES
    pc,
    waiting,     \* *m_waitingForMessage, or NotWaiting
    shouldWait,  \* m_shouldWaitForMessages
    closing,     \* how far the work queue is in connectionDidClose
    incoming,    \* m_incomingMessages
    toDispatch,  \* m_messagesToDispatchWhileWaitingForSyncReply
    runLoop,     \* functions dispatched to the main run loop
    timer,       \* the throttler's m_dispatchMessagesTimer is started
    loop,        \* messages the dispatchIncomingMessages call in progress will still take
    valid,       \* m_isValid
    wasKilled,   \* m_wasKilled
    handled,     \* messages the client was given, in order
    abandoned,   \* messages destroyed with a wait that gave up, in order
    sent         \* number of messages that arrived from the peer

vars == <<pc, waiting, shouldWait, closing, incoming, toDispatch, runLoop, timer, loop, valid,
          wasKilled, handled, abandoned, sent>>
queues == <<incoming, toDispatch, runLoop, timer, wasKilled>>

Kinds == {"target", "async", "sync"}
Message == [id : 1..MaxMessages, kind : Kinds]
NoMessage == [id |-> 0, kind |-> "none"]

\* enum class WaitForOption
InterruptWaitingIfSyncMessageArrives == "interrupt"
DispatchIncomingSyncMessagesWhileWaiting == "dispatch"
WaitForOption == {InterruptWaitingIfSyncMessageArrives, DispatchIncomingSyncMessagesWhileWaiting}

\* The members of WaitForMessageState.
NotWaiting == [active |-> FALSE, options |-> {}, decoder |-> NoMessage, interrupted |-> FALSE]
NewWait(options) == [NotWaiting EXCEPT !.active = TRUE, !.options = options]

\* What the decoder of the WaitForMessageState holds.
WaitersMessage == IF waiting.decoder = NoMessage THEN <<>> ELSE <<waiting.decoder>>

Init ==
    /\ pc = "running"
    /\ waiting = NotWaiting
    /\ shouldWait = TRUE
    /\ closing = "open"
    /\ incoming = <<>>
    /\ toDispatch = <<>>
    /\ runLoop = <<>>
    /\ timer = FALSE
    /\ loop = 0
    /\ valid = TRUE
    /\ wasKilled = FALSE
    /\ handled = <<>>
    /\ abandoned = <<>>
    /\ sent = 0

-----------------------------------------------------------------------------
(* The main thread *)

Positions(kind) == {i \in DOMAIN incoming : incoming[i].kind = kind}

\* Deque::remove
Without(ms, i) == [j \in 1..Len(ms) - 1 |-> IF j < i THEN ms[j] ELSE ms[j + 1]]

\* takeFirst, when there is one.
RemoveFirstOf(ms) == IF ms = <<>> THEN ms ELSE Tail(ms)
FirstOf(ms) == IF ms = <<>> THEN ms ELSE <<Head(ms)>>

\* waitForMessage with the message already in the queue: return it.
WaitFindsQueuedMessage ==
    /\ pc = "running" /\ shouldWait
    /\ \E i \in Positions("target") :
       /\ \A j \in Positions("target") : i <= j
       /\ handled' = Append(handled, incoming[i])
       /\ incoming' = Without(incoming, i)
    /\ UNCHANGED <<pc, waiting, shouldWait, closing, toDispatch, runLoop, timer, wasKilled,
                   abandoned, loop, valid, sent>>

\* waitForMessage starts to wait, unless it is to be interrupted at once by a
\* sync message that is already in the queue.
WaitStarts(options) ==
    /\ pc = "running" /\ shouldWait
    /\ Positions("target") = {}
    /\ ~(InterruptWaitingIfSyncMessageArrives \in options /\ Positions("sync") # {})
    /\ pc' = "dispatch"
    /\ waiting' = NewWait(options)
    /\ UNCHANGED <<shouldWait, closing, queues, handled, abandoned, loop, valid, sent>>

\* dispatchMessage: the client is given the messages, unless the connection has
\* been invalidated.
Dispatch(ms) == handled' = IF valid THEN handled \o ms ELSE handled

\* SyncMessageState::dispatchMessages
WaitDispatchesMessages ==
    /\ pc = "dispatch"
    /\ pc' = "lock"
    /\ Dispatch(toDispatch)
    /\ toDispatch' = <<>>
    /\ UNCHANGED <<waiting, shouldWait, closing, incoming, runLoop, timer, wasKilled, abandoned,
                   loop, valid, sent>>

\* waitForMessage returns the message it waited for.
WaitReturnsMessage ==
    /\ pc = "lock" /\ waiting.decoder # NoMessage
    /\ handled' = Append(handled, waiting.decoder)
    /\ waiting' = NotWaiting
    /\ pc' = "running"
    /\ UNCHANGED <<shouldWait, closing, queues, abandoned, loop, valid, sent>>

\* waitUntil parks the thread and releases the mutex in one step.
WaitBlocks ==
    /\ pc = "lock" /\ waiting.decoder = NoMessage
    /\ pc' = "waiting"
    /\ UNCHANGED <<waiting, shouldWait, closing, queues, handled, abandoned, loop, valid, sent>>

WaitTimesOut ==
    /\ pc = "waiting" /\ MayTimeOut
    /\ pc' = "timedOut"
    /\ UNCHANGED <<waiting, shouldWait, closing, queues, handled, abandoned, loop, valid, sent>>

\* Faulty: a finite timeout is not looked at.
WaitGivesUpIgnoringTimeout ==
    /\ pc = "notified" /\ waiting.interrupted
    /\ pc' = "running"
    /\ waiting' = NotWaiting
    /\ abandoned' = abandoned \o WaitersMessage
    /\ UNCHANGED <<shouldWait, closing, queues, handled, loop, valid, sent>>

\* waitForMessage returns nothing; the WaitForMessageState goes out of scope
\* with whatever decoder it has.
WaitGivesUp ==
    /\ pc = "timedOut" \/ (pc = "notified" /\ waiting.interrupted)
    /\ pc' = "running"
    /\ waiting' = NotWaiting
    /\ abandoned' = abandoned \o WaitersMessage
    /\ UNCHANGED <<shouldWait, closing, queues, handled, loop, valid, sent>>

WaitLoops ==
    /\ pc = "notified"
    /\ ~waiting.interrupted
    /\ pc' = "dispatch"
    /\ UNCHANGED <<waiting, shouldWait, closing, queues, handled, abandoned, loop, valid, sent>>

RunLoopTakes(task) == pc = "running" /\ loop = 0 /\ runLoop # <<>> /\ Head(runLoop) = task

\* The main run loop runs
\* dispatchMessagesAndResetDidScheduleDispatchMessagesForConnection.
RunDispatchMessages ==
    /\ RunLoopTakes("dispatchMessages")
    /\ Dispatch(toDispatch)
    /\ toDispatch' = <<>>
    /\ runLoop' = Tail(runLoop)
    /\ UNCHANGED <<pc, waiting, shouldWait, closing, incoming, timer, wasKilled, abandoned, loop,
                   valid, sent>>

\* Faulty: dispatchIncomingMessages does not schedule itself again.
RescheduledNever(tasks, started) == runLoop' = tasks /\ timer' = started

\* dispatchIncomingMessages leaves messages behind and schedules itself again,
\* through the timer while it is being throttled.
Rescheduled(tasks, started) ==
    \/ runLoop' = Append(tasks, "incoming") /\ timer' = started
    \/ runLoop' = tasks /\ timer' = TRUE

\* The turns of its loop: from 1 to below the number of messages to process,
\* those left by the first, or a batch of them.
TurnsLeft(n, batch) == (IF n - 1 < batch THEN n - 1 ELSE batch) - 1

\* dispatchOneIncomingMessage, or dispatchIncomingMessages, which schedules
\* itself again when it leaves messages behind and goes on with a batch of
\* those.  The throttling level is left out: any batch size it can lead to may
\* be used, with or without the timer.
DispatchIncoming(tasks, started) ==
    /\ Dispatch(FirstOf(incoming))
    /\ incoming' = RemoveFirstOf(incoming)
    /\ IF IsThrottled /\ Len(incoming) > 1
       THEN /\ Rescheduled(tasks, started)
            /\ \E batch \in 1..BatchSize : loop' = TurnsLeft(Len(incoming), batch)
       ELSE runLoop' = tasks /\ timer' = started /\ loop' = 0
    /\ UNCHANGED <<pc, waiting, shouldWait, closing, toDispatch, wasKilled, abandoned, valid, sent>>

RunDispatchIncoming ==
    /\ RunLoopTakes("incoming")
    /\ DispatchIncoming(Tail(runLoop), timer)

\* The timer need not keep its place among the functions of the run loop.
TimerFires ==
    /\ pc = "running" /\ loop = 0 /\ timer
    /\ DispatchIncoming(runLoop, FALSE)

\* The loop of dispatchIncomingMessages goes on, with what is left.
ContinueDispatchIncoming ==
    /\ pc = "running" /\ loop > 0
    /\ Dispatch(FirstOf(incoming))
    /\ incoming' = RemoveFirstOf(incoming)
    /\ loop' = IF incoming = <<>> THEN 0 ELSE loop - 1
    /\ UNCHANGED <<pc, waiting, shouldWait, closing, toDispatch, runLoop, timer, wasKilled,
                   abandoned, valid, sent>>

\* The function that connectionDidClose dispatches to the main run loop.
RunDidClose ==
    /\ RunLoopTakes("didClose")
    /\ valid' = FALSE
    /\ runLoop' = Tail(runLoop)
    /\ UNCHANGED <<pc, waiting, shouldWait, closing, incoming, toDispatch, timer, loop, wasKilled,
                   handled, abandoned, sent>>

-----------------------------------------------------------------------------
(* The connection work queue *)

\* m_waitForMessageCondition.notifyOne or notifyAll: nothing happens unless the
\* main thread is parked.
Notified == IF pc = "waiting" THEN "notified" ELSE pc

\* Faulty: a message the wait already has is replaced by the next.
WaitsForMoreAlways == waiting.active

\* processIncomingMessage finds m_waitingForMessage set and without a decoder.
WaitsForMore == waiting.active /\ waiting.decoder = NoMessage
WaitsForMoreWith(option) == WaitsForMore /\ option \in waiting.options

Arrives(m, kind) == closing = "open" /\ sent < MaxMessages /\ m = [id |-> sent + 1, kind |-> kind]

\* The message the main thread waits for.
DeliverToWaiter ==
    \E m \in Message :
        /\ Arrives(m, "target") /\ WaitsForMore
        /\ waiting' = [waiting EXCEPT !.decoder = m]
        /\ pc' = Notified
        /\ sent' = m.id
        /\ UNCHANGED <<shouldWait, closing, queues, handled, abandoned, loop, valid>>

\* SyncMessageState::processIncomingMessage, for a message that takes those
\* queued before it along (shouldMaintainOrderingWithAsyncMessages) or not.
ProcessWhileWaiting(m, ordered) ==
    /\ IF ordered
       THEN toDispatch' = Append(toDispatch \o incoming, m) /\ incoming' = <<>>
       ELSE toDispatch' = Append(toDispatch, m) /\ UNCHANGED incoming
    /\ runLoop' = IF "dispatchMessages" \in Range(runLoop) THEN runLoop
                  ELSE Append(runLoop, "dispatchMessages")

\* A sync message goes to the SyncMessageState; the condition is notified when
\* the wait asks for sync messages to be dispatched.
DeliverToSyncMessageState ==
    \E m \in Message, ordered \in BOOLEAN :
        /\ Arrives(m, "sync") /\ SyncMessagesAreMarked
        /\ WaitsForMoreWith(InterruptWaitingIfSyncMessageArrives)
             => WaitsForMoreWith(DispatchIncomingSyncMessagesWhileWaiting)
        /\ ProcessWhileWaiting(m, ordered)
        /\ pc' = IF WaitsForMoreWith(DispatchIncomingSyncMessagesWhileWaiting) THEN Notified ELSE pc
        /\ sent' = m.id
        /\ UNCHANGED <<waiting, shouldWait, closing, timer, wasKilled, handled, abandoned, loop, valid>>

\* enqueueIncomingMessage.  A throttled connection is that of the UI process to
\* a web process; when its queue is full the web process is killed.
Enqueue(m) ==
    \/ /\ wasKilled
       /\ UNCHANGED <<incoming, runLoop, wasKilled>>
    \/ /\ ~wasKilled /\ IsThrottled /\ Len(incoming) >= KillingThreshold
       /\ wasKilled' = TRUE
       /\ incoming' = <<>>
       /\ UNCHANGED runLoop
    \/ /\ ~wasKilled /\ ~(IsThrottled /\ Len(incoming) >= KillingThreshold)
       /\ incoming' = Append(incoming, m)
       /\ runLoop' = IF IsThrottled /\ incoming # <<>> THEN runLoop ELSE Append(runLoop, "incoming")
       /\ UNCHANGED wasKilled

\* A sync message interrupts the wait and is queued.
DeliverInterrupting ==
    \E m \in Message :
        /\ Arrives(m, "sync")
        /\ WaitsForMoreWith(InterruptWaitingIfSyncMessageArrives)
        /\ ~(WaitsForMoreWith(DispatchIncomingSyncMessagesWhileWaiting) /\ SyncMessagesAreMarked)
        /\ waiting' = [waiting EXCEPT !.interrupted = TRUE]
        /\ pc' = Notified
        /\ Enqueue(m)
        /\ sent' = m.id
        /\ UNCHANGED <<shouldWait, closing, toDispatch, timer, handled, abandoned, loop, valid>>

\* Faulty: the message is queued outside the critical section that saw no
\* waiter, so a wait may start in between.
DeliverToQueueWithoutLock ==
    \E m \in Message, kind \in Kinds :
        /\ Arrives(m, kind)
        /\ Enqueue(m)
        /\ sent' = m.id
        /\ UNCHANGED <<pc, waiting, shouldWait, closing, toDispatch, timer, handled, abandoned, loop, valid>>

\* Any other message is queued.
DeliverToQueue ==
    \E m \in Message, kind \in Kinds :
        /\ Arrives(m, kind)
        /\ ~(kind = "target" /\ WaitsForMore)
        /\ ~(kind = "sync" /\ SyncMessagesAreMarked)
        /\ ~(kind = "sync" /\ WaitsForMoreWith(InterruptWaitingIfSyncMessageArrives))
        /\ Enqueue(m)
        /\ sent' = m.id
        /\ UNCHANGED <<pc, waiting, shouldWait, closing, toDispatch, timer, handled, abandoned, loop, valid>>

\* connectionDidClose: the flags are set under the mutex ...
CloseSetsFlags ==
    /\ MayClose /\ closing = "open"
    /\ closing' = "flagsSet"
    /\ shouldWait' = FALSE
    /\ waiting' = [waiting EXCEPT !.interrupted = waiting.active]
    /\ UNCHANGED <<pc, queues, handled, abandoned, loop, valid, sent>>

\* ... the condition is notified after it is released, and the main run loop
\* is told.
CloseNotifies ==
    /\ closing = "flagsSet"
    /\ closing' = "closed"
    /\ pc' = Notified
    /\ runLoop' = Append(runLoop, "didClose")
    /\ UNCHANGED <<waiting, shouldWait, incoming, toDispatch, timer, loop, valid, wasKilled, handled,
                   abandoned, sent>>

-----------------------------------------------------------------------------
(* Specification *)

MainThread ==
    \/ WaitDispatchesMessages
    \/ WaitReturnsMessage
    \/ WaitBlocks
    \/ WaitGivesUp
    \/ WaitLoops
    \/ RunDispatchMessages
    \/ RunDispatchIncoming
    \/ TimerFires
    \/ ContinueDispatchIncoming
    \/ RunDidClose

WorkQueue ==
    \/ DeliverToWaiter
    \/ DeliverToSyncMessageState
    \/ DeliverInterrupting
    \/ DeliverToQueue
    \/ CloseSetsFlags
    \/ CloseNotifies

Next ==
    \/ WaitFindsQueuedMessage
    \/ \E options \in SUBSET WaitForOption : WaitStarts(options)
    \/ MainThread
    \/ WaitTimesOut
    \/ WorkQueue

Spec == Init /\ [][Next]_vars

\* The main thread runs when it is not parked, a finite timeout elapses, and
\* connectionDidClose, once begun, goes on.  The peer need not send anything.
FairSpec == Spec /\ WF_vars(MainThread) /\ WF_vars(WaitTimesOut) /\ WF_vars(CloseNotifies)

-----------------------------------------------------------------------------
(* Properties *)

\* The race fixed in 2020: a thread parked for a message is never parked while
\* that message is in its decoder or in the queue behind it.
ParkedThreadMissedNoMessage ==
    pc = "waiting" => waiting.decoder = NoMessage /\ Positions("target") = {}

\* Where a message that arrived can be, and those a wait has lost.
Places == [incoming |-> incoming, toDispatch |-> toDispatch, handled |-> handled,
           waiter |-> WaitersMessage, abandoned |-> abandoned]

\* A wait that times out or is interrupted takes the message it was given in the
\* meantime with it (waitForMessage clears m_waitingForMessage and returns
\* nothing).  Nothing else is ever lost while the connection is valid and its
\* queue has not overflowed: every other message that arrived is queued, with
\* the waiter or was given to the client, and in one place only.
OnlyAbandonedWaitsLoseMessages ==
    valid /\ ~wasKilled =>
        /\ \A a \in DOMAIN Places : \A i \in DOMAIN Places[a] : Places[a][i].id \in 1..sent
        /\ \A n \in 1..sent : \E a \in DOMAIN Places : \E i \in DOMAIN Places[a] : Places[a][i].id = n
        /\ \A a, b \in DOMAIN Places : \A i \in DOMAIN Places[a], j \in DOMAIN Places[b] :
               Places[a][i].id = Places[b][j].id => a = b /\ i = j
        /\ \A i \in DOMAIN abandoned : abandoned[i].kind = "target"

\* waitForMessage takes messages out of the queue behind the back of the run
\* loop; still no queued message is left without a function to dispatch it.
QueuedMessagesAreScheduled ==
    /\ incoming # <<>> => "incoming" \in Range(runLoop) \/ timer
    /\ toDispatch # <<>> => "dispatchMessages" \in Range(runLoop)

\* Every wait with a finite timeout ends.
WaitEnds == (pc # "running") ~> (pc = "running")

\* "Use this to make waitForMessage be interrupted immediately by any incoming
\* sync messages" (Connection.h), and "Once m_waitingForMessage is set,
\* messageWaitingInterrupted will cover this" for a closed connection: once it
\* has been notified, the thread does not stay parked in an interrupted wait.
\* The code does not keep this: a notification between dispatchMessages and the
\* wait is not seen.
InterruptedWaitIsNotParked ==
    pc = "waiting" /\ waiting.interrupted => closing = "flagsSet"
=============================================================================
