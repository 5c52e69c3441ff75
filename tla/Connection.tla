------------------------------ MODULE Connection ------------------------------
(***************************************************************************)
(* Platform/IPC/Connection: how the main threads of several processes send *)
(* each other messages, wait for the replies of synchronous ones, and keep *)
(* dispatching incoming messages while they wait.                          *)
(*                                                                         *)
(* Each process has one main thread, one SyncMessageState (a singleton     *)
(* shared by its connections) and, for every peer, one end of a connection *)
(* with a connection work queue that reads the messages of that peer.      *)
(* The main thread is modelled by its call stack (`stack', the innermost   *)
(* call last): a "wait" frame is waitForSyncReply, a "batch" frame is the  *)
(* loop of a SyncMessageState dispatch method over the vector it swapped   *)
(* out, an "incoming" frame is the loop of dispatchIncomingMessages, and a *)
(* "handler" frame is the client code that handles one message.  Client    *)
(* code is arbitrary: with the main thread in a handler, or idle, it may   *)
(* send any message of CallSites, invalidate a connection, or return.      *)
(***************************************************************************)
EXTENDS Naturals, Sequences, FiniteSets, SequencesExt

CONSTANTS
    Processes,
    Links,                   \* <<p, q>>: p has an end of a connection to q
    OnlySendsMarkedInMarked, \* ends set OnlySendMessagesAsDispatchWhenWaitingForSyncReplyWhenProcessingSuchAMessage
    Throttled,               \* ends on which enableIncomingMessagesThrottling was called
    CallSites,               \* the messages client code may send, with their options
    Invalidates,             \* ends that client code may invalidate
    MayExit,                 \* processes that may exit or crash at any time
    ExitsOnSyncFailure,      \* ends with m_shouldExitOnSyncMessageSendFailure
    ExitsOnClose,            \* ends whose m_didCloseOnConnectionWorkQueueCallback exits the process
    NoPeer,                  \* stands for "any connection" in a dispatchMessages loop
    MaxMessages              \* bound: messages an end sends, replies not counted

CallSite == [from : Processes, to : Processes,
             sync      : BOOLEAN,  \* sendSync rather than send
             marked    : BOOLEAN,  \* DispatchMessageEvenWhenWaitingForSyncReply; always so for sendSync
             ordered   : BOOLEAN,  \* MaintainOrderingWithAsyncMessages
             forced    : BOOLEAN,  \* ...EvenWhenWaitingForUnboundedSyncReply
             unbounded : BOOLEAN,  \* sent inside an UnboundedSynchronousIPCScope
             timeout   : BOOLEAN,  \* the wait for the reply has a finite timeout
             delayed   : BOOLEAN,  \* the handler may keep the reply encoder and reply later
             nested    : BOOLEAN]  \* sent by handlers of other messages only

ASSUME ConnectionAssumption ==
    /\ IsFiniteSet(Processes)
    /\ NoPeer \notin Processes
    /\ Links \subseteq Processes \X Processes
    /\ \A l \in Links : l[1] # l[2] /\ <<l[2], l[1]>> \in Links
    /\ OnlySendsMarkedInMarked \cup Throttled \cup Invalidates \cup ExitsOnSyncFailure
         \cup ExitsOnClose \subseteq Links
    /\ MayExit \subseteq Processes
    /\ CallSites \subseteq CallSite
    /\ \A s \in CallSites : <<s.from, s.to>> \in Links /\ (s.sync => s.marked)
    /\ MaxMessages \in Nat

VARIABLES
    alive,       \* the process has not exited
    stack,       \* the calls the main thread is in, innermost last
    runLoop,     \* functions dispatched to RunLoop::main() and not yet run
    signalled,   \* m_waitForSyncReplySemaphore
    workSet,     \* m_didScheduleDispatchMessagesWorkSet
    toDispatch,  \* m_messagesToDispatchWhileWaitingForSyncReply
    end,         \* the members of each end of a connection
    channel,     \* channel[p][q]: sent by p, not yet read by the work queue of q's end
    owedReplies  \* delayed replies that client code still has to send

vars == <<alive, stack, runLoop, signalled, workSet, toDispatch, end, channel, owedReplies>>

Peers(p) == {q \in Processes : <<p, q>> \in Links}

\* A message sent from a call site, with the DispatchWhenWaitingForSyncReply
\* flag its encoder was given, and the reply to one.  Ids are unique and
\* increase on each end: they stand for sync request ids, and compare the
\* order in which messages were sent.
NewMessage(site, id, dispatch) ==
    [kind |-> "message", site |-> site, id |-> id, dispatch |-> dispatch]
SyncMessageReply(id) == [kind |-> "reply", id |-> id]

NewEnd == [valid      |-> TRUE,    \* m_isValid
           open       |-> TRUE,    \* m_isConnected, until platformInvalidate
           shouldWait |-> TRUE,    \* m_shouldWaitForSyncReplies
           pending    |-> <<>>,    \* m_pendingSyncReplies
           incoming   |-> <<>>,    \* m_incomingMessages
           lastID     |-> 0]       \* m_syncRequestID, counting every message

DeadEnd == [NewEnd EXCEPT !.valid = FALSE, !.open = FALSE, !.shouldWait = FALSE]

WaitFrame(site, id)  == [kind |-> "wait", peer |-> site.to, site |-> site, id |-> id,
                         at |-> "dispatch"]
BatchFrame(peer, ms) == [kind |-> "batch", peer |-> peer, rest |-> ms, putBack |-> <<>>]
IncomingFrame(q, n)  == [kind |-> "incoming", peer |-> q, left |-> n]
HandlerFrame(q, m, marked) == [kind |-> "handler", peer |-> q, message |-> m, marked |-> marked]

Init ==
    /\ alive = [p \in Processes |-> TRUE]
    /\ stack = [p \in Processes |-> <<>>]
    /\ runLoop = [p \in Processes |-> <<>>]
    /\ signalled = [p \in Processes |-> FALSE]
    /\ workSet = [p \in Processes |-> {}]
    /\ toDispatch = [p \in Processes |-> <<>>]
    /\ end = [p \in Processes |-> [q \in Peers(p) |-> NewEnd]]
    /\ channel = [p \in Processes |-> [q \in Peers(p) |-> <<>>]]
    /\ owedReplies = [p \in Processes |-> {}]

-----------------------------------------------------------------------------
(* The main thread's stack *)

TopIs(p, kind) == stack[p] # <<>> /\ Last(stack[p]).kind = kind
Top(p) == Last(stack[p])

\* The main thread is executing client code.
InClientCode(p) == alive[p] /\ (stack[p] = <<>> \/ TopIs(p, "handler"))

SetTop(p, frame) == [stack[p] EXCEPT ![Len(stack[p])] = frame]

\* UnboundedSynchronousIPCScope::hasOngoingUnboundedSyncIPC()
HasOngoingUnboundedSyncIPC(p) ==
    \E i \in DOMAIN stack[p] : stack[p][i].kind = "wait" /\ stack[p][i].site.unbounded

\* m_inDispatchMessageMarkedDispatchWhenWaitingForSyncReplyCount of p's end to
\* q is not zero.
InDispatchMarked(p, q) ==
    \E i \in DOMAIN stack[p] :
        stack[p][i].kind = "handler" /\ stack[p][i].peer = q /\ stack[p][i].marked

-----------------------------------------------------------------------------
(* Sending *)

\* sendMessage: refused once the end is invalid; the work queue sends what is
\* queued, in order, and nothing reaches an end that has been closed.
Sent(p, q, m) ==
    IF end[p][q].valid /\ end[p][q].open /\ end[q][p].open
    THEN [channel EXCEPT ![p][q] = Append(@, m)]
    ELSE channel

\* Faulty: a message sent back while a marked one is handled is not marked.
DispatchFlagIgnoringMarkedDispatch(p, site) ==
    IF site.marked /\ <<p, site.to>> \notin OnlySendsMarkedInMarked
    THEN "Yes"
    ELSE IF site.forced THEN "YesDuringUnboundedIPC" ELSE "No"

\* The flag that sendMessage gives the encoder.
DispatchFlag(p, site) ==
    IF site.marked /\ (<<p, site.to>> \in OnlySendsMarkedInMarked => InDispatchMarked(p, site.to))
    THEN "Yes"
    ELSE IF site.forced THEN "YesDuringUnboundedIPC" ELSE "No"

NextMessage(p, site) ==
    NewMessage(site, end[p][site.to].lastID + 1, DispatchFlag(p, site))

\* The process ends: its main thread, its queues and its ends are gone.  What
\* it has sent can still be read.
Exit(p) ==
    /\ alive' = [alive EXCEPT ![p] = FALSE]
    /\ stack' = [stack EXCEPT ![p] = <<>>]
    /\ runLoop' = [runLoop EXCEPT ![p] = <<>>]
    /\ signalled' = [signalled EXCEPT ![p] = FALSE]
    /\ workSet' = [workSet EXCEPT ![p] = {}]
    /\ toDispatch' = [toDispatch EXCEPT ![p] = <<>>]
    /\ end' = [end EXCEPT ![p] = [q \in Peers(p) |-> DeadEnd]]
    /\ channel' = [q \in Processes |->
                     [r \in Peers(q) |-> IF r = p THEN <<>> ELSE channel[q][r]]]
    /\ owedReplies' = [owedReplies EXCEPT ![p] = {}]

ProcessExits(p) == p \in MayExit /\ alive[p] /\ Exit(p)

\* Client code gets to the call.
Reaches(p, site) == InClientCode(p) /\ site.from = p /\ (site.nested => stack[p] # <<>>)

\* Connection::send
SendAsync(p, site) ==
    LET q == site.to IN
    /\ Reaches(p, site) /\ ~site.sync
    /\ end[p][q].valid /\ end[p][q].lastID < MaxMessages
    /\ channel' = Sent(p, q, NextMessage(p, site))
    /\ end' = [end EXCEPT ![p][q].lastID = @ + 1]
    /\ UNCHANGED <<alive, stack, runLoop, signalled, workSet, toDispatch, owedReplies>>

\* sendSyncMessage up to the wait: push the pending reply, send the message.
SendSyncMessage(p, site) ==
    LET q == site.to
        m == NextMessage(p, site)
    IN
    /\ Reaches(p, site) /\ site.sync
    /\ end[p][q].valid /\ end[p][q].shouldWait /\ end[p][q].lastID < MaxMessages
    /\ end' = [end EXCEPT ![p][q].lastID = m.id,
                          ![p][q].pending = Append(@, [id |-> m.id, replied |-> FALSE])]
    /\ channel' = Sent(p, q, m)
    /\ stack' = [stack EXCEPT ![p] = Append(@, WaitFrame(site, m.id))]
    /\ UNCHANGED <<alive, runLoop, signalled, workSet, toDispatch, owedReplies>>

\* sendSyncMessage on an end that is invalid or closed: didFailToSendSyncMessage.
SendSyncMessageFails(p, site) ==
    LET q == site.to IN
    /\ Reaches(p, site) /\ site.sync /\ end[p][q].lastID < MaxMessages
    /\ ~end[p][q].valid \/ ~end[p][q].shouldWait
    /\ <<p, q>> \in ExitsOnSyncFailure
    /\ Exit(p)

-----------------------------------------------------------------------------
(* waitForSyncReply *)

\* SyncMessageState::dispatchMessages swaps out the vector and loops over it.
WaitDispatchesMessages(p) ==
    /\ TopIs(p, "wait") /\ Top(p).at = "dispatch"
    /\ LET checking == SetTop(p, [Top(p) EXCEPT !.at = "check"]) IN
       stack' = [stack EXCEPT ![p] = IF toDispatch[p] = <<>> THEN checking
                                     ELSE Append(checking, BatchFrame(NoPeer, toDispatch[p]))]
    /\ toDispatch' = [toDispatch EXCEPT ![p] = <<>>]
    /\ UNCHANGED <<alive, runLoop, signalled, workSet, end, channel, owedReplies>>

\* Faulty: pops the outermost pending reply.
PoppedPendingRepliesFromFront(pending) == Tail(pending)

PoppedPendingReplies(pending) == Front(pending)

\* waitForSyncReply returns, with or without a reply, and sendSyncMessage pops
\* the pending reply.
SendSyncReturns(p, gotReply) ==
    LET q == Top(p).peer IN
    IF ~gotReply /\ <<p, q>> \in ExitsOnSyncFailure
    THEN Exit(p)
    ELSE /\ end' = [end EXCEPT ![p][q].pending = PoppedPendingReplies(@)]
         /\ stack' = [stack EXCEPT ![p] = Front(@)]
         /\ UNCHANGED <<alive, runLoop, signalled, workSet, toDispatch, channel, owedReplies>>

\* The reply is there, or there will be none: stop waiting.
WaitReturns(p) ==
    /\ TopIs(p, "wait") /\ Top(p).at = "check"
    /\ LET e == end[p][Top(p).peer] IN
       /\ Last(e.pending).replied \/ ~e.shouldWait \/ ~e.valid
       /\ SendSyncReturns(p, Last(e.pending).replied)

WaitBlocks(p) ==
    /\ TopIs(p, "wait") /\ Top(p).at = "check"
    /\ LET e == end[p][Top(p).peer] IN ~Last(e.pending).replied /\ e.shouldWait /\ e.valid
    /\ stack' = [stack EXCEPT ![p] = SetTop(p, [Top(p) EXCEPT !.at = "blocked"])]
    /\ UNCHANGED <<alive, runLoop, signalled, workSet, toDispatch, end, channel, owedReplies>>

\* m_waitForSyncReplySemaphore.waitUntil takes the signal, or times out.
WaitWakes(p) ==
    /\ TopIs(p, "wait") /\ Top(p).at = "blocked"
    /\ signalled[p]
    /\ signalled' = [signalled EXCEPT ![p] = FALSE]
    /\ stack' = [stack EXCEPT ![p] = SetTop(p, [Top(p) EXCEPT !.at = "dispatch"])]
    /\ UNCHANGED <<alive, runLoop, workSet, toDispatch, end, channel, owedReplies>>

WaitTimesOut(p) ==
    /\ TopIs(p, "wait") /\ Top(p).at = "blocked"
    /\ Top(p).site.timeout /\ ~signalled[p]
    /\ SendSyncReturns(p, FALSE)

-----------------------------------------------------------------------------
(* Dispatching messages on the main thread *)

\* Connection::dispatchMessage(std::unique_ptr<Decoder>): a message of an
\* invalid connection is dropped, any other calls the client.
WithHandler(p, q, m, frames) ==
    IF ~end[p][q].valid
    THEN frames
    ELSE Append(frames, HandlerFrame(q, m,
            \/ m.dispatch = "Yes"
            \/ m.dispatch = "YesDuringUnboundedIPC" /\ HasOngoingUnboundedSyncIPC(p)))

\* One turn of the loop of dispatchMessages, or of
\* dispatchMessagesAndResetDidScheduleDispatchMessagesForConnection, which
\* keeps the messages of other connections aside.
BatchDispatchesNext(p) ==
    /\ TopIs(p, "batch") /\ Top(p).rest # <<>>
    /\ LET f == Top(p)
           c == Head(f.rest)
           next == [f EXCEPT !.rest = Tail(@)]
       IN stack' = [stack EXCEPT ![p] =
            IF f.peer \notin {NoPeer, c.peer}
            THEN SetTop(p, [next EXCEPT !.putBack = Append(@, c)])
            ELSE WithHandler(p, c.peer, c.message, SetTop(p, next))]
    /\ UNCHANGED <<alive, runLoop, signalled, workSet, toDispatch, end, channel, owedReplies>>

\* Faulty: the messages kept aside are forgotten.
BatchEndsWithoutPuttingBack(p) ==
    /\ TopIs(p, "batch") /\ Top(p).rest = <<>>
    /\ stack' = [stack EXCEPT ![p] = Front(@)]
    /\ UNCHANGED <<alive, runLoop, signalled, workSet, toDispatch, end, channel, owedReplies>>

\* The loop is over; messages kept aside go back in front of the vector.
BatchEnds(p) ==
    /\ TopIs(p, "batch") /\ Top(p).rest = <<>>
    /\ toDispatch' = [toDispatch EXCEPT ![p] = Top(p).putBack \o @]
    /\ stack' = [stack EXCEPT ![p] = Front(@)]
    /\ UNCHANGED <<alive, runLoop, signalled, workSet, end, channel, owedReplies>>

\* The client's handler returns; dispatchSyncMessage sends the reply.
HandlerReturns(p) ==
    /\ TopIs(p, "handler")
    /\ LET f == Top(p) IN
       channel' = IF f.message.site.sync
                  THEN Sent(p, f.peer, SyncMessageReply(f.message.id))
                  ELSE channel
    /\ stack' = [stack EXCEPT ![p] = Front(@)]
    /\ UNCHANGED <<alive, runLoop, signalled, workSet, toDispatch, end, owedReplies>>

\* The client's handler took the reply encoder and returns before it replies.
HandlerKeepsReply(p) ==
    /\ TopIs(p, "handler") /\ Top(p).message.site.delayed
    /\ owedReplies' = [owedReplies EXCEPT ![p] = @ \cup {[peer |-> Top(p).peer, id |-> Top(p).message.id]}]
    /\ stack' = [stack EXCEPT ![p] = Front(@)]
    /\ UNCHANGED <<alive, runLoop, signalled, workSet, toDispatch, end, channel>>

SendDelayedReply(p) ==
    /\ InClientCode(p)
    /\ \E r \in owedReplies[p] :
         /\ channel' = Sent(p, r.peer, SyncMessageReply(r.id))
         /\ owedReplies' = [owedReplies EXCEPT ![p] = @ \ {r}]
    /\ UNCHANGED <<alive, stack, runLoop, signalled, workSet, toDispatch, end>>

\* Connection::invalidate.
Invalidate(p, q) ==
    /\ InClientCode(p)
    /\ <<p, q>> \in Invalidates /\ end[p][q].valid
    /\ end' = [end EXCEPT ![p][q].valid = FALSE]
    /\ UNCHANGED <<alive, stack, runLoop, signalled, workSet, toDispatch, channel, owedReplies>>

-----------------------------------------------------------------------------
(* The main run loop *)

Task(name, q) == [name |-> name, peer |-> q]

RunLoopTakes(p, name) ==
    /\ alive[p] /\ stack[p] = <<>>
    /\ runLoop[p] # <<>> /\ Head(runLoop[p]).name = name

\* dispatchMessagesAndResetDidScheduleDispatchMessagesForConnection
DispatchMessagesForConnection(p) ==
    /\ RunLoopTakes(p, "dispatchMessages")
    /\ LET q == Head(runLoop[p]).peer IN
       /\ workSet' = [workSet EXCEPT ![p] = @ \ {q}]
       /\ stack' = [stack EXCEPT ![p] = <<BatchFrame(q, toDispatch[p])>>]
    /\ toDispatch' = [toDispatch EXCEPT ![p] = <<>>]
    /\ runLoop' = [runLoop EXCEPT ![p] = Tail(@)]
    /\ UNCHANGED <<alive, signalled, end, channel, owedReplies>>

\* dispatchOneIncomingMessage
DispatchOneIncomingMessage(p) ==
    /\ RunLoopTakes(p, "incoming")
    /\ LET q == Head(runLoop[p]).peer
           ms == end[p][q].incoming
       IN
       /\ <<p, q>> \notin Throttled
       /\ IF ms = <<>>
          THEN UNCHANGED <<stack, end>>
          ELSE /\ end' = [end EXCEPT ![p][q].incoming = Tail(@)]
               /\ stack' = [stack EXCEPT ![p] = WithHandler(p, q, Head(ms), <<>>)]
    /\ runLoop' = [runLoop EXCEPT ![p] = Tail(@)]
    /\ UNCHANGED <<alive, signalled, workSet, toDispatch, channel, owedReplies>>

\* Faulty: dispatchIncomingMessages does not schedule itself again.
DispatchIncomingMessagesWithoutReschedule(p) ==
    /\ RunLoopTakes(p, "incoming")
    /\ LET q == Head(runLoop[p]).peer
           ms == end[p][q].incoming
       IN
       /\ <<p, q>> \in Throttled
       /\ IF ms = <<>>
          THEN UNCHANGED <<stack, end>>
          ELSE /\ end' = [end EXCEPT ![p][q].incoming = Tail(@)]
               /\ stack' = [stack EXCEPT ![p] =
                    WithHandler(p, q, Head(ms), <<IncomingFrame(q, Len(ms) - 1)>>)]
    /\ runLoop' = [runLoop EXCEPT ![p] = Tail(@)]
    /\ UNCHANGED <<alive, signalled, workSet, toDispatch, channel, owedReplies>>

\* dispatchIncomingMessages: schedules itself again before it dispatches, and
\* dispatches as many messages as were left behind the first one.  (With fewer
\* than 600 messages the MessagesThrottler neither cuts that number nor uses
\* its timer.)
DispatchIncomingMessages(p) ==
    /\ RunLoopTakes(p, "incoming")
    /\ LET q == Head(runLoop[p]).peer
           ms == end[p][q].incoming
       IN
       /\ <<p, q>> \in Throttled
       /\ IF ms = <<>>
          THEN /\ runLoop' = [runLoop EXCEPT ![p] = Tail(@)]
               /\ UNCHANGED <<stack, end>>
          ELSE /\ runLoop' = [runLoop EXCEPT ![p] =
                    IF Len(ms) > 1 THEN Append(Tail(@), Task("incoming", q)) ELSE Tail(@)]
               /\ end' = [end EXCEPT ![p][q].incoming = Tail(@)]
               /\ stack' = [stack EXCEPT ![p] =
                    WithHandler(p, q, Head(ms), <<IncomingFrame(q, Len(ms) - 1)>>)]
    /\ UNCHANGED <<alive, signalled, workSet, toDispatch, channel, owedReplies>>

\* One more turn of the loop of dispatchIncomingMessages: `left' starts at
\* messagesToProcess and the loop counts from 1.
DispatchNextIncomingMessage(p) ==
    /\ TopIs(p, "incoming")
    /\ LET f == Top(p)
           ms == end[p][f.peer].incoming
       IN
       IF f.left <= 1 \/ ms = <<>>
       THEN /\ stack' = [stack EXCEPT ![p] = Front(@)]
            /\ UNCHANGED end
       ELSE /\ end' = [end EXCEPT ![p][f.peer].incoming = Tail(@)]
            /\ stack' = [stack EXCEPT ![p] =
                 WithHandler(p, f.peer, Head(ms), SetTop(p, [f EXCEPT !.left = @ - 1]))]
    /\ UNCHANGED <<alive, runLoop, signalled, workSet, toDispatch, channel, owedReplies>>

\* The function connectionDidClose dispatches to the main run loop.
DispatchDidClose(p) ==
    /\ RunLoopTakes(p, "didClose")
    /\ end' = [end EXCEPT ![p][Head(runLoop[p]).peer].valid = FALSE]
    /\ runLoop' = [runLoop EXCEPT ![p] = Tail(@)]
    /\ UNCHANGED <<alive, stack, signalled, workSet, toDispatch, channel, owedReplies>>

-----------------------------------------------------------------------------
(* The connection work queue of p's end to q *)

CanRead(p, q) == alive[p] /\ end[p][q].open /\ channel[q][p] # <<>>

\* Faulty: the loop starts one entry too low.
MatchingPendingReplyBelowLast(p, q, id) ==
    {i \in DOMAIN end[p][q].pending : i < Len(end[p][q].pending) /\ end[p][q].pending[i].id = id}

\* The entry of m_pendingSyncReplies that a reply is for, if any is left.
MatchingPendingReply(p, q, id) ==
    {i \in DOMAIN end[p][q].pending : end[p][q].pending[i].id = id}

\* processIncomingSyncReply: mark the request, and wake the main thread when it
\* is the innermost one of this connection.
ProcessIncomingSyncReply(p, q) ==
    /\ CanRead(p, q) /\ Head(channel[q][p]).kind = "reply"
    /\ LET is == MatchingPendingReply(p, q, Head(channel[q][p]).id) IN
       /\ end' = [end EXCEPT ![p][q].pending =
                    [i \in DOMAIN @ |-> IF i \in is THEN [@[i] EXCEPT !.replied = TRUE] ELSE @[i]]]
       /\ signalled' = [signalled EXCEPT ![p] = @ \/ Len(end[p][q].pending) \in is]
    /\ channel' = [channel EXCEPT ![q][p] = Tail(@)]
    /\ UNCHANGED <<alive, stack, runLoop, workSet, toDispatch, owedReplies>>

\* Faulty: messages meant for unbounded waits are not told apart from others.
DispatchesWhileWaitingIgnoringUnbounded(p, m) == m.dispatch = "Yes"

\* The switch at the head of SyncMessageState::processIncomingMessage.
DispatchesWhileWaiting(p, m) ==
    \/ m.dispatch = "Yes"
    \/ m.dispatch = "YesDuringUnboundedIPC" /\ HasOngoingUnboundedSyncIPC(p)

ForMainThread(q, ms) == [i \in DOMAIN ms |-> [peer |-> q, message |-> ms[i]]]

\* Faulty: the pending messages stay where they are.
ProcessedFirstNever(m, pending) == <<>>

\* "This sync message should maintain ordering with async messages so we need
\* to process the pending async messages first."
ProcessedFirst(m, pending) == IF m.site.ordered THEN pending ELSE <<>>

\* SyncMessageState::processIncomingMessage returns true: the message goes to
\* the vector that waiting calls dispatch from, behind the pending asynchronous
\* messages when it must keep its order with them.
ProcessIncomingMessageWhileWaiting(p, q) ==
    /\ CanRead(p, q)
    /\ LET m == Head(channel[q][p])
           first == ProcessedFirst(m, end[p][q].incoming)
       IN
       /\ m.kind = "message" /\ DispatchesWhileWaiting(p, m)
       /\ toDispatch' = [toDispatch EXCEPT ![p] = @ \o ForMainThread(q, Append(first, m))]
       /\ end' = [end EXCEPT ![p][q].incoming = IF first = <<>> THEN @ ELSE <<>>]
    /\ workSet' = [workSet EXCEPT ![p] = @ \cup {q}]
    /\ runLoop' = [runLoop EXCEPT ![p] =
                     IF q \in workSet[p] THEN @ ELSE Append(@, Task("dispatchMessages", q))]
    /\ signalled' = [signalled EXCEPT ![p] = TRUE]
    /\ channel' = [channel EXCEPT ![q][p] = Tail(@)]
    /\ UNCHANGED <<alive, stack, owedReplies>>

\* enqueueIncomingMessage
EnqueueIncomingMessage(p, q) ==
    /\ CanRead(p, q)
    /\ LET m == Head(channel[q][p]) IN
       /\ m.kind = "message" /\ ~DispatchesWhileWaiting(p, m)
       /\ end' = [end EXCEPT ![p][q].incoming = Append(@, m)]
    /\ runLoop' = [runLoop EXCEPT ![p] =
                     IF <<p, q>> \in Throttled /\ end[p][q].incoming # <<>>
                     THEN @ ELSE Append(@, Task("incoming", q))]
    /\ channel' = [channel EXCEPT ![q][p] = Tail(@)]
    /\ UNCHANGED <<alive, stack, signalled, workSet, toDispatch, owedReplies>>

\* platformInvalidate, dispatched to the work queue by invalidate().
PlatformInvalidate(p, q) ==
    /\ alive[p] /\ end[p][q].open /\ ~end[p][q].valid
    /\ end' = [end EXCEPT ![p][q].open = FALSE]
    /\ channel' = [channel EXCEPT ![q][p] = <<>>]
    /\ UNCHANGED <<alive, stack, runLoop, signalled, workSet, toDispatch, owedReplies>>

\* Faulty: a main thread that waits for a reply is not woken.
WakesOnCloseIgnoringPending(p, q) == signalled[p]

WakesOnClose(p, q) == signalled[p] \/ end[p][q].pending # <<>>

\* connectionDidClose: the peer closed its end, or exited, and everything it
\* had sent has been read.
ConnectionDidClose(p, q) ==
    /\ alive[p] /\ end[p][q].open
    /\ ~end[q][p].open /\ channel[q][p] = <<>>
    /\ IF <<p, q>> \in ExitsOnClose
       THEN Exit(p)
       ELSE /\ end' = [end EXCEPT ![p][q].open = FALSE, ![p][q].shouldWait = FALSE]
            /\ signalled' = [signalled EXCEPT ![p] = WakesOnClose(p, q)]
            /\ runLoop' = [runLoop EXCEPT ![p] = Append(@, Task("didClose", q))]
            /\ channel' = [channel EXCEPT ![p][q] = <<>>]
            /\ UNCHANGED <<alive, stack, workSet, toDispatch, owedReplies>>

-----------------------------------------------------------------------------
(* Specification *)

ClientCode(p) ==
    \/ \E site \in CallSites : \/ SendAsync(p, site)
                               \/ SendSyncMessage(p, site)
                               \/ SendSyncMessageFails(p, site)
    \/ \E q \in Peers(p) : Invalidate(p, q)
    \/ HandlerKeepsReply(p)
    \/ SendDelayedReply(p)

MainThread(p) ==
    \/ WaitDispatchesMessages(p)
    \/ WaitReturns(p)
    \/ WaitBlocks(p)
    \/ WaitWakes(p)
    \/ BatchDispatchesNext(p)
    \/ BatchEnds(p)
    \/ HandlerReturns(p)
    \/ DispatchMessagesForConnection(p)
    \/ DispatchOneIncomingMessage(p)
    \/ DispatchIncomingMessages(p)
    \/ DispatchNextIncomingMessage(p)
    \/ DispatchDidClose(p)

WorkQueue(p, q) ==
    \/ ProcessIncomingSyncReply(p, q)
    \/ ProcessIncomingMessageWhileWaiting(p, q)
    \/ EnqueueIncomingMessage(p, q)
    \/ PlatformInvalidate(p, q)
    \/ ConnectionDidClose(p, q)

Next ==
    \E p \in Processes :
        \/ ClientCode(p)
        \/ MainThread(p)
        \/ WaitTimesOut(p)
        \/ ProcessExits(p)
        \/ \E q \in Peers(p) : WorkQueue(p, q)

Spec == Init /\ [][Next]_vars

\* Main threads that are not blocked run, work queues read what has arrived,
\* and a finite timeout elapses.  Nothing is assumed of exits or of what client
\* code sends, but a handler returns, and a delayed reply is sent when the
\* thread keeps getting back to client code.
FairSpec ==
    /\ Spec
    /\ \A p \in Processes :
        /\ WF_vars(MainThread(p))
        /\ WF_vars(WaitTimesOut(p))
        /\ SF_vars(SendDelayedReply(p))
        /\ \A q \in Peers(p) : WF_vars(WorkQueue(p, q))

-----------------------------------------------------------------------------
(* Properties *)

\* The ids of the waits of p's main thread on q, outermost first.
WaitsOn(p, q) ==
    LET waits == SelectSeq(stack[p], LAMBDA f : f.kind = "wait" /\ f.peer = q)
    IN [i \in DOMAIN waits |-> waits[i].id]

\* The assertions of sendSyncMessage and waitForSyncReply: however handlers
\* nest over several connections, the pending replies of a connection are the
\* requests its callers wait for, in the order of their calls.
PendingRepliesMatchWaits ==
    \A p \in Processes : \A q \in Peers(p) :
        [i \in DOMAIN end[p][q].pending |-> end[p][q].pending[i].id] = WaitsOn(p, q)

Blocked(p) == alive[p] /\ TopIs(p, "wait") /\ Top(p).at = "blocked" /\ ~signalled[p]

\* No wake-up is lost: a main thread sleeps in waitForSyncReply only while it
\* has nothing to dispatch, no reply to return, and a connection that may still
\* bring one.  The semaphore is binary and shared by all connections and all
\* nested waits.
BlockedHasNothingToDo ==
    \A p \in Processes :
        Blocked(p) =>
            LET e == end[p][Top(p).peer] IN
            /\ toDispatch[p] = <<>>
            /\ ~Last(e.pending).replied
            /\ e.shouldWait /\ e.valid

\* No message is stranded: whatever waits for the main thread has a function
\* in the main run loop that will dispatch it, even when no call ever waits.
QueuedMessagesAreScheduled ==
    \A p \in Processes :
        /\ \A i \in DOMAIN toDispatch[p] :
            Contains(runLoop[p], Task("dispatchMessages", toDispatch[p][i].peer))
        /\ \A q \in Peers(p) :
            end[p][q].incoming # <<>> => Contains(runLoop[p], Task("incoming", q))

\* Main threads wait for each other, without a timeout, and nothing is on its
\* way to any of them.
Stuck(S) ==
    \A p \in S :
        /\ Blocked(p) /\ Top(p).peer \in S /\ ~Top(p).site.timeout
        /\ \A q \in Peers(p) : channel[q][p] = <<>>

\* What the comment in processIncomingMessage is about: no set of processes
\* ends up with every sender of a synchronous message stuck waiting for the
\* reply of another.
NoCircularWait == \A S \in (SUBSET Processes) \ {{}} : ~Stuck(S)

\* The messages q sent that p has received and not begun to dispatch, wherever
\* on p they are.
Undispatched(p, q) ==
    LET from(cs) == {cs[i].message : i \in {j \in DOMAIN cs : cs[j].peer = q}}
        batches == {i \in DOMAIN stack[p] : stack[p][i].kind = "batch"}
    IN ToSet(end[p][q].incoming)
         \cup from(toDispatch[p])
         \cup UNION {from(stack[p][i].rest) \cup from(stack[p][i].putBack) : i \in batches}

\* The request id that p waits for at q is on its way to q, somewhere on q or
\* being handled there, or its reply is on the way back.
Underway(p, q, id) ==
    \/ \E i \in DOMAIN channel[p][q] : channel[p][q][i].kind = "message" /\ channel[p][q][i].id = id
    \/ \E m \in Undispatched(q, p) : m.id = id
    \/ \E i \in DOMAIN stack[q] :
        stack[q][i].kind = "handler" /\ stack[q][i].peer = p /\ stack[q][i].message.id = id
    \/ [peer |-> p, id |-> id] \in owedReplies[q]
    \/ Contains(channel[q][p], SyncMessageReply(id))

\* No request is lost: while both ends are connected, one that has no reply yet
\* is in some queue, in a vector a dispatch loop has swapped out or kept aside,
\* or in a handler, whichever connections the loops nest over.
RequestsAreUnderway ==
    \A p \in Processes : \A q \in Peers(p) : \A i \in DOMAIN end[p][q].pending :
        LET r == end[p][q].pending[i] IN
        ~r.replied /\ end[p][q].valid /\ end[q][p].valid => Underway(p, q, r.id)

\* The messages of q that p has received and could still dispatch before the
\* message of the i-th frame of its stack: all but those in vectors that outer
\* loops have swapped out.
WithinReach(p, q, i) ==
    LET from(cs) == {cs[j].message : j \in {k \in DOMAIN cs : cs[k].peer = q}}
        batch == i > 1 /\ stack[p][i - 1].kind = "batch"
    IN ToSet(end[p][q].incoming) \cup from(toDispatch[p])
         \cup IF batch THEN from(stack[p][i - 1].rest) ELSE {}

\* MaintainOrderingWithAsyncMessages: when such a synchronous message is handled,
\* in a nested wait or from the run loop, every plain asynchronous message sent
\* before it has been dispatched, unless an outer loop that the handling is
\* nested in holds it.  The pending messages change queues for that while
\* functions for both queues are on the run loop.
OrderIsMaintained ==
    \A p \in Processes : \A i \in DOMAIN stack[p] :
        LET f == stack[p][i] IN
        f.kind = "handler" /\ f.message.site.ordered =>
            \A m \in WithinReach(p, f.peer, i) : m.dispatch = "No" => f.message.id < m.id

Waits(p) == \E i \in DOMAIN stack[p] : stack[p][i].kind = "wait"

\* Every call of sendSync comes back, once its peer answers or is gone.  As the
\* calls of a behaviour are bounded, it is enough that a main thread inside
\* calls of sendSync, however nested, gets out of all of them.
SyncSendsReturn == \A p \in Processes : Waits(p) ~> ~Waits(p)
=============================================================================
