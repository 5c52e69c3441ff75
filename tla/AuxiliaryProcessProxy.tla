------------------------ MODULE AuxiliaryProcessProxy ------------------------
(***************************************************************************)
(* UIProcess/AuxiliaryProcessProxy and the async reply handlers of         *)
(* Platform/IPC/Connection: how the UI process launches an auxiliary       *)
(* process, keeps the messages sent meanwhile, and sees to it that the     *)
(* completion handler of every message with a reply is called, whatever    *)
(* becomes of the launch, the process, the connection and the proxy.       *)
(*                                                                         *)
(* Three things have lifetimes of their own: the process, the Connection   *)
(* object (kept alive by the proxy and by the functions dispatched to its  *)
(* work queue and to the main run loop) and the proxy.  Messages have      *)
(* identities and are sent once; the handler of message m is called m too. *)
(***************************************************************************)
EXTENDS Naturals, Sequences, Functions

CONSTANTS
    Messages,      \* messages client code may send
    WantsReply,    \* those sent by sendWithAsyncReply
    LoadRequests,  \* LoadRequestWaitingForProcessLaunch messages
    ShutDown       \* Messages::AuxiliaryProcess::ShutDown

ASSUME ProxyAssumption ==
    /\ WantsReply \subseteq Messages
    /\ LoadRequests \subseteq Messages \ WantsReply
    /\ ShutDown \notin Messages

VARIABLES
    proxy,           \* the proxy object is "alive" or "destroyed"
    launcher,        \* m_processLauncher: "none", "launching" or "launched"
    launcherClient,  \* the launcher still has its client
    pending,         \* m_pendingMessages
    connection,      \* m_connection is set
    object,          \* the Connection: "none", "alive" or "destroyed"
    valid,           \* its m_isValid
    socket,          \* its transport is open, until platformInvalidate
    invalidating,    \* platformInvalidate is dispatched to the work queue
    closeTask,       \* the function of connectionDidClose is on the main run loop
    mainThread,      \* "idle", "flushing" pending messages, in "didClose" of the client,
                     \* or "clearing" handlers
    replyHandlers,   \* handlers in asyncReplyHandlerMap
    clearing,        \* handlers clearAsyncReplyHandlers took and has yet to call
    posted,          \* handlers to be called with nullptr from the main run loop
    calls,           \* how often each handler was called
    toProcess,       \* messages on their way to the process
    owed,            \* messages the process has still to reply to
    replies,         \* replies on their way to the UI process
    incoming,        \* replies in m_incomingMessages
    process,         \* "none", "starting", "running" or "exited"
    sent,            \* messages for which sendMessage was called
    accepted,        \* those for which it returned true and that were not skipped, in order
    received         \* messages the process received, in order

proxyVars   == <<proxy, launcher, launcherClient, pending, connection>>
objectVars  == <<object, valid, socket, invalidating, closeTask>>
handlerVars == <<replyHandlers, clearing, posted, calls>>
wireVars    == <<toProcess, owed, replies, incoming>>
historyVars == <<sent, accepted, received>>
vars == <<proxyVars, objectVars, mainThread, handlerVars, wireVars, process, historyVars>>

Init ==
    /\ proxy = "alive" /\ launcher = "none" /\ launcherClient = FALSE
    /\ pending = <<>> /\ connection = FALSE
    /\ object = "none" /\ valid = FALSE /\ socket = FALSE
    /\ invalidating = FALSE /\ closeTask = FALSE
    /\ mainThread = "idle"
    /\ replyHandlers = {} /\ clearing = {} /\ posted = {}
    /\ calls = [m \in WantsReply |-> 0]
    /\ toProcess = <<>> /\ owed = {} /\ replies = {} /\ incoming = {}
    /\ process = "none"
    /\ sent = {} /\ accepted = <<>> /\ received = <<>>

-----------------------------------------------------------------------------
(* The proxy *)

\* AuxiliaryProcessProxy::state()
State == IF launcher = "launching" THEN "Launching"
         ELSE IF connection THEN "Running" ELSE "Terminated"

\* Client code runs on the main thread: from the main run loop, from didClose,
\* or from a completion handler.
ClientRuns == proxy = "alive" /\ mainThread # "flushing"

\* The handler that comes with a message, if it has one.
HandlerOf(m) == {m} \cap WantsReply

CallHandlers(ms) == calls' = [m \in WantsReply |-> IF m \in ms THEN calls[m] + 1 ELSE calls[m]]

Connect ==
    /\ ClientRuns /\ mainThread = "idle"
    /\ launcher = "none" /\ process = "none"
    /\ launcher' = "launching" /\ launcherClient' = TRUE
    /\ process' = "starting"
    /\ UNCHANGED <<proxy, pending, connection, objectVars, mainThread, handlerVars, wireVars,
                   historyVars>>

\* Faulty: the last message is the first to be sent.
StashedInFront(m) == <<m>> \o pending

Stashed(m) == Append(pending, m)

\* sendMessage before the process is launched.
SendWhileLaunching(m) ==
    /\ ClientRuns /\ State = "Launching" /\ m \notin sent
    /\ pending' = Stashed(m)
    /\ sent' = sent \cup {m}
    /\ accepted' = Append(accepted, m)
    /\ UNCHANGED <<proxy, launcher, launcherClient, connection, objectVars, mainThread,
                   handlerVars, wireVars, process, received>>

\* Faulty: a handler that was added and whose message was refused is also
\* called from the run loop.
SendWhileRunningPostingTwice(m) ==
    /\ ClientRuns /\ State = "Running" /\ m \notin sent
    /\ replyHandlers' = replyHandlers \cup HandlerOf(m)
    /\ posted' = IF valid THEN posted ELSE posted \cup HandlerOf(m)
    /\ toProcess' = IF valid /\ socket THEN Append(toProcess, m) ELSE toProcess
    /\ sent' = sent \cup {m}
    /\ accepted' = IF valid THEN Append(accepted, m) ELSE accepted
    /\ UNCHANGED <<proxyVars, objectVars, mainThread, clearing, calls, owed, replies, incoming,
                   process, received>>

\* sendMessage with a connection: the handler is added first, and stays when an
\* invalid connection refuses the message.
SendWhileRunning(m) ==
    /\ ClientRuns /\ State = "Running" /\ m \notin sent
    /\ replyHandlers' = replyHandlers \cup HandlerOf(m)
    /\ toProcess' = IF valid /\ socket THEN Append(toProcess, m) ELSE toProcess
    /\ sent' = sent \cup {m}
    /\ accepted' = IF valid THEN Append(accepted, m) ELSE accepted
    /\ UNCHANGED <<proxyVars, objectVars, mainThread, clearing, posted, calls, owed, replies,
                   incoming, process, received>>

\* sendMessage without one: the handler is called from the run loop.
SendWhileTerminated(m) ==
    /\ ClientRuns /\ State = "Terminated" /\ m \notin sent
    /\ posted' = posted \cup HandlerOf(m)
    /\ sent' = sent \cup {m}
    /\ UNCHANGED <<proxyVars, objectVars, mainThread, replyHandlers, clearing, calls, wireVars,
                   process, accepted, received>>

\* didFinishLaunching with a valid identifier opens the connection, and goes
\* on to send what is pending while the process is already running.
DidFinishLaunching ==
    /\ mainThread = "idle" /\ process = "starting"
    /\ launcher = "launching" /\ launcherClient
    /\ launcher' = "launched" /\ connection' = TRUE
    /\ object' = "alive" /\ valid' = TRUE /\ socket' = TRUE
    /\ process' = "running"
    /\ mainThread' = "flushing"
    /\ UNCHANGED <<proxy, launcherClient, pending, invalidating, closeTask, handlerVars, wireVars,
                   historyVars>>

\* The loop of didFinishLaunching: a message is sent, its handler added first.
FlushSends ==
    /\ mainThread = "flushing" /\ pending # <<>>
    /\ pending' = Tail(pending)
    /\ replyHandlers' = replyHandlers \cup HandlerOf(Head(pending))
    /\ toProcess' = IF valid /\ socket THEN Append(toProcess, Head(pending)) ELSE toProcess
    /\ UNCHANGED <<proxy, launcher, launcherClient, connection, objectVars, mainThread, clearing,
                   posted, calls, owed, replies, incoming, process, historyVars>>

\* A load request whose page is gone is not sent (shouldSendPendingMessage).
\* Those still pending are the last that were accepted.
FlushSkips ==
    /\ mainThread = "flushing" /\ pending # <<>>
    /\ Head(pending) \in LoadRequests
    /\ pending' = Tail(pending)
    /\ accepted' = SubSeq(accepted, 1, Len(accepted) - Len(pending)) \o Tail(pending)
    /\ UNCHANGED <<proxy, launcher, launcherClient, connection, objectVars, mainThread,
                   handlerVars, wireVars, process, sent, received>>

FlushReturns ==
    /\ mainThread = "flushing" /\ pending = <<>>
    /\ mainThread' = "idle"
    /\ UNCHANGED <<proxyVars, objectVars, handlerVars, wireVars, process, historyVars>>

\* The process could not be launched (didFinishLaunching with an invalid
\* identifier), or the launcher has no client any more.
LaunchComesToNothing ==
    /\ mainThread = "idle" /\ process = "starting"
    /\ launcher' = IF launcher = "launching" THEN "launched" ELSE launcher
    /\ process' = "exited"
    /\ UNCHANGED <<proxy, launcherClient, pending, connection, objectVars, mainThread,
                   handlerVars, wireVars, historyVars>>

\* Connection::invalidate
Invalidate ==
    /\ valid' = FALSE
    /\ invalidating' = (invalidating \/ valid)

ShutDownWhileLaunching ==
    /\ ClientRuns /\ State = "Launching"
    /\ launcher' = "none" /\ launcherClient' = FALSE
    /\ UNCHANGED <<proxy, pending, connection, objectVars, mainThread, handlerVars, wireVars,
                   process, historyVars>>

\* Faulty: the connection is let go without being invalidated.
ShutDownWithoutInvalidate ==
    /\ ClientRuns /\ State = "Running"
    /\ toProcess' = IF valid /\ socket THEN Append(toProcess, ShutDown) ELSE toProcess
    /\ connection' = FALSE
    /\ UNCHANGED <<proxy, launcher, launcherClient, pending, objectVars, mainThread,
                   handlerVars, owed, replies, incoming, process, historyVars>>

\* shutDownProcess with a connection.
ShutDownWhileRunning ==
    /\ ClientRuns /\ State = "Running"
    /\ toProcess' = IF valid /\ socket THEN Append(toProcess, ShutDown) ELSE toProcess
    /\ Invalidate
    /\ connection' = FALSE
    /\ UNCHANGED <<proxy, launcher, launcherClient, pending, object, socket, closeTask,
                   mainThread, handlerVars, owed, replies, incoming, process, historyVars>>

\* terminate(): a launch in progress loses its client, a process is killed.
TerminateWhileLaunching ==
    /\ ClientRuns /\ State = "Launching"
    /\ launcherClient' = FALSE
    /\ UNCHANGED <<proxy, launcher, pending, connection, objectVars, mainThread, handlerVars,
                   wireVars, process, historyVars>>

\* Faulty: the destructor forgets the messages that were never sent.
PendingHandlersForgotten == {}

\* The handlers ~AuxiliaryProcessProxy calls with nullptr.
PendingHandlers == Range(pending) \cap WantsReply

\* ~AuxiliaryProcessProxy, when the last reference goes away.
Destruct ==
    /\ ClientRuns
    /\ proxy' = "destroyed"
    /\ IF connection THEN Invalidate ELSE UNCHANGED <<valid, invalidating>>
    /\ connection' = FALSE
    /\ launcher' = "none" /\ launcherClient' = FALSE
    /\ pending' = <<>>
    /\ CallHandlers(PendingHandlers)
    /\ UNCHANGED <<object, socket, closeTask, mainThread, replyHandlers, clearing, posted,
                   wireVars, process, historyVars>>

-----------------------------------------------------------------------------
(* Functions on the main run loop, and the lifetime of the Connection *)

\* The function sendMessage dispatches calls the handler with nullptr.
RunPostedHandler(m) ==
    /\ mainThread = "idle" /\ m \in posted
    /\ posted' = posted \ {m}
    /\ CallHandlers({m})
    /\ UNCHANGED <<proxyVars, objectVars, mainThread, replyHandlers, clearing, wireVars, process,
                   historyVars>>

\* dispatchMessage of an AsyncReply: dropped when the connection is invalid,
\* and without effect when there is no handler.
DispatchReply(m) ==
    /\ mainThread = "idle" /\ m \in incoming
    /\ incoming' = incoming \ {m}
    /\ IF valid /\ m \in replyHandlers
       THEN /\ replyHandlers' = replyHandlers \ {m}
            /\ CallHandlers({m})
       ELSE UNCHANGED <<replyHandlers, calls>>
    /\ UNCHANGED <<proxyVars, objectVars, mainThread, clearing, posted, toProcess, owed, replies,
                   process, historyVars>>

\* Faulty: the connection stays valid while its client is told of the close.
DidCloseStartsStillValid ==
    /\ mainThread = "idle" /\ closeTask /\ incoming = {}
    /\ closeTask' = FALSE
    /\ mainThread' = IF valid THEN "didClose" ELSE "idle"
    /\ UNCHANGED <<proxyVars, object, valid, socket, invalidating, handlerVars, wireVars, process,
                   historyVars>>

\* The function of connectionDidClose begins.  It was dispatched after the
\* replies that were read before the close.
DidCloseStarts ==
    /\ mainThread = "idle" /\ closeTask /\ incoming = {}
    /\ closeTask' = FALSE
    /\ valid' = FALSE
    /\ mainThread' = IF valid THEN "didClose" ELSE "idle"
    /\ UNCHANGED <<proxyVars, object, socket, invalidating, handlerVars, wireVars, process,
                   historyVars>>

\* didClose of the client returns and the handlers are taken out of the map.
\* WebProcessProxy has called shutDownProcess; NetworkProcessProxy keeps the
\* connection.
DidCloseEnds ==
    /\ mainThread = "didClose"
    /\ mainThread' = "clearing"
    /\ connection' \in {connection, FALSE}
    /\ clearing' = replyHandlers
    /\ replyHandlers' = {}
    /\ UNCHANGED <<proxy, launcher, launcherClient, pending, objectVars, posted, calls, wireVars,
                   process, historyVars>>

\* Faulty: ~Connection does not clear the handlers.
DestroyConnectionWithoutClear ==
    /\ mainThread = "idle" /\ object = "alive"
    /\ ~connection /\ ~invalidating /\ ~closeTask /\ incoming = {}
    /\ object' = "destroyed"
    /\ UNCHANGED <<proxyVars, valid, socket, invalidating, closeTask, mainThread, handlerVars,
                   wireVars, process, historyVars>>

\* ~Connection: neither the proxy nor a dispatched function has a reference.
DestroyConnection ==
    /\ mainThread = "idle" /\ object = "alive"
    /\ ~connection /\ ~invalidating /\ ~closeTask /\ incoming = {}
    /\ object' = "destroyed"
    /\ mainThread' = "clearing"
    /\ clearing' = replyHandlers
    /\ replyHandlers' = {}
    /\ UNCHANGED <<proxyVars, valid, socket, invalidating, closeTask, posted, calls, wireVars,
                   process, historyVars>>

\* The loop of clearAsyncReplyHandlers.
ClearCallsHandler(m) ==
    /\ mainThread = "clearing" /\ m \in clearing
    /\ clearing' = clearing \ {m}
    /\ CallHandlers({m})
    /\ UNCHANGED <<proxyVars, objectVars, mainThread, replyHandlers, posted, wireVars, process,
                   historyVars>>

ClearReturns ==
    /\ mainThread = "clearing" /\ clearing = {}
    /\ mainThread' = "idle"
    /\ UNCHANGED <<proxyVars, objectVars, handlerVars, wireVars, process, historyVars>>

-----------------------------------------------------------------------------
(* The connection work queue, and the process *)

ReadReply(m) ==
    /\ socket /\ m \in replies
    /\ replies' = replies \ {m}
    /\ incoming' = incoming \cup {m}
    /\ UNCHANGED <<proxyVars, objectVars, mainThread, handlerVars, toProcess, owed, process,
                   historyVars>>

\* The function invalidate() dispatches.  A transport already closed stays so.
PlatformInvalidate ==
    /\ invalidating
    /\ invalidating' = FALSE
    /\ socket' = FALSE
    /\ UNCHANGED <<proxyVars, object, valid, closeTask, mainThread, handlerVars, wireVars, process,
                   historyVars>>

\* connectionDidClose, once what the process sent has been read.
ConnectionDidClose ==
    /\ socket /\ process = "exited" /\ replies = {}
    /\ socket' = FALSE
    /\ closeTask' = TRUE
    /\ UNCHANGED <<proxyVars, object, valid, invalidating, mainThread, handlerVars, wireVars,
                   process, historyVars>>

ProcessReceives ==
    /\ process = "running" /\ toProcess # <<>>
    /\ toProcess' = Tail(toProcess)
    /\ received' = Append(received, Head(toProcess))
    /\ owed' = owed \cup HandlerOf(Head(toProcess))
    /\ process' = IF Head(toProcess) = ShutDown THEN "exited" ELSE "running"
    /\ UNCHANGED <<proxyVars, objectVars, mainThread, handlerVars, replies, incoming, sent,
                   accepted>>

ProcessReplies(m) ==
    /\ process = "running" /\ m \in owed
    /\ owed' = owed \ {m}
    /\ replies' = IF socket THEN replies \cup {m} ELSE replies
    /\ UNCHANGED <<proxyVars, objectVars, mainThread, handlerVars, toProcess, incoming, process,
                   historyVars>>

\* The process crashes, is killed by terminate(), or finds its connection closed.
ProcessExits ==
    /\ process = "running"
    /\ process' = "exited"
    /\ UNCHANGED <<proxyVars, objectVars, mainThread, handlerVars, wireVars, historyVars>>

-----------------------------------------------------------------------------
(* Specification *)

SendMessage(m) == SendWhileLaunching(m) \/ SendWhileRunning(m) \/ SendWhileTerminated(m)

ClientCode ==
    \/ Connect
    \/ \E m \in Messages : SendMessage(m)
    \/ ShutDownWhileLaunching
    \/ ShutDownWhileRunning
    \/ TerminateWhileLaunching
    \/ Destruct

MainRunLoop ==
    \/ \E m \in WantsReply : RunPostedHandler(m) \/ DispatchReply(m) \/ ClearCallsHandler(m)
    \/ FlushSends
    \/ FlushSkips
    \/ FlushReturns
    \/ DidCloseStarts
    \/ DidCloseEnds
    \/ ClearReturns
    \/ DestroyConnection

WorkQueue ==
    \/ \E m \in WantsReply : ReadReply(m)
    \/ PlatformInvalidate
    \/ ConnectionDidClose

Process ==
    \/ DidFinishLaunching
    \/ LaunchComesToNothing
    \/ ProcessReceives
    \/ \E m \in WantsReply : ProcessReplies(m)
    \/ ProcessExits

Next == ClientCode \/ MainRunLoop \/ WorkQueue \/ Process

Spec == Init /\ [][Next]_vars

\* The main run loop and the work queue run what is dispatched to them.  The
\* process need not do anything, and the client need not let the proxy go.
FairSpec == Spec /\ WF_vars(MainRunLoop) /\ WF_vars(WorkQueue)

-----------------------------------------------------------------------------
(* Properties *)

\* Every member keeps the kind of value its declaration gives it.
TypeOK ==
    /\ proxy \in {"alive", "destroyed"}
    /\ launcher \in {"none", "launching", "launched"} /\ launcherClient \in BOOLEAN
    /\ pending \in Seq(Messages) /\ connection \in BOOLEAN
    /\ object \in {"none", "alive", "destroyed"} /\ valid \in BOOLEAN /\ socket \in BOOLEAN
    /\ invalidating \in BOOLEAN /\ closeTask \in BOOLEAN
    /\ mainThread \in {"idle", "flushing", "didClose", "clearing"}
    /\ replyHandlers \subseteq WantsReply /\ clearing \subseteq WantsReply
    /\ posted \subseteq WantsReply /\ calls \in [WantsReply -> Nat]
    /\ toProcess \in Seq(Messages \cup {ShutDown})
    /\ owed \subseteq WantsReply /\ replies \subseteq WantsReply /\ incoming \subseteq WantsReply
    /\ process \in {"none", "starting", "running", "exited"}
    /\ sent \subseteq Messages

\* In how many places the handler of m is, of those it is called from.
One(b) == IF b THEN 1 ELSE 0
Waiting(m) == One(m \in Range(pending)) + One(m \in replyHandlers) + One(m \in clearing)
                + One(m \in posted)

\* A CompletionHandler must be called once.  The handler of a message that was
\* sent is either in one place from which it will be called, or it has been
\* called, once: through a launch that fails, a refused send, a reply, a close
\* that overtakes it, and the destructors of the connection and the proxy.
EveryHandlerIsCalledOnce ==
    \A m \in WantsReply : Waiting(m) + calls[m] = One(m \in sent)

\* The assertions of takeAsyncReplyHandler and dispatchMessage: a reply that
\* will be dispatched finds its handler in the map.
RepliesFindTheirHandler == valid => replies \cup incoming \cup owed \subseteq replyHandlers

\* The assertion of ~Connection: whoever lets a connection go has invalidated
\* it, or it was closed.
ReleasedConnectionIsInvalid == object = "alive" /\ ~connection => ~valid

\* asyncReplyHandlerMap is keyed by the address of the connection: nothing may
\* be left in it for a later connection at the same address.
NoHandlersOfDestroyedConnection == object # "alive" => replyHandlers = {}

\* Messages reach the process in the order they were sent in and without gaps,
\* those sent before the process was launched included, and none after ShutDown.
MessagesArriveInOrder ==
    \A i \in 1..Len(received) :
        IF received[i] = ShutDown
        THEN i = Len(received)
        ELSE i <= Len(accepted) /\ received[i] = accepted[i]

\* Once the proxy is gone, every handler is called.
HandlersAreCalledAfterDestruct ==
    \A m \in WantsReply : (proxy = "destroyed" /\ m \in sent) ~> (calls[m] > 0)

\* When the process is gone, the handlers of the messages it was sent are called,
\* although the proxy may live on: all but those of messages sent on a connection
\* that its proxy keeps after it closed.
HandlersAreCalledAfterExit ==
    \A m \in WantsReply :
        (process = "exited" /\ m \in replyHandlers /\ (valid \/ ~connection)) ~> (calls[m] > 0)
=============================================================================
