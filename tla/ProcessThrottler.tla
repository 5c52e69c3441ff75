--------------------------- MODULE ProcessThrottler ---------------------------
(***************************************************************************)
(* UIProcess/ProcessThrottler.{h,cpp} together with the process assertion  *)
(* it holds (UIProcess/ios/ProcessAssertionIOS.mm), its client proxy and   *)
(* the suspend/resume handlers of the auxiliary process it throttles.      *)
(*                                                                         *)
(* Every ProcessThrottler method runs on the main thread of the UI         *)
(* process.  The one method that loops over callbacks,                     *)
(* invalidateAllActivities, is taken one activity per step; `handler'      *)
(* names the method that is inside that loop, and no other main-thread     *)
(* method runs until it is back to "none".  The auxiliary process and the  *)
(* operating system run concurrently.                                      *)
(***************************************************************************)
EXTENDS Naturals, Sequences, FiniteSets

CONSTANTS
    Activities,   \* the Activity objects the UI process may create
    MaxRequests   \* bound: no activity starts after this many requests

ASSUME ThrottlerAssumption ==
    /\ IsFiniteSet(Activities)
    /\ MaxRequests \in Nat

VARIABLES
    client,                     \* m_process, what kind of proxy owns the throttler
    foregroundActivities,       \* m_foregroundActivities
    backgroundActivities,       \* m_backgroundActivities
    assertion,                  \* m_assertion
    prepareToSuspendTimer,      \* m_prepareToSuspendTimeoutTimer.isActive()
    pendingRequestToSuspendID,  \* m_pendingRequestToSuspendID, 0 for nullopt
    lastRequestID,              \* prepareToSuspendRequestID, the static counter
    handler,                    \* the method inside invalidateAllActivities
    releaseAssertFailed,        \* a RELEASE_ASSERT was evaluated to false
    processAlive,               \* the auxiliary process has not exited
    toProcess,                  \* suspend and resume messages on their way to the process
    processIsSuspended,         \* WebProcess::m_processIsSuspended
    outstandingReplies          \* PrepareToSuspend requests whose reply has not reached the UI process

throttlerVars == <<assertion, prepareToSuspendTimer, pendingRequestToSuspendID,
                   lastRequestID, releaseAssertFailed>>
activityVars  == <<foregroundActivities, backgroundActivities>>
processVars   == <<processAlive, toProcess, processIsSuspended, outstandingReplies>>
vars == <<client, throttlerVars, activityVars, handler, processVars>>

\* Network processes are as web processes, WebAuthn processes as plug-in
\* processes, and in an application that does not take the UI background
\* assertion web and network processes are as GPU processes.
Clients == {"WebProcess", "GPUProcess", "PluginProcess"}

\* m_shouldTakeUIBackgroundAssertion, as the proxies' constructors set it.
ShouldTakeUIBackgroundAssertion == client = "WebProcess"

\* The proxy's sendPrepareToSuspend calls its handler inline.
RepliesSynchronously == client = "PluginProcess"

AssertionTypes == {"Foreground", "Background", "Suspended"}
Handlers == {"uiAssertionWillExpireImminently", "assertionWasInvalidated", "~ProcessThrottler"}

NoAssertion == [type |-> "None", valid |-> FALSE, invalidationPosted |-> FALSE,
                holdsBackgroundTask |-> FALSE]

Assertion == [type : AssertionTypes \cup {"None"}, valid : BOOLEAN,
              invalidationPosted : BOOLEAN, holdsBackgroundTask : BOOLEAN]

\* The two lifecycle messages of WebProcess.messages.in and NetworkProcess.messages.in.
PrepareToSuspend(id) == [name |-> "PrepareToSuspend", id |-> id]
ProcessDidResume     == [name |-> "ProcessDidResume", id |-> 0]
Message == [name : {"PrepareToSuspend", "ProcessDidResume"}, id : Nat]

-----------------------------------------------------------------------------
(* Assertions *)

HasAssertion == assertion.type # "None"

ExpectedAssertionType(fg, bg) ==
    IF fg # {} THEN "Foreground" ELSE IF bg # {} THEN "Background" ELSE "Suspended"

\* A new ProcessAssertion.  When RunningBoard refuses it, the invalidation
\* handler is posted to the main queue; when it is granted to a throttler that
\* takes the UI background assertion, it holds the background task too.
NewAssertions(type) ==
    { [type |-> type, valid |-> granted, invalidationPosted |-> ~granted,
       holdsBackgroundTask |-> granted /\ ShouldTakeUIBackgroundAssertion /\ type # "Suspended"]
      : granted \in BOOLEAN }

\* What m_assertion may be after setAssertionType(newType), called when it is
\* `old'.  (Definitions named ...Ignoring..., ...Without... and the like are
\* faulty variants, used by no specification: a property that still held with
\* one of them in place would say nothing.)
SetAssertionTypeIgnoringType(old, newType) ==
    IF old.valid THEN {old} ELSE NewAssertions(newType)

SetAssertionType(old, newType) ==
    IF old.valid /\ old.type = newType THEN {old} ELSE NewAssertions(newType)

-----------------------------------------------------------------------------
(* Messages from the client proxy to the process *)

\* sendWithAsyncReply to a process that is gone fails, and its completion
\* handler is dispatched to the main run loop.
SendPrepareToSuspend(id) ==
    IF processAlive
    THEN toProcess' = Append(toProcess, PrepareToSuspend(id)) /\ UNCHANGED outstandingReplies
    ELSE outstandingReplies' = outstandingReplies \cup {id} /\ UNCHANGED toProcess

\* `if (canSendMessage()) send(ProcessDidResume)'; an empty method in the
\* clients that reply synchronously.
SendProcessDidResume ==
    toProcess' = IF processAlive /\ ~RepliesSynchronously
                 THEN Append(toProcess, ProcessDidResume) ELSE toProcess

-----------------------------------------------------------------------------
(* ProcessThrottler's private methods; the arguments fg and bg are the      *)
(* activity sets after the caller's change.                                 *)

ClearPendingWithoutTimer ==
    /\ pendingRequestToSuspendID' = 0
    /\ UNCHANGED prepareToSuspendTimer

ClearPendingRequestToSuspend ==
    /\ prepareToSuspendTimer' = FALSE
    /\ pendingRequestToSuspendID' = 0

\* sendPrepareToSuspendIPC, entered with the timer active or not (`timer').
SendPrepareToSuspendIPC(imminent, timer, fg, bg) ==
    LET newType == IF imminent THEN "Suspended" ELSE "Background"
        id == lastRequestID + 1
    IN  \/ /\ pendingRequestToSuspendID # 0
           /\ releaseAssertFailed' = (releaseAssertFailed \/ ~imminent)
           /\ assertion' \in SetAssertionType(assertion, newType)
           /\ prepareToSuspendTimer' = timer
           /\ UNCHANGED <<pendingRequestToSuspendID, lastRequestID, processVars>>
        \/ /\ pendingRequestToSuspendID = 0
           /\ ~RepliesSynchronously
           /\ lastRequestID' = id
           /\ pendingRequestToSuspendID' = id
           /\ prepareToSuspendTimer' = timer
           /\ SendPrepareToSuspend(id)
           /\ assertion' \in SetAssertionType(assertion, newType)
           /\ UNCHANGED <<releaseAssertFailed, processAlive, processIsSuspended>>
        \/ \* the completion handler, and in it processReadyToSuspend, runs
           \* before sendPrepareToSuspend returns
           /\ pendingRequestToSuspendID = 0
           /\ RepliesSynchronously
           /\ lastRequestID' = id
           /\ ClearPendingRequestToSuspend
           /\ \E ready \in IF assertion.type = "Suspended" THEN {assertion}
                           ELSE SetAssertionType(assertion, ExpectedAssertionType(fg, bg)) :
                  assertion' \in SetAssertionType(ready, newType)
           /\ UNCHANGED <<releaseAssertFailed, processVars>>

\* The process was told to suspend, or is suspended: it has to be resumed
\* before it can do anything for the activity.
WasAskedToSuspendIgnoringPending == assertion.type = "Suspended"

WasAskedToSuspend == assertion.type = "Suspended" \/ pendingRequestToSuspendID # 0

UpdateAssertionIfNeeded(fg, bg) ==
    \/ /\ ~HasAssertion
       /\ UNCHANGED <<throttlerVars, processVars>>
    \/ /\ HasAssertion
       /\ fg \cup bg # {}
       /\ assertion' \in SetAssertionType(assertion, ExpectedAssertionType(fg, bg))
       /\ IF WasAskedToSuspend
          THEN SendProcessDidResume /\ ClearPendingRequestToSuspend
          ELSE UNCHANGED <<toProcess, prepareToSuspendTimer, pendingRequestToSuspendID>>
       /\ UNCHANGED <<lastRequestID, releaseAssertFailed, processAlive,
                      processIsSuspended, outstandingReplies>>
    \/ /\ HasAssertion
       /\ fg \cup bg = {}
       /\ assertion.type # "Suspended"
       /\ SendPrepareToSuspendIPC(FALSE, TRUE, fg, bg)
    \/ /\ assertion.type = "Suspended"
       /\ fg \cup bg = {}
       /\ assertion' \in SetAssertionType(assertion, "Suspended")
       /\ UNCHANGED <<prepareToSuspendTimer, pendingRequestToSuspendID, lastRequestID,
                      releaseAssertFailed, processVars>>

-----------------------------------------------------------------------------
Init ==
    /\ client \in Clients
    /\ foregroundActivities = {}
    /\ backgroundActivities = {}
    /\ assertion = NoAssertion
    /\ prepareToSuspendTimer = FALSE
    /\ pendingRequestToSuspendID = 0
    /\ lastRequestID = 0
    /\ handler = "none"
    /\ releaseAssertFailed = FALSE
    /\ processAlive = TRUE
    /\ toProcess = <<>>
    /\ processIsSuspended = FALSE
    /\ outstandingReplies = {}

\* The main run loop is free to start a method of this throttler.
MainThreadFree == handler = "none" /\ ~releaseAssertFailed

\* Activity's constructor, addActivity.
AddForegroundActivity(a) ==
    /\ MainThreadFree
    /\ lastRequestID < MaxRequests
    /\ a \notin foregroundActivities \cup backgroundActivities
    /\ foregroundActivities' = foregroundActivities \cup {a}
    /\ UpdateAssertionIfNeeded(foregroundActivities', backgroundActivities)
    /\ UNCHANGED <<backgroundActivities, handler, client>>

AddBackgroundActivity(a) ==
    /\ MainThreadFree
    /\ lastRequestID < MaxRequests
    /\ a \notin foregroundActivities \cup backgroundActivities
    /\ backgroundActivities' = backgroundActivities \cup {a}
    /\ UpdateAssertionIfNeeded(foregroundActivities, backgroundActivities')
    /\ UNCHANGED <<foregroundActivities, handler, client>>

\* Activity::invalidate, removeActivity.
Invalidate(a) ==
    /\ foregroundActivities' = foregroundActivities \ {a}
    /\ backgroundActivities' = backgroundActivities \ {a}
    /\ UpdateAssertionIfNeeded(foregroundActivities', backgroundActivities')

\* Activity's destructor: the owner drops it, or TimedActivity::activityTimedOut does.
RemoveActivity(a) ==
    /\ MainThreadFree
    /\ a \in foregroundActivities \cup backgroundActivities
    /\ Invalidate(a)
    /\ UNCHANGED <<handler, client>>

DidConnectToProcess ==
    /\ MainThreadFree
    /\ ~HasAssertion
    /\ assertion' \in NewAssertions(ExpectedAssertionType(foregroundActivities, backgroundActivities))
    /\ UNCHANGED <<prepareToSuspendTimer, pendingRequestToSuspendID, lastRequestID,
                   releaseAssertFailed, activityVars, handler, processVars, client>>

TimerFiredWithoutUpdate ==
    /\ MainThreadFree
    /\ prepareToSuspendTimer
    /\ prepareToSuspendTimer' = FALSE
    /\ UNCHANGED <<assertion, pendingRequestToSuspendID, lastRequestID, releaseAssertFailed,
                   activityVars, handler, processVars, client>>

PrepareToSuspendTimeoutTimerFired ==
    /\ MainThreadFree
    /\ prepareToSuspendTimer
    /\ prepareToSuspendTimer' = FALSE  \* one shot
    /\ releaseAssertFailed' = (pendingRequestToSuspendID = 0)
    /\ assertion' \in SetAssertionType(assertion,
                          ExpectedAssertionType(foregroundActivities, backgroundActivities))
    /\ UNCHANGED <<pendingRequestToSuspendID, lastRequestID, activityVars, handler, processVars, client>>

IsCurrentRequestIgnoringID(id) == pendingRequestToSuspendID # 0

IsCurrentRequest(id) == pendingRequestToSuspendID = id

\* The completion handler of PrepareToSuspend(id); processReadyToSuspend when
\* the request is still the pending one.
PrepareToSuspendReplied(id) ==
    /\ handler \in {"none", "destroyed"}
    /\ ~releaseAssertFailed
    /\ id \in outstandingReplies
    /\ outstandingReplies' = outstandingReplies \ {id}
    /\ \/ /\ handler = "destroyed" \/ ~IsCurrentRequest(id)
          /\ UNCHANGED throttlerVars
       \/ /\ handler = "none" /\ IsCurrentRequest(id)
          /\ ClearPendingRequestToSuspend
          /\ assertion' \in IF assertion.type = "Suspended" THEN {assertion}
                            ELSE SetAssertionType(assertion,
                                     ExpectedAssertionType(foregroundActivities, backgroundActivities))
          /\ UNCHANGED <<lastRequestID, releaseAssertFailed>>
    /\ UNCHANGED <<activityVars, handler, processAlive, toProcess, processIsSuspended, client>>

\* The background task of the UI process is about to expire.
UIAssertionWillExpireImminently ==
    /\ MainThreadFree
    /\ assertion.holdsBackgroundTask
    /\ SendPrepareToSuspendIPC(TRUE, prepareToSuspendTimer,
                               foregroundActivities, backgroundActivities)
    /\ handler' = "uiAssertionWillExpireImminently"
    /\ UNCHANGED <<activityVars, client>>

AssertionWasInvalidated ==
    /\ MainThreadFree
    /\ assertion.invalidationPosted
    /\ assertion' = [assertion EXCEPT !.invalidationPosted = FALSE]
    /\ handler' = "assertionWasInvalidated"
    /\ UNCHANGED <<prepareToSuspendTimer, pendingRequestToSuspendID, lastRequestID,
                   releaseAssertFailed, activityVars, processVars, client>>

Destruct ==
    /\ MainThreadFree
    /\ handler' = "~ProcessThrottler"
    /\ UNCHANGED <<throttlerVars, activityVars, processVars, client>>

\* One turn of invalidateAllActivities: foreground activities first.
InvalidateOneActivity(a) ==
    /\ handler \in Handlers
    /\ ~releaseAssertFailed
    /\ IF foregroundActivities # {} THEN a \in foregroundActivities ELSE a \in backgroundActivities
    /\ Invalidate(a)
    /\ UNCHANGED <<handler, client>>

\* The rest of the method, once invalidateAllActivities has returned.  After
\* processAssertionWasInvalidated the assertion, when it is still the same one,
\* gives up its background task (updateRunInBackgroundCount).
HandlerReturns ==
    /\ handler \in Handlers
    /\ ~releaseAssertFailed
    /\ foregroundActivities \cup backgroundActivities = {}
    /\ \/ /\ handler = "uiAssertionWillExpireImminently"
          /\ handler' = "none"
          /\ prepareToSuspendTimer' = FALSE
          /\ UNCHANGED assertion
       \/ /\ handler = "assertionWasInvalidated"
          /\ handler' = "none"
          /\ assertion' = [assertion EXCEPT !.holdsBackgroundTask =
                               @ /\ (assertion.valid \/ assertion.invalidationPosted)]
          /\ UNCHANGED prepareToSuspendTimer
       \/ /\ handler = "~ProcessThrottler"
          /\ handler' = "destroyed"
          /\ prepareToSuspendTimer' = FALSE
          /\ UNCHANGED assertion
    /\ UNCHANGED <<pendingRequestToSuspendID, lastRequestID, releaseAssertFailed,
                   activityVars, processVars, client>>

-----------------------------------------------------------------------------
(* The operating system and the auxiliary process *)

\* RunningBoard invalidates the assertion; the delegate posts the callback.
AssertionDidInvalidate ==
    /\ assertion.valid
    /\ handler # "destroyed"
    /\ assertion' = [assertion EXCEPT !.valid = FALSE, !.invalidationPosted = TRUE]
    /\ UNCHANGED <<prepareToSuspendTimer, pendingRequestToSuspendID, lastRequestID,
                   releaseAssertFailed, activityVars, handler, processVars, client>>

ProcessPrepareToSuspend ==
    /\ toProcess # <<>>
    /\ Head(toProcess).name = "PrepareToSuspend"
    /\ processIsSuspended' = TRUE
    /\ outstandingReplies' = outstandingReplies \cup {Head(toProcess).id}
    /\ toProcess' = Tail(toProcess)
    /\ UNCHANGED <<throttlerVars, activityVars, handler, processAlive, client>>

ProcessResume ==
    /\ toProcess # <<>>
    /\ Head(toProcess).name = "ProcessDidResume"
    /\ processIsSuspended' = FALSE
    /\ toProcess' = Tail(toProcess)
    /\ UNCHANGED <<throttlerVars, activityVars, handler, processAlive, outstandingReplies, client>>

\* The connection closes: the handlers of the unanswered requests are called
\* without a reply, which the caller cannot tell from one.
ProcessExits ==
    /\ processAlive
    /\ processAlive' = FALSE
    /\ outstandingReplies' = outstandingReplies \cup
           { toProcess[i].id : i \in {j \in 1..Len(toProcess) : toProcess[j].name = "PrepareToSuspend"} }
    /\ toProcess' = <<>>
    /\ UNCHANGED <<throttlerVars, activityVars, handler, processIsSuspended, client>>

-----------------------------------------------------------------------------
Next ==
    \/ \E a \in Activities :
           \/ AddForegroundActivity(a)
           \/ AddBackgroundActivity(a)
           \/ RemoveActivity(a)
           \/ InvalidateOneActivity(a)
    \/ DidConnectToProcess
    \/ PrepareToSuspendTimeoutTimerFired
    \/ \E id \in outstandingReplies : PrepareToSuspendReplied(id)
    \/ UIAssertionWillExpireImminently
    \/ AssertionWasInvalidated
    \/ Destruct
    \/ HandlerReturns
    \/ AssertionDidInvalidate
    \/ ProcessPrepareToSuspend
    \/ ProcessResume
    \/ ProcessExits

Spec == Init /\ [][Next]_vars

\* The main thread keeps running: a started timer fires and a loop that was
\* entered is finished.  Nothing is assumed of the process: it may hang.
MainThreadRuns ==
    /\ WF_vars(PrepareToSuspendTimeoutTimerFired)
    /\ WF_vars(HandlerReturns)
    /\ WF_vars(\E a \in Activities : InvalidateOneActivity(a))

FairSpec == Spec /\ MainThreadRuns

-----------------------------------------------------------------------------
(* Properties *)

\* Every variable keeps its type; request ids come from the static counter.
TypeOK ==
    /\ client \in Clients
    /\ foregroundActivities \in SUBSET Activities
    /\ backgroundActivities \in SUBSET Activities
    /\ assertion \in Assertion
    /\ prepareToSuspendTimer \in BOOLEAN
    /\ lastRequestID \in Nat
    /\ pendingRequestToSuspendID \in 0..lastRequestID
    /\ handler \in Handlers \cup {"none", "destroyed"}
    /\ releaseAssertFailed \in BOOLEAN
    /\ processAlive \in BOOLEAN
    /\ toProcess \in Seq(Message)
    /\ \A i \in 1..Len(toProcess) : toProcess[i].name = "PrepareToSuspend" => toProcess[i].id \in 1..lastRequestID
    /\ processIsSuspended \in BOOLEAN
    /\ outstandingReplies \in SUBSET (1..lastRequestID)

\* No interleaving of activities, timeouts, replies, expirations and
\* invalidations makes a RELEASE_ASSERT of ProcessThrottler.cpp (lines 190, 198
\* and 216) fail: the timer never fires, and a request is never made, in a
\* state those lines rule out.
NoReleaseAssertFailure == ~releaseAssertFailed

IsRunnable == foregroundActivities \cup backgroundActivities # {}

\* Between two methods the assertion held for a connected process is the one
\* its activities call for; a process without activities is at most kept in
\* the background, never in the foreground (setAssertionType and its callers).
AssertionMatchesActivities ==
    HasAssertion /\ handler = "none" =>
        IF IsRunnable
        THEN assertion.type = ExpectedAssertionType(foregroundActivities, backgroundActivities)
        ELSE assertion.type # "Foreground"

\* The last lifecycle message the process has received, or will have once its
\* queue is empty, is PrepareToSuspend.
EndsUpSuspended ==
    IF toProcess = <<>> THEN processIsSuspended
    ELSE toProcess[Len(toProcess)].name = "PrepareToSuspend"

\* A live process that has an activity is not left in the state
\* prepareToSuspend put it in (frozen layer trees, databases closed): it has
\* been resumed, or a ProcessDidResume is the last message queued for it
\* (updateAssertionIfNeeded against prepareToSuspend/processDidResume).
RunnableProcessIsResumed ==
    HasAssertion /\ handler = "none" /\ IsRunnable /\ processAlive => ~EndsUpSuspended

\* A reply lets the process be suspended only if the process is, when the reply
\* is used, prepared for it with nothing queued: a reply to an earlier request,
\* delayed past a resume, never does (the request id check in the completion
\* handler of sendPrepareToSuspendIPC).
ReplySuspendsOnlyPreparedProcess ==
    [][ /\ pendingRequestToSuspendID # 0 /\ pendingRequestToSuspendID' = 0
        /\ assertion'.type = "Suspended" /\ assertion.type # "Suspended"
        /\ processAlive
        => processIsSuspended /\ toProcess = <<>> ]_vars

\* "Schedule a timeout so it can't stay running in the background for too
\* long" (comment in updateAssertionIfNeeded): a process kept runnable without
\* any activity has the timeout running.  The code does not keep it: the
\* expiration of the UI background task stops the timer, and so does a reply
\* given inline, before the background assertion is taken.
BackgroundIsBounded ==
    HasAssertion /\ handler = "none" /\ ~IsRunnable /\ assertion.type # "Suspended"
        => prepareToSuspendTimer

\* A connected process that stays without activities ends up suspended for good,
\* even when it never answers PrepareToSuspend.  It is stated of the clients for
\* which nothing else stops the timeout.
IdleProcessIsEventuallySuspended ==
    <>[](client = "GPUProcess" /\ HasAssertion /\ ~IsRunnable /\ handler # "destroyed")
        => <>[](assertion.type = "Suspended")
=============================================================================
