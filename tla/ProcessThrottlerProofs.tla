----------------------- MODULE ProcessThrottlerProofs -----------------------
(***************************************************************************)
(* Proofs about ProcessThrottler, for any set of activities, any kind of   *)
(* client and any bound on the number of requests.                         *)
(***************************************************************************)
EXTENDS ProcessThrottler, TLAPS

(***************************************************************************)
(* The strengthening that makes NoReleaseAssertFailure inductive: the      *)
(* timer runs only while a request is pending and nothing wants the        *)
(* process to run; a request survives next to an activity only while the   *)
(* throttler is inside uiAssertionWillExpireImminently, where the          *)
(* assertion is already the suspended one.                                 *)
(***************************************************************************)
RequestInv ==
    /\ TypeOK
    /\ NoReleaseAssertFailure
    /\ pendingRequestToSuspendID # 0 => HasAssertion
    /\ prepareToSuspendTimer => pendingRequestToSuspendID # 0 /\ ~IsRunnable
    /\ pendingRequestToSuspendID # 0 /\ IsRunnable => assertion.type = "Suspended"

-----------------------------------------------------------------------------
(* What the operators compute. *)

\* setAssertionType leaves an assertion of the requested type.
LEMMA SetAssertionTypeResult ==
    ASSUME NEW old \in Assertion, NEW t \in AssertionTypes, NEW new \in SetAssertionType(old, t)
    PROVE  new \in Assertion /\ new.type = t
<1>1. CASE old.valid /\ old.type = t
  BY <1>1 DEF SetAssertionType
<1>2. CASE ~(old.valid /\ old.type = t)
  <2>1. new \in NewAssertions(t)
    BY <1>2 DEF SetAssertionType
  <2>2. PICK granted \in BOOLEAN :
           new = [type |-> t, valid |-> granted, invalidationPosted |-> ~granted,
                  holdsBackgroundTask |-> granted /\ ShouldTakeUIBackgroundAssertion /\ t # "Suspended"]
    BY <2>1 DEF NewAssertions
  <2> QED
    BY <2>2 DEF Assertion
<1> QED
  BY <1>1, <1>2

\* expectedAssertionType is Suspended exactly when there is no activity.
LEMMA ExpectedAssertionTypeResult ==
    ASSUME NEW fg, NEW bg
    PROVE  /\ ExpectedAssertionType(fg, bg) \in AssertionTypes
           /\ ExpectedAssertionType(fg, bg) = "Suspended" <=> fg \cup bg = {}
  BY DEF ExpectedAssertionType, AssertionTypes
\* The queue of lifecycle messages: what appending and removing does to its
\* typing and to its last message.
QueueOK(q, n) ==
    /\ q \in Seq(Message)
    /\ \A i \in 1..Len(q) : q[i].name = "PrepareToSuspend" => q[i].id \in 1..n

\* Sending PrepareToSuspend keeps the messages on their way to the process well
\* formed: its identifier is one that was handed out.
LEMMA QueueAppendPrepare ==
    ASSUME NEW n \in Nat, NEW q, QueueOK(q, n)
    PROVE  QueueOK(Append(q, PrepareToSuspend(n + 1)), n + 1)
<1> DEFINE m == PrepareToSuspend(n + 1)
           r == Append(q, m)
<1>1. m \in Message /\ m.id = n + 1
  BY DEF PrepareToSuspend, Message
<1>2. r \in Seq(Message) /\ Len(r) = Len(q) + 1 /\ r[Len(q) + 1] = m
      /\ \A i \in 1..Len(q) : r[i] = q[i]
  <2> HIDE DEF m
  <2> QED BY <1>1 DEF QueueOK
<1>3. ASSUME NEW i \in 1..Len(r), r[i].name = "PrepareToSuspend"
      PROVE  r[i].id \in 1..(n + 1)
  <2> HIDE DEF m, r
  <2>1. CASE i \in 1..Len(q)
    BY <1>2, <1>3, <2>1 DEF QueueOK
  <2>2. CASE i = Len(q) + 1
    BY <1>1, <1>2, <2>2
  <2> QED
    BY <1>2, <2>1, <2>2 DEF QueueOK
<1> QED
  BY <1>2, <1>3 DEF QueueOK

\* Sending ProcessDidResume keeps the messages on their way well formed.
LEMMA QueueAppendResume ==
    ASSUME NEW n \in Nat, NEW q, QueueOK(q, n)
    PROVE  QueueOK(Append(q, ProcessDidResume), n)
<1> DEFINE r == Append(q, ProcessDidResume)
<1>1. ProcessDidResume \in Message /\ ProcessDidResume.name # "PrepareToSuspend"
  BY DEF ProcessDidResume, Message
<1>2. r \in Seq(Message) /\ Len(r) = Len(q) + 1 /\ r[Len(q) + 1] = ProcessDidResume
      /\ \A i \in 1..Len(q) : r[i] = q[i]
  BY <1>1 DEF QueueOK
<1>3. ASSUME NEW i \in 1..Len(r), r[i].name = "PrepareToSuspend"
      PROVE  r[i].id \in 1..n
  <2> HIDE DEF r
  <2>1. CASE i \in 1..Len(q)
    BY <1>2, <1>3, <2>1 DEF QueueOK
  <2>2. CASE i = Len(q) + 1
    BY <1>1, <1>2, <1>3, <2>2
  <2> QED
    BY <1>2, <2>1, <2>2 DEF QueueOK
<1> QED
  BY <1>2, <1>3 DEF QueueOK

\* So does the process's taking the first message.
LEMMA QueueTail ==
    ASSUME NEW n \in Nat, NEW q, QueueOK(q, n), q # <<>>
    PROVE  /\ QueueOK(Tail(q), n)
           /\ Head(q).name = "PrepareToSuspend" => Head(q).id \in 1..n
<1>1. /\ Tail(q) \in Seq(Message) /\ Len(Tail(q)) = Len(q) - 1 /\ Len(q) \in Nat \ {0}
      /\ \A i \in 1..Len(Tail(q)) : Tail(q)[i] = q[i + 1]
      /\ Head(q) = q[1]
  BY DEF QueueOK
<1>2. ASSUME NEW i \in 1..Len(Tail(q)), Tail(q)[i].name = "PrepareToSuspend"
      PROVE  Tail(q)[i].id \in 1..n
  <2>1. i + 1 \in 1..Len(q)
    BY <1>1
  <2> QED
    BY <1>1, <1>2, <2>1 DEF QueueOK
<1>3. 1 \in 1..Len(q)
  BY <1>1
<1> QED
  BY <1>1, <1>2, <1>3 DEF QueueOK

\* Handing out further identifiers does not invalidate those on their way.
LEMMA QueueMonotone ==
    ASSUME NEW n \in Nat, NEW q, QueueOK(q, n)
    PROVE  QueueOK(q, n + 1)
  BY DEF QueueOK
-----------------------------------------------------------------------------
(* What ProcessThrottler's private methods do. *)

\* TypeOK without the variables that UpdateAssertionIfNeeded takes as arguments.
ThrottlerTypeOK ==
    /\ assertion \in Assertion
    /\ prepareToSuspendTimer \in BOOLEAN
    /\ lastRequestID \in Nat
    /\ pendingRequestToSuspendID \in 0..lastRequestID
    /\ releaseAssertFailed \in BOOLEAN
    /\ processAlive \in BOOLEAN
    /\ QueueOK(toProcess, lastRequestID)
    /\ processIsSuspended \in BOOLEAN
    /\ outstandingReplies \in SUBSET (1..lastRequestID)

\* sendPrepareToSuspendIPC leaves a request pending, or none when the client
\* has answered it already; no RELEASE_ASSERT fails if a request that is not
\* imminent is made only when none is pending.
LEMMA SendPrepareToSuspendIPCResult ==
    ASSUME ThrottlerTypeOK, NEW imminent \in BOOLEAN, NEW timer \in BOOLEAN, NEW fg, NEW bg,
           SendPrepareToSuspendIPC(imminent, timer, fg, bg),
           pendingRequestToSuspendID # 0 => imminent
    PROVE  /\ ThrottlerTypeOK'
           /\ releaseAssertFailed' = releaseAssertFailed
           /\ assertion'.type = IF imminent THEN "Suspended" ELSE "Background"
           /\ \/ pendingRequestToSuspendID' # 0 /\ prepareToSuspendTimer' = timer
              \/ pendingRequestToSuspendID' = 0 /\ prepareToSuspendTimer' = FALSE
<1> DEFINE newType == IF imminent THEN "Suspended" ELSE "Background"
           id == lastRequestID + 1
<1>1. newType \in AssertionTypes
  BY DEF AssertionTypes
<1>0. 1..lastRequestID \subseteq 1..id /\ id \in 1..id
  BY DEF ThrottlerTypeOK
<1>2. CASE pendingRequestToSuspendID # 0
  <2>1. assertion' \in SetAssertionType(assertion, newType) /\ imminent
    BY <1>2 DEF SendPrepareToSuspendIPC
  <2>2. assertion' \in Assertion /\ assertion'.type = newType
    BY <1>1, <2>1, SetAssertionTypeResult DEF ThrottlerTypeOK
  <2> QED
    BY <1>2, <2>1, <2>2, Zenon DEF SendPrepareToSuspendIPC, ThrottlerTypeOK, processVars
<1>3. CASE pendingRequestToSuspendID = 0 /\ ~RepliesSynchronously
  <2>1. /\ assertion' \in SetAssertionType(assertion, newType)
        /\ SendPrepareToSuspend(id) /\ lastRequestID' = id /\ pendingRequestToSuspendID' = id
        /\ prepareToSuspendTimer' = timer
        /\ UNCHANGED <<releaseAssertFailed, processAlive, processIsSuspended>>
    BY <1>3 DEF SendPrepareToSuspendIPC
  <2>2. assertion' \in Assertion /\ assertion'.type = newType
    BY <1>1, <2>1, SetAssertionTypeResult DEF ThrottlerTypeOK
  <2>3. QueueOK(toProcess, id) /\ QueueOK(Append(toProcess, PrepareToSuspend(id)), id)
    BY QueueAppendPrepare, QueueMonotone DEF ThrottlerTypeOK
  <2>4. QueueOK(toProcess', id)
    BY <2>1, <2>3, Zenon DEF SendPrepareToSuspend
  <2>5. outstandingReplies' \in SUBSET (1..id)
    <3> HIDE DEF id
    <3> QED
      BY <1>0, <2>1, Zenon DEF SendPrepareToSuspend, ThrottlerTypeOK
  <2>6. id \in Nat /\ id # 0 /\ id \in 1..id
    BY DEF ThrottlerTypeOK
  <2>7. (QueueOK(toProcess, lastRequestID))'
    BY <2>1, <2>4 DEF QueueOK
  <2> QED
    BY <2>1, <2>2, <2>5, <2>6, <2>7 DEF ThrottlerTypeOK
<1>4. CASE pendingRequestToSuspendID = 0 /\ RepliesSynchronously
  <2>1. PICK ready \in IF assertion.type = "Suspended" THEN {assertion}
                       ELSE SetAssertionType(assertion, ExpectedAssertionType(fg, bg)) :
            assertion' \in SetAssertionType(ready, newType)
    BY <1>4 DEF SendPrepareToSuspendIPC
  <2>2. ready \in Assertion
    BY <2>1, SetAssertionTypeResult, ExpectedAssertionTypeResult DEF ThrottlerTypeOK
  <2>3. assertion' \in Assertion /\ assertion'.type = newType
    BY <1>1, <2>1, <2>2, SetAssertionTypeResult
  <2>4. /\ lastRequestID' = id /\ ClearPendingRequestToSuspend
        /\ UNCHANGED <<releaseAssertFailed, processVars>>
    BY <1>4 DEF SendPrepareToSuspendIPC
  <2>5. QueueOK(toProcess, id)
    BY QueueMonotone DEF ThrottlerTypeOK
  <2>6. (QueueOK(toProcess, lastRequestID))'
    BY <2>4, <2>5 DEF QueueOK, processVars
  <2>7. id \in Nat /\ outstandingReplies \in SUBSET (1..id)
    <3>1. id \in Nat
      BY DEF ThrottlerTypeOK
    <3> HIDE DEF id
    <3> QED
      BY <1>0, <3>1 DEF ThrottlerTypeOK
  <2>8. /\ prepareToSuspendTimer' = FALSE /\ prepareToSuspendTimer' \in BOOLEAN
        /\ pendingRequestToSuspendID' = 0
    BY <2>4, Zenon DEF ClearPendingRequestToSuspend
  <2>9. ThrottlerTypeOK'
    <3> HIDE DEF id
    <3> QED
      BY <2>3, <2>4, <2>6, <2>7, <2>8 DEF ThrottlerTypeOK, processVars
  <2> QED
    BY <2>3, <2>4, <2>8, <2>9
<1> QED
  BY <1>2, <1>3, <1>4, Zenon

\* updateAssertionIfNeeded, by cases on the activities it is called with.
LEMMA UpdateAssertionIfNeededResult ==
    ASSUME ThrottlerTypeOK, NEW fg, NEW bg, UpdateAssertionIfNeeded(fg, bg),
           HasAssertion /\ fg \cup bg = {} /\ assertion.type # "Suspended"
               => pendingRequestToSuspendID = 0
    PROVE  /\ ThrottlerTypeOK'
           /\ releaseAssertFailed' = releaseAssertFailed
           /\ \/ ~HasAssertion /\ UNCHANGED throttlerVars
              \/ /\ HasAssertion /\ fg \cup bg # {}
                 /\ assertion'.type = ExpectedAssertionType(fg, bg)
                 /\ pendingRequestToSuspendID' = 0
                 /\ prepareToSuspendTimer' => prepareToSuspendTimer /\ pendingRequestToSuspendID = 0
              \/ /\ HasAssertion /\ fg \cup bg = {} /\ assertion.type # "Suspended"
                 /\ assertion'.type = "Background"
                 /\ prepareToSuspendTimer' => pendingRequestToSuspendID' # 0
              \/ /\ assertion.type = "Suspended" /\ fg \cup bg = {}
                 /\ assertion'.type = "Suspended"
                 /\ UNCHANGED <<pendingRequestToSuspendID, prepareToSuspendTimer>>
<1>1. CASE ~HasAssertion
  BY <1>1, Zenon DEF UpdateAssertionIfNeeded, HasAssertion, throttlerVars, processVars, ThrottlerTypeOK,
              QueueOK
<1>2. CASE HasAssertion /\ fg \cup bg # {}
  <2>1. /\ assertion' \in SetAssertionType(assertion, ExpectedAssertionType(fg, bg))
        /\ IF WasAskedToSuspend
           THEN SendProcessDidResume /\ ClearPendingRequestToSuspend
           ELSE UNCHANGED <<toProcess, prepareToSuspendTimer, pendingRequestToSuspendID>>
        /\ UNCHANGED <<lastRequestID, releaseAssertFailed, processAlive,
                       processIsSuspended, outstandingReplies>>
    BY <1>2, Zenon DEF UpdateAssertionIfNeeded, HasAssertion
  <2>2. assertion' \in Assertion /\ assertion'.type = ExpectedAssertionType(fg, bg)
    BY <2>1, SetAssertionTypeResult, ExpectedAssertionTypeResult DEF ThrottlerTypeOK
  <2>3. QueueOK(toProcess, lastRequestID) /\ QueueOK(Append(toProcess, ProcessDidResume), lastRequestID)
    BY QueueAppendResume DEF ThrottlerTypeOK
  <2>4. QueueOK(toProcess', lastRequestID)
    BY <2>1, <2>3, Zenon DEF SendProcessDidResume
  <2>5. (QueueOK(toProcess, lastRequestID))'
    BY <2>1, <2>4 DEF QueueOK
  <2>6. /\ pendingRequestToSuspendID' = 0
        /\ prepareToSuspendTimer' \in BOOLEAN
        /\ prepareToSuspendTimer' => prepareToSuspendTimer /\ pendingRequestToSuspendID = 0
    <3>1. CASE WasAskedToSuspend
      BY <2>1, <3>1, Zenon DEF ClearPendingRequestToSuspend
    <3>2. CASE ~WasAskedToSuspend
      BY <2>1, <3>2 DEF WasAskedToSuspend, ThrottlerTypeOK
    <3> QED
      BY <3>1, <3>2
  <2> QED
    BY <1>2, <2>1, <2>2, <2>5, <2>6 DEF ThrottlerTypeOK
<1>3. CASE HasAssertion /\ fg \cup bg = {} /\ assertion.type # "Suspended"
  <2>1. SendPrepareToSuspendIPC(FALSE, TRUE, fg, bg)
    BY <1>3, Zenon DEF UpdateAssertionIfNeeded, HasAssertion
  <2> QED
    BY <1>3, <2>1, SendPrepareToSuspendIPCResult, Zenon
<1>4. CASE assertion.type = "Suspended" /\ fg \cup bg = {}
  <2>1. /\ assertion' \in SetAssertionType(assertion, "Suspended")
        /\ UNCHANGED <<prepareToSuspendTimer, pendingRequestToSuspendID, lastRequestID,
                       releaseAssertFailed, processVars>>
    BY <1>4 DEF UpdateAssertionIfNeeded, HasAssertion
  <2>2. assertion' \in Assertion /\ assertion'.type = "Suspended"
    BY <2>1, SetAssertionTypeResult DEF ThrottlerTypeOK, AssertionTypes
  <2> QED
    BY <1>4, <2>1, <2>2 DEF ThrottlerTypeOK, processVars, QueueOK
<1> QED
  BY <1>1, <1>2, <1>3, <1>4
-----------------------------------------------------------------------------
(* RequestInv is inductive. *)

\* What a caller of updateAssertionIfNeeded that leaves the activities fg and bg needs.
LEMMA ActivityChange ==
    ASSUME RequestInv, NEW fg \in SUBSET Activities, NEW bg \in SUBSET Activities,
           foregroundActivities' = fg, backgroundActivities' = bg,
           UpdateAssertionIfNeeded(fg, bg),
           fg \cup bg = {} => IsRunnable,
           handler' \in Handlers \cup {"none", "destroyed"}, client' = client
    PROVE  RequestInv'
<1>1. ThrottlerTypeOK /\ ~releaseAssertFailed
  BY DEF RequestInv, TypeOK, ThrottlerTypeOK, QueueOK, NoReleaseAssertFailure
<1>2. HasAssertion /\ fg \cup bg = {} /\ assertion.type # "Suspended"
          => pendingRequestToSuspendID = 0
  BY DEF RequestInv
<1>3. /\ ThrottlerTypeOK'
      /\ releaseAssertFailed' = releaseAssertFailed
      /\ \/ ~HasAssertion /\ UNCHANGED throttlerVars
         \/ /\ HasAssertion /\ fg \cup bg # {}
            /\ assertion'.type = ExpectedAssertionType(fg, bg)
            /\ pendingRequestToSuspendID' = 0
            /\ prepareToSuspendTimer' => prepareToSuspendTimer /\ pendingRequestToSuspendID = 0
         \/ /\ HasAssertion /\ fg \cup bg = {} /\ assertion.type # "Suspended"
            /\ assertion'.type = "Background"
            /\ prepareToSuspendTimer' => pendingRequestToSuspendID' # 0
         \/ /\ assertion.type = "Suspended" /\ fg \cup bg = {}
            /\ assertion'.type = "Suspended"
            /\ UNCHANGED <<pendingRequestToSuspendID, prepareToSuspendTimer>>
  BY <1>1, <1>2, UpdateAssertionIfNeededResult
<1>4. TypeOK'
  BY <1>3 DEF RequestInv, TypeOK, ThrottlerTypeOK, QueueOK
<1>5. IsRunnable' <=> fg \cup bg # {}
  BY DEF IsRunnable
<1>6. ~prepareToSuspendTimer \/ (pendingRequestToSuspendID # 0 /\ ~IsRunnable)
  BY DEF RequestInv, TypeOK
<1>7. CASE ~HasAssertion /\ UNCHANGED throttlerVars
  BY <1>1, <1>3, <1>4, <1>6, <1>7 DEF RequestInv, HasAssertion, throttlerVars, NoReleaseAssertFailure
<1>8. CASE /\ HasAssertion /\ fg \cup bg # {}
           /\ assertion'.type = ExpectedAssertionType(fg, bg)
           /\ pendingRequestToSuspendID' = 0
           /\ prepareToSuspendTimer' => prepareToSuspendTimer /\ pendingRequestToSuspendID = 0
  BY <1>1, <1>3, <1>4, <1>6, <1>8 DEF RequestInv, NoReleaseAssertFailure
<1>9. CASE /\ HasAssertion /\ fg \cup bg = {} /\ assertion.type # "Suspended"
           /\ assertion'.type = "Background"
           /\ prepareToSuspendTimer' => pendingRequestToSuspendID' # 0
  BY <1>1, <1>3, <1>4, <1>5, <1>9 DEF RequestInv, NoReleaseAssertFailure, HasAssertion
<1>10. CASE /\ assertion.type = "Suspended" /\ fg \cup bg = {}
            /\ assertion'.type = "Suspended"
            /\ UNCHANGED <<pendingRequestToSuspendID, prepareToSuspendTimer>>
  BY <1>1, <1>3, <1>4, <1>5, <1>6, <1>10 DEF RequestInv, NoReleaseAssertFailure, HasAssertion
<1> QED
  BY <1>3, <1>7, <1>8, <1>9, <1>10

\* The throttler belongs to the same proxy all its life.
LEMMA ClientStays == [Next]_vars => client' = client
  BY Zenon DEF Next, vars, AddForegroundActivity, AddBackgroundActivity, RemoveActivity,
     InvalidateOneActivity, DidConnectToProcess, PrepareToSuspendTimeoutTimerFired,
     PrepareToSuspendReplied, UIAssertionWillExpireImminently, AssertionWasInvalidated, Destruct,
     HandlerReturns, AssertionDidInvalidate, ProcessPrepareToSuspend, ProcessResume, ProcessExits

\* Every step of the throttler, its process and its assertions preserves RequestInv.
LEMMA RequestInvStep == RequestInv /\ [Next]_vars => RequestInv'
<1> SUFFICES ASSUME RequestInv, [Next]_vars, client' = client PROVE RequestInv'
  BY ClientStays
<1>1. ThrottlerTypeOK /\ ~releaseAssertFailed /\ TypeOK
  BY DEF RequestInv, TypeOK, ThrottlerTypeOK, QueueOK, NoReleaseAssertFailure
<1>2. ASSUME NEW a \in Activities, AddForegroundActivity(a) PROVE RequestInv'
  BY <1>1, <1>2, ActivityChange DEF AddForegroundActivity, TypeOK
<1>3. ASSUME NEW a \in Activities, AddBackgroundActivity(a) PROVE RequestInv'
  BY <1>1, <1>3, ActivityChange, Zenon DEF AddBackgroundActivity, TypeOK
<1>4. ASSUME NEW a \in Activities, RemoveActivity(a) PROVE RequestInv'
  BY <1>1, <1>4, ActivityChange, Zenon DEF RemoveActivity, Invalidate, TypeOK, IsRunnable
<1>5. ASSUME NEW a \in Activities, InvalidateOneActivity(a) PROVE RequestInv'
  BY <1>1, <1>5, ActivityChange, Zenon DEF InvalidateOneActivity, Invalidate, TypeOK, IsRunnable
<1>6. CASE DidConnectToProcess
  <2>1. assertion' \in SetAssertionType(assertion,
            ExpectedAssertionType(foregroundActivities, backgroundActivities))
    BY <1>6, ExpectedAssertionTypeResult DEF DidConnectToProcess, SetAssertionType, HasAssertion, AssertionTypes
  <2>2. assertion' \in Assertion /\ assertion'.type # "None"
    BY <1>1, <2>1, SetAssertionTypeResult, ExpectedAssertionTypeResult DEF ThrottlerTypeOK, AssertionTypes
  <2>3. pendingRequestToSuspendID = 0
    BY <1>6 DEF RequestInv, DidConnectToProcess
  <2> QED
    BY <1>6, <2>2, <2>3 DEF DidConnectToProcess, RequestInv, TypeOK, processVars, activityVars,
       HasAssertion, IsRunnable, NoReleaseAssertFailure
<1>7. CASE PrepareToSuspendTimeoutTimerFired
  <2>1. ~IsRunnable /\ pendingRequestToSuspendID # 0
    BY <1>7 DEF PrepareToSuspendTimeoutTimerFired, RequestInv
  <2>2. assertion' \in Assertion /\ assertion'.type = "Suspended"
    BY <1>1, <1>7, <2>1, SetAssertionTypeResult, ExpectedAssertionTypeResult
    DEF PrepareToSuspendTimeoutTimerFired, ThrottlerTypeOK, IsRunnable
  <2> QED
    BY <1>7, <2>1, <2>2, Zenon DEF PrepareToSuspendTimeoutTimerFired, RequestInv, TypeOK, processVars,
       activityVars, HasAssertion, IsRunnable, NoReleaseAssertFailure
<1>8. ASSUME NEW id \in outstandingReplies, PrepareToSuspendReplied(id) PROVE RequestInv'
  <2>1. CASE UNCHANGED throttlerVars
    BY <1>8, <2>1 DEF PrepareToSuspendReplied, RequestInv, TypeOK, throttlerVars, activityVars,
       HasAssertion, IsRunnable, NoReleaseAssertFailure
  <2>2. CASE /\ handler = "none" /\ IsCurrentRequest(id)
             /\ ClearPendingRequestToSuspend
             /\ assertion' \in IF assertion.type = "Suspended" THEN {assertion}
                               ELSE SetAssertionType(assertion,
                                    ExpectedAssertionType(foregroundActivities, backgroundActivities))
             /\ UNCHANGED <<lastRequestID, releaseAssertFailed>>
    <3>1. assertion' \in Assertion
      BY <1>1, <2>2, SetAssertionTypeResult, ExpectedAssertionTypeResult DEF ThrottlerTypeOK
    <3>2. /\ prepareToSuspendTimer' \in BOOLEAN /\ ~prepareToSuspendTimer'
          /\ pendingRequestToSuspendID' = 0
      BY <2>2, Zenon DEF ClearPendingRequestToSuspend
    <3>3. /\ UNCHANGED <<lastRequestID, releaseAssertFailed, activityVars, handler,
                         processAlive, toProcess, processIsSuspended>>
          /\ outstandingReplies' \subseteq outstandingReplies
      BY <1>8, <2>2 DEF PrepareToSuspendReplied
    <3> QED
      BY <3>1, <3>2, <3>3 DEF RequestInv, TypeOK, activityVars, NoReleaseAssertFailure
  <2> QED
    BY <1>8, <2>1, <2>2 DEF PrepareToSuspendReplied
<1>9. CASE UIAssertionWillExpireImminently
  <2>1. /\ SendPrepareToSuspendIPC(TRUE, prepareToSuspendTimer, foregroundActivities, backgroundActivities)
        /\ prepareToSuspendTimer \in BOOLEAN
    BY <1>1, <1>9, Zenon DEF UIAssertionWillExpireImminently, ThrottlerTypeOK
  <2>2. /\ ThrottlerTypeOK'
        /\ releaseAssertFailed' = releaseAssertFailed
        /\ assertion'.type = "Suspended"
        /\ \/ pendingRequestToSuspendID' # 0 /\ prepareToSuspendTimer' = prepareToSuspendTimer
           \/ pendingRequestToSuspendID' = 0 /\ prepareToSuspendTimer' = FALSE
    BY <1>1, <2>1, SendPrepareToSuspendIPCResult, Zenon
  <2>3. TypeOK'
    BY <1>1, <1>9, <2>2 DEF UIAssertionWillExpireImminently, TypeOK, ThrottlerTypeOK, QueueOK,
       activityVars, Handlers
  <2> QED
    BY <1>1, <1>9, <2>2, <2>3 DEF UIAssertionWillExpireImminently, RequestInv, NoReleaseAssertFailure,
       HasAssertion, IsRunnable, activityVars
<1>10. CASE AssertionWasInvalidated
  BY <1>10, Zenon DEF AssertionWasInvalidated, RequestInv, TypeOK, Assertion, processVars, activityVars,
     HasAssertion, IsRunnable, NoReleaseAssertFailure, Handlers
<1>11. CASE Destruct
  BY <1>11 DEF Destruct, RequestInv, TypeOK, throttlerVars, processVars, activityVars,
     HasAssertion, IsRunnable, NoReleaseAssertFailure, Handlers
<1>12. CASE HandlerReturns
  <2>1. /\ assertion' \in Assertion /\ assertion'.type = assertion.type
        /\ prepareToSuspendTimer' = FALSE \/ prepareToSuspendTimer' = prepareToSuspendTimer
        /\ handler' \in {"none", "destroyed"}
    BY <1>1, <1>12 DEF HandlerReturns, TypeOK, Assertion
  <2>2. /\ prepareToSuspendTimer' \in BOOLEAN
        /\ prepareToSuspendTimer' => prepareToSuspendTimer
    <3>1. CASE prepareToSuspendTimer' = FALSE
      BY <3>1, Zenon
    <3>2. CASE prepareToSuspendTimer' = prepareToSuspendTimer
      BY <1>1, <3>2 DEF TypeOK
    <3> QED
      BY <2>1, <3>1, <3>2, Zenon
  <2>3. UNCHANGED <<pendingRequestToSuspendID, lastRequestID, releaseAssertFailed,
                    activityVars, processVars>>
    BY <1>12 DEF HandlerReturns
  <2> QED
    BY <2>1, <2>2, <2>3 DEF RequestInv, TypeOK, processVars, activityVars,
       HasAssertion, IsRunnable, NoReleaseAssertFailure
<1>13. CASE AssertionDidInvalidate
  BY <1>13, Zenon DEF AssertionDidInvalidate, RequestInv, TypeOK, Assertion, processVars, activityVars,
     HasAssertion, IsRunnable, NoReleaseAssertFailure
<1>14. CASE ProcessPrepareToSuspend
  <2>1. QueueOK(toProcess, lastRequestID)' /\ outstandingReplies' \in SUBSET (1..lastRequestID)
    BY <1>1, <1>14, QueueTail, Zenon DEF ProcessPrepareToSuspend, ThrottlerTypeOK, throttlerVars, QueueOK
  <2> QED
    BY <1>14, <2>1 DEF ProcessPrepareToSuspend, RequestInv, TypeOK, QueueOK, throttlerVars, activityVars,
       HasAssertion, IsRunnable, NoReleaseAssertFailure
<1>15. CASE ProcessResume
  <2>1. QueueOK(toProcess, lastRequestID)'
    BY <1>1, <1>15, QueueTail DEF ProcessResume, ThrottlerTypeOK, throttlerVars, QueueOK
  <2> QED
    BY <1>15, <2>1, Zenon DEF ProcessResume, RequestInv, TypeOK, QueueOK, throttlerVars, activityVars,
       HasAssertion, IsRunnable, NoReleaseAssertFailure
<1>16. CASE ProcessExits
  <2>1. toProcess' \in Seq(Message) /\ Len(toProcess') = 0
    BY <1>16 DEF ProcessExits
  <2>2. outstandingReplies' \in SUBSET (1..lastRequestID)
    BY <1>1, <1>16, Zenon DEF ProcessExits, TypeOK
  <2>3. processAlive' \in BOOLEAN
    BY <1>16, Zenon DEF ProcessExits
  <2>4. UNCHANGED <<throttlerVars, activityVars, handler, processIsSuspended>>
    BY <1>16 DEF ProcessExits
  <2> QED
    BY <2>1, <2>2, <2>3, <2>4 DEF RequestInv, TypeOK, throttlerVars, activityVars,
       HasAssertion, IsRunnable, NoReleaseAssertFailure
<1>17. CASE UNCHANGED vars
  BY <1>17 DEF vars, RequestInv, TypeOK, throttlerVars, activityVars, processVars,
     HasAssertion, IsRunnable, NoReleaseAssertFailure
<1> QED
  BY <1>2, <1>3, <1>4, <1>5, <1>6, <1>7, <1>8, <1>9, <1>10, <1>11, <1>12, <1>13, <1>14, <1>15,
     <1>16, <1>17 DEF Next

\* The constructor establishes RequestInv.
LEMMA InitRequestInv == Init => RequestInv
<1> SUFFICES ASSUME Init PROVE RequestInv
  OBVIOUS
<1>1. assertion \in Assertion
  BY DEF Init, Assertion, NoAssertion
<1>2. toProcess \in Seq(Message) /\ Len(toProcess) = 0
  BY DEF Init
<1>3. /\ prepareToSuspendTimer \in BOOLEAN /\ ~prepareToSuspendTimer
      /\ releaseAssertFailed \in BOOLEAN /\ ~releaseAssertFailed
      /\ processAlive \in BOOLEAN /\ processIsSuspended \in BOOLEAN
  BY Zenon DEF Init
<1>4. /\ foregroundActivities = {} /\ backgroundActivities = {} /\ pendingRequestToSuspendID = 0
      /\ lastRequestID = 0 /\ handler = "none" /\ outstandingReplies = {} /\ client \in Clients
  BY DEF Init
<1> QED
  BY <1>1, <1>2, <1>3, <1>4 DEF RequestInv, TypeOK, NoReleaseAssertFailure

\* Every behaviour of the throttler keeps its types, and none of the
\* RELEASE_ASSERTs of prepareToSuspendTimeoutTimerFired, processReadyToSuspend
\* and sendPrepareToSuspendIPC ever fails.
THEOREM ThrottlerNeverAsserts == Spec => [](TypeOK /\ NoReleaseAssertFailure)
<1>1. Init => RequestInv
  BY InitRequestInv
<1>2. RequestInv => TypeOK /\ NoReleaseAssertFailure
  BY DEF RequestInv
<1> QED
  BY <1>1, <1>2, RequestInvStep, PTL DEF Spec
-----------------------------------------------------------------------------
(* The process is resumed whenever it has work to do. *)

(***************************************************************************)
(* The strengthening of RunnableProcessIsResumed: whenever the messages    *)
(* sent so far leave the process suspended, the throttler still knows it   *)
(* asked for that, by its assertion or by a pending request, and so sends  *)
(* ProcessDidResume with the next activity.  A client that answers         *)
(* synchronously sends its process nothing.                                *)
(***************************************************************************)
ResumeInv ==
    /\ AssertionMatchesActivities
    /\ HasAssertion /\ ~IsRunnable => assertion.type # "Foreground"
    /\ processAlive /\ EndsUpSuspended => WasAskedToSuspend
    /\ RepliesSynchronously => toProcess = <<>> /\ ~processIsSuspended

\* Appending a message decides how the process ends up.
LEMMA AppendDecides ==
    ASSUME NEW q \in Seq(Message), NEW m \in Message
    PROVE  Append(q, m) # <<>> /\ Append(q, m)[Len(Append(q, m))] = m
  OBVIOUS

\* Handling the first message does not change how the process ends up.
LEMMA TailDecides ==
    ASSUME toProcess \in Seq(Message), toProcess # <<>>, toProcess' = Tail(toProcess),
           processIsSuspended' = (Head(toProcess).name = "PrepareToSuspend")
    PROVE  EndsUpSuspended' = EndsUpSuspended
<1>1. /\ Len(toProcess) \in Nat \ {0} /\ Head(toProcess) = toProcess[1]
      /\ Tail(toProcess) \in Seq(Message) /\ Len(Tail(toProcess)) = Len(toProcess) - 1
      /\ \A i \in 1..Len(Tail(toProcess)) : Tail(toProcess)[i] = toProcess[i + 1]
  OBVIOUS
<1>2. CASE Len(toProcess) = 1
  <2>1. Tail(toProcess) = <<>>
    BY <1>1, <1>2
  <2> QED
    BY <1>1, <1>2, <2>1 DEF EndsUpSuspended
<1>3. CASE Len(toProcess) > 1
  <2>1. /\ Tail(toProcess) # <<>>
        /\ Tail(toProcess)[Len(Tail(toProcess))] = toProcess[Len(toProcess)]
    <3>1. Len(Tail(toProcess)) \in 1..Len(Tail(toProcess)) /\ Len(Tail(toProcess)) + 1 = Len(toProcess)
      BY <1>1, <1>3
    <3>2. Tail(toProcess)[Len(Tail(toProcess))] = toProcess[Len(Tail(toProcess)) + 1]
      BY <1>1, <3>1, Zenon
    <3>3. Tail(toProcess) # <<>>
      <4>1. Len(Tail(toProcess)) # 0 /\ Len(<<>>) = 0
        BY <1>1, <1>3
      <4> QED
        BY <4>1, Zenon
    <3> QED
      BY <3>1, <3>2, <3>3, Zenon
  <2> QED
    BY <2>1 DEF EndsUpSuspended
<1> QED
  BY <1>1, <1>2, <1>3

\* After sendPrepareToSuspendIPC the throttler remembers the request, unless
\* the client answered it without telling its process anything.
LEMMA SendPrepareToSuspendIPCRemembers ==
    ASSUME NEW imminent, NEW timer, NEW fg, NEW bg, lastRequestID \in Nat,
           SendPrepareToSuspendIPC(imminent, timer, fg, bg)
    PROVE  /\ UNCHANGED <<processAlive, processIsSuspended>>
           /\ ~RepliesSynchronously => pendingRequestToSuspendID' # 0
           /\ RepliesSynchronously /\ pendingRequestToSuspendID = 0 => UNCHANGED toProcess
           /\ pendingRequestToSuspendID # 0 => pendingRequestToSuspendID' # 0 /\ UNCHANGED toProcess
  BY DEF SendPrepareToSuspendIPC, processVars, RepliesSynchronously

\* A caller of updateAssertionIfNeeded leaves the process resumed when it leaves
\* it an activity, and the assertion that its activities call for.
LEMMA ActivityChangeResumes ==
    ASSUME RequestInv, ResumeInv, NEW fg \in SUBSET Activities, NEW bg \in SUBSET Activities,
           foregroundActivities' = fg, backgroundActivities' = bg,
           UpdateAssertionIfNeeded(fg, bg),
           fg \cup bg = {} => IsRunnable,
           RepliesSynchronously' = RepliesSynchronously
    PROVE  ResumeInv'
<1>1. ThrottlerTypeOK
  BY DEF RequestInv, TypeOK, ThrottlerTypeOK, QueueOK
<1>2. HasAssertion /\ fg \cup bg = {} /\ assertion.type # "Suspended"
          => pendingRequestToSuspendID = 0
  BY DEF RequestInv
<1>3. IsRunnable' <=> fg \cup bg # {}
  BY DEF IsRunnable
<1>4. CASE ~HasAssertion
  <2>1. UNCHANGED <<throttlerVars, processVars>>
    BY <1>4, Zenon DEF UpdateAssertionIfNeeded, HasAssertion
  <2>2. ~HasAssertion' /\ EndsUpSuspended' = EndsUpSuspended /\ WasAskedToSuspend' = WasAskedToSuspend
    BY <1>4, <2>1 DEF HasAssertion, throttlerVars, processVars, EndsUpSuspended, WasAskedToSuspend
  <2> QED
    BY <2>1, <2>2 DEF ResumeInv, AssertionMatchesActivities, processVars
<1>5. CASE HasAssertion /\ fg \cup bg # {}
  <2>1. /\ assertion' \in SetAssertionType(assertion, ExpectedAssertionType(fg, bg))
        /\ IF WasAskedToSuspend
           THEN SendProcessDidResume
           ELSE UNCHANGED <<toProcess, prepareToSuspendTimer, pendingRequestToSuspendID>>
        /\ UNCHANGED <<processAlive, processIsSuspended>>
    BY <1>5, Zenon DEF UpdateAssertionIfNeeded, HasAssertion
  <2>2. assertion'.type = ExpectedAssertionType(fg, bg)
    BY <1>1, <2>1, SetAssertionTypeResult, ExpectedAssertionTypeResult DEF ThrottlerTypeOK
  <2>3. ~(processAlive' /\ EndsUpSuspended')
    <3>1. CASE WasAskedToSuspend /\ processAlive /\ ~RepliesSynchronously
      <4>1. toProcess' = Append(toProcess, ProcessDidResume)
        BY <2>1, <3>1 DEF SendProcessDidResume
      <4>2. ProcessDidResume \in Message /\ ProcessDidResume.name # "PrepareToSuspend"
        BY DEF ProcessDidResume, Message
      <4>3. toProcess' # <<>> /\ toProcess'[Len(toProcess')] = ProcessDidResume
        BY <1>1, <4>1, <4>2, AppendDecides DEF ThrottlerTypeOK, QueueOK
      <4> QED
        BY <4>2, <4>3 DEF EndsUpSuspended
    <3>2. CASE WasAskedToSuspend /\ ~processAlive
      BY <2>1, <3>2
    <3>3. CASE WasAskedToSuspend /\ RepliesSynchronously
      <4>1. toProcess' = <<>> /\ ~processIsSuspended'
        BY <2>1, <3>3 DEF SendProcessDidResume, ResumeInv
      <4> QED
        BY <4>1 DEF EndsUpSuspended
    <3>4. CASE ~WasAskedToSuspend
      BY <2>1, <3>4 DEF EndsUpSuspended, ResumeInv
    <3> QED
      BY <1>1, <3>1, <3>2, <3>3, <3>4
  <2>4. RepliesSynchronously => toProcess' = <<>> /\ ~processIsSuspended'
    BY <2>1 DEF ResumeInv, SendProcessDidResume
  <2> QED
    BY <1>3, <1>5, <2>2, <2>3, <2>4 DEF ResumeInv, AssertionMatchesActivities
<1>6. CASE HasAssertion /\ fg \cup bg = {} /\ assertion.type # "Suspended"
  <2>1. SendPrepareToSuspendIPC(FALSE, TRUE, fg, bg)
    BY <1>6, Zenon DEF UpdateAssertionIfNeeded, HasAssertion
  <2>2. assertion'.type = "Background"
    BY <1>1, <1>2, <1>6, <2>1, SendPrepareToSuspendIPCResult, Zenon
  <2>3. /\ UNCHANGED <<processAlive, processIsSuspended>>
        /\ ~RepliesSynchronously => pendingRequestToSuspendID' # 0
        /\ RepliesSynchronously => UNCHANGED toProcess
    BY <1>1, <1>2, <1>6, <2>1, SendPrepareToSuspendIPCRemembers, Zenon DEF ThrottlerTypeOK
  <2>4. processAlive' /\ EndsUpSuspended' => WasAskedToSuspend'
    BY <2>3 DEF ResumeInv, EndsUpSuspended, WasAskedToSuspend
  <2> QED
    BY <1>3, <1>6, <2>2, <2>3, <2>4 DEF ResumeInv, AssertionMatchesActivities
<1>7. CASE assertion.type = "Suspended" /\ fg \cup bg = {}
  <2>1. /\ assertion' \in SetAssertionType(assertion, "Suspended")
        /\ UNCHANGED processVars
    BY <1>7 DEF UpdateAssertionIfNeeded, HasAssertion
  <2>2. assertion'.type = "Suspended"
    BY <1>1, <2>1, SetAssertionTypeResult DEF ThrottlerTypeOK, AssertionTypes
  <2> QED
    BY <1>3, <1>7, <2>1, <2>2 DEF ResumeInv, AssertionMatchesActivities, WasAskedToSuspend, processVars
<1> QED
  BY <1>4, <1>5, <1>6, <1>7

\* Every step preserves ResumeInv.
LEMMA ResumeInvStep == RequestInv /\ ResumeInv /\ [Next]_vars => ResumeInv'
<1> SUFFICES ASSUME RequestInv, ResumeInv, [Next]_vars,
                    RepliesSynchronously' = RepliesSynchronously
             PROVE  ResumeInv'
  BY ClientStays DEF RepliesSynchronously
<1>1. ThrottlerTypeOK /\ TypeOK
  BY DEF RequestInv, TypeOK, ThrottlerTypeOK, QueueOK
<1>2. ASSUME NEW a \in Activities, AddForegroundActivity(a) PROVE ResumeInv'
  BY <1>1, <1>2, ActivityChangeResumes DEF AddForegroundActivity, TypeOK
<1>3. ASSUME NEW a \in Activities, AddBackgroundActivity(a) PROVE ResumeInv'
  BY <1>1, <1>3, ActivityChangeResumes, Zenon DEF AddBackgroundActivity, TypeOK
<1>4. ASSUME NEW a \in Activities, RemoveActivity(a) PROVE ResumeInv'
  BY <1>1, <1>4, ActivityChangeResumes, Zenon DEF RemoveActivity, Invalidate, TypeOK, IsRunnable
<1>5. ASSUME NEW a \in Activities, InvalidateOneActivity(a) PROVE ResumeInv'
  BY <1>1, <1>5, ActivityChangeResumes, Zenon DEF InvalidateOneActivity, Invalidate, TypeOK, IsRunnable
<1>6. CASE DidConnectToProcess
  <2>1. assertion' \in SetAssertionType(assertion,
            ExpectedAssertionType(foregroundActivities, backgroundActivities))
    BY <1>6, ExpectedAssertionTypeResult DEF DidConnectToProcess, SetAssertionType, HasAssertion, AssertionTypes
  <2>2. assertion'.type = ExpectedAssertionType(foregroundActivities, backgroundActivities)
    BY <1>1, <2>1, SetAssertionTypeResult, ExpectedAssertionTypeResult DEF ThrottlerTypeOK
  <2>3. ~WasAskedToSuspend
    BY <1>6 DEF RequestInv, DidConnectToProcess, WasAskedToSuspend, HasAssertion
  <2>4. ~(processAlive' /\ EndsUpSuspended')
    BY <1>6, <2>3 DEF DidConnectToProcess, ResumeInv, EndsUpSuspended, processVars
  <2>5. UNCHANGED <<activityVars, processVars>>
    BY <1>6 DEF DidConnectToProcess
  <2> QED
    BY <2>2, <2>4, <2>5, ExpectedAssertionTypeResult
    DEF ResumeInv, AssertionMatchesActivities, IsRunnable, activityVars, processVars
<1>7. CASE PrepareToSuspendTimeoutTimerFired
  <2>1. ~IsRunnable
    BY <1>7 DEF PrepareToSuspendTimeoutTimerFired, RequestInv
  <2>2. assertion'.type = "Suspended"
    BY <1>1, <1>7, <2>1, SetAssertionTypeResult, ExpectedAssertionTypeResult
    DEF PrepareToSuspendTimeoutTimerFired, ThrottlerTypeOK, IsRunnable
  <2>3. UNCHANGED <<activityVars, processVars>>
    BY <1>7 DEF PrepareToSuspendTimeoutTimerFired
  <2> QED
    BY <2>1, <2>2, <2>3
    DEF ResumeInv, AssertionMatchesActivities, WasAskedToSuspend, IsRunnable, activityVars, processVars
<1>8. ASSUME NEW id \in outstandingReplies, PrepareToSuspendReplied(id) PROVE ResumeInv'
  <2>1. UNCHANGED <<activityVars, handler, processAlive, toProcess, processIsSuspended>>
    BY <1>8 DEF PrepareToSuspendReplied
  <2>2. CASE UNCHANGED throttlerVars
    BY <2>1, <2>2 DEF ResumeInv, AssertionMatchesActivities, EndsUpSuspended, WasAskedToSuspend,
       HasAssertion, IsRunnable, throttlerVars, activityVars
  <2>3. CASE /\ handler = "none" /\ IsCurrentRequest(id)
             /\ assertion' \in IF assertion.type = "Suspended" THEN {assertion}
                               ELSE SetAssertionType(assertion,
                                    ExpectedAssertionType(foregroundActivities, backgroundActivities))
    <3>1. pendingRequestToSuspendID # 0
      BY <1>1, <2>3 DEF IsCurrentRequest, TypeOK
    <3>2. ~IsRunnable
      BY <2>3, <3>1, ExpectedAssertionTypeResult
      DEF RequestInv, ResumeInv, AssertionMatchesActivities, IsRunnable
    <3>3. assertion'.type = "Suspended"
      <4>1. CASE assertion.type = "Suspended"
        BY <2>3, <4>1
      <4>2. CASE assertion.type # "Suspended"
        BY <1>1, <2>3, <3>2, <4>2, SetAssertionTypeResult, ExpectedAssertionTypeResult
        DEF ThrottlerTypeOK, IsRunnable
      <4> QED
        BY <4>1, <4>2
    <3> QED
      BY <2>1, <3>2, <3>3
      DEF ResumeInv, AssertionMatchesActivities, WasAskedToSuspend, IsRunnable, activityVars
  <2> QED
    BY <1>8, <2>2, <2>3 DEF PrepareToSuspendReplied
<1>9. CASE UIAssertionWillExpireImminently
  <2>1. /\ SendPrepareToSuspendIPC(TRUE, prepareToSuspendTimer, foregroundActivities, backgroundActivities)
        /\ prepareToSuspendTimer \in BOOLEAN /\ handler' # "none" /\ UNCHANGED activityVars
    BY <1>1, <1>9, Zenon DEF UIAssertionWillExpireImminently, ThrottlerTypeOK
  <2>2. assertion'.type = "Suspended"
    BY <1>1, <2>1, SendPrepareToSuspendIPCResult, Zenon
  <2>3. RepliesSynchronously => UNCHANGED <<toProcess, processIsSuspended>>
    BY <1>1, <2>1, SendPrepareToSuspendIPCRemembers, Zenon DEF ThrottlerTypeOK
  <2> QED
    BY <2>1, <2>2, <2>3 DEF ResumeInv, AssertionMatchesActivities, WasAskedToSuspend
<1>10. CASE AssertionWasInvalidated \/ AssertionDidInvalidate \/ HandlerReturns \/ Destruct
  <2>1. assertion'.type = assertion.type
    BY <1>1, <1>10, Zenon DEF AssertionWasInvalidated, AssertionDidInvalidate, HandlerReturns, Destruct,
       throttlerVars, TypeOK, Assertion
  <2>2. UNCHANGED <<pendingRequestToSuspendID, activityVars, processVars>>
    BY <1>10 DEF AssertionWasInvalidated, AssertionDidInvalidate, HandlerReturns, Destruct, throttlerVars
  <2>3. handler' = "none" => handler = "none" \/ ~IsRunnable
    BY <1>10 DEF AssertionWasInvalidated, AssertionDidInvalidate, HandlerReturns, Destruct, IsRunnable
  <2> QED
    BY <2>1, <2>2, <2>3 DEF ResumeInv, AssertionMatchesActivities, EndsUpSuspended, WasAskedToSuspend,
       HasAssertion, IsRunnable, activityVars, processVars
<1>11. CASE ProcessPrepareToSuspend \/ ProcessResume
  <2>1. /\ toProcess # <<>> /\ toProcess' = Tail(toProcess)
        /\ processIsSuspended' = (Head(toProcess).name = "PrepareToSuspend")
        /\ UNCHANGED <<throttlerVars, activityVars, handler, processAlive>>
    BY <1>11, Zenon DEF ProcessPrepareToSuspend, ProcessResume
  <2>2. EndsUpSuspended' = EndsUpSuspended
    BY <1>1, <2>1, TailDecides DEF TypeOK
  <2>3. ~RepliesSynchronously
    BY <2>1 DEF ResumeInv, RepliesSynchronously
  <2> QED
    BY <2>1, <2>2, <2>3 DEF ResumeInv, AssertionMatchesActivities, WasAskedToSuspend,
       HasAssertion, IsRunnable, throttlerVars, activityVars
<1>12. CASE ProcessExits
  <2>1. /\ ~processAlive' /\ toProcess' = <<>>
        /\ UNCHANGED <<throttlerVars, activityVars, handler, processIsSuspended>>
    BY <1>12 DEF ProcessExits
  <2> QED
    BY <2>1 DEF ResumeInv, AssertionMatchesActivities, WasAskedToSuspend,
       HasAssertion, IsRunnable, throttlerVars, activityVars
<1>13. CASE UNCHANGED vars
  BY <1>13 DEF vars, ResumeInv, AssertionMatchesActivities, EndsUpSuspended, WasAskedToSuspend,
     HasAssertion, IsRunnable, throttlerVars, activityVars, processVars
<1> QED
  BY <1>2, <1>3, <1>4, <1>5, <1>6, <1>7, <1>8, <1>9, <1>10, <1>11, <1>12, <1>13 DEF Next

\* In every behaviour, a live process with an activity has been resumed or has
\* a resume as the last message on its way, and its assertion is the one its
\* activities call for.
THEOREM ThrottlerResumesProcess == Spec => [](RunnableProcessIsResumed /\ AssertionMatchesActivities)
<1>1. Init => RequestInv /\ ResumeInv
  <2> SUFFICES ASSUME Init PROVE RequestInv /\ ResumeInv
    OBVIOUS
  <2>1. RequestInv
    BY InitRequestInv
  <2>2. ~HasAssertion
    BY DEF Init, NoAssertion, HasAssertion
  <2>3. toProcess = <<>> /\ ~processIsSuspended
    BY DEF Init
  <2> QED
    BY <2>1, <2>2, <2>3 DEF ResumeInv, AssertionMatchesActivities, EndsUpSuspended
<1>2. RequestInv /\ ResumeInv => RunnableProcessIsResumed /\ AssertionMatchesActivities
  <2> SUFFICES ASSUME RequestInv, ResumeInv, HasAssertion, handler = "none", IsRunnable, processAlive
               PROVE  ~EndsUpSuspended
    BY DEF RunnableProcessIsResumed, ResumeInv
  <2>1. assertion.type # "Suspended"
    BY ExpectedAssertionTypeResult DEF ResumeInv, AssertionMatchesActivities, IsRunnable
  <2> QED
    BY <2>1 DEF RequestInv, ResumeInv, WasAskedToSuspend
<1> QED
  BY <1>1, <1>2, RequestInvStep, ResumeInvStep, PTL DEF Spec

\* In every behaviour, the assertion held is the one the activities call for:
\* updateAssertionIfNeeded leaves none behind that an activity outgrew.
THEOREM ThrottlerHoldsRightAssertion == Spec => []AssertionMatchesActivities
  BY ThrottlerResumesProcess, PTL

-----------------------------------------------------------------------------
(* A reply is used only while the process is prepared. *)

(***************************************************************************)
(* While a request is pending and the process lives, either the process    *)
(* has prepared and nothing else is on its way, or the request is the last *)
(* message on its way and no reply to it exists yet.                       *)
(***************************************************************************)
ReplyInv ==
    pendingRequestToSuspendID # 0 /\ processAlive =>
        \/ toProcess = <<>> /\ processIsSuspended
        \/ /\ toProcess # <<>>
           /\ toProcess[Len(toProcess)] = PrepareToSuspend(pendingRequestToSuspendID)
           /\ pendingRequestToSuspendID \notin outstandingReplies
           /\ \A i \in 1..(Len(toProcess) - 1) :
                  toProcess[i].name = "PrepareToSuspend" => toProcess[i].id # pendingRequestToSuspendID

\* A new request is the last message, and its identifier is new.
LEMMA SendPrepareToSuspendIPCQueues ==
    ASSUME ThrottlerTypeOK, ReplyInv, NEW imminent, NEW timer, NEW fg, NEW bg,
           SendPrepareToSuspendIPC(imminent, timer, fg, bg)
    PROVE  ReplyInv'
<1> DEFINE id == lastRequestID + 1
<1>1. CASE pendingRequestToSuspendID # 0
  <2>1. UNCHANGED <<pendingRequestToSuspendID, processVars>>
    BY <1>1 DEF SendPrepareToSuspendIPC
  <2> QED BY <2>1 DEF ReplyInv, processVars
<1>2. CASE pendingRequestToSuspendID = 0 /\ RepliesSynchronously
  BY <1>2 DEF SendPrepareToSuspendIPC, ReplyInv, ClearPendingRequestToSuspend
<1>3. CASE pendingRequestToSuspendID = 0 /\ ~RepliesSynchronously /\ processAlive
  <2>1. /\ toProcess' = Append(toProcess, PrepareToSuspend(id))
        /\ pendingRequestToSuspendID' = id /\ UNCHANGED outstandingReplies
    BY <1>3, Zenon DEF SendPrepareToSuspendIPC, SendPrepareToSuspend
  <2>2. toProcess \in Seq(Message) /\ PrepareToSuspend(id) \in Message
    BY DEF ThrottlerTypeOK, QueueOK, PrepareToSuspend, Message
  <2>3. /\ toProcess' # <<>> /\ Len(toProcess') = Len(toProcess) + 1
        /\ toProcess'[Len(toProcess')] = PrepareToSuspend(id)
        /\ \A i \in 1..Len(toProcess) : toProcess'[i] = toProcess[i]
    <3> DEFINE m == PrepareToSuspend(id)
    <3> HIDE DEF m
    <3> QED BY <2>1, <2>2 DEF m
  <2>4. id \notin outstandingReplies
    BY DEF ThrottlerTypeOK
  <2>5. \A i \in 1..Len(toProcess) :
            toProcess[i].name = "PrepareToSuspend" => toProcess[i].id # id
    BY DEF ThrottlerTypeOK, QueueOK
  <2>6. Len(toProcess') - 1 = Len(toProcess)
    BY <2>2, <2>3
  <2> QED BY <2>1, <2>3, <2>4, <2>5, <2>6 DEF ReplyInv
<1>4. CASE ~processAlive
  BY <1>4, Zenon DEF SendPrepareToSuspendIPC, ReplyInv, processVars
<1> QED BY <1>1, <1>2, <1>3, <1>4 DEF ThrottlerTypeOK

\* updateAssertionIfNeeded makes a request, leaves the pending one alone or
\* forgets it.
LEMMA UpdateAssertionIfNeededQueues ==
    ASSUME ThrottlerTypeOK, ReplyInv, NEW fg, NEW bg, UpdateAssertionIfNeeded(fg, bg)
    PROVE  ReplyInv'
<1>1. CASE UNCHANGED <<pendingRequestToSuspendID, processVars>>
  BY <1>1 DEF ReplyInv, processVars
<1>2. CASE pendingRequestToSuspendID' = 0
  BY <1>2 DEF ReplyInv
<1>3. CASE SendPrepareToSuspendIPC(FALSE, TRUE, fg, bg)
  BY <1>3, SendPrepareToSuspendIPCQueues, Zenon
<1>4. CASE WasAskedToSuspend /\ ClearPendingRequestToSuspend
  BY <1>2, <1>4 DEF ClearPendingRequestToSuspend
<1>5. CASE ~WasAskedToSuspend /\ UNCHANGED pendingRequestToSuspendID
  BY <1>2, <1>5 DEF WasAskedToSuspend
<1> QED BY <1>1, <1>3, <1>4, <1>5, Zenon DEF UpdateAssertionIfNeeded, throttlerVars

\* A queue without messages is the empty one.
LEMMA EmptyQueue ==
    ASSUME NEW t \in Seq(Message)
    PROVE  t = <<>> <=> Len(t) = 0
<1>1. ASSUME Len(t) = 0 PROVE t = <<>>
  BY <1>1
<1>2. Len(<<>>) = 0
  OBVIOUS
<1> QED BY <1>1, <1>2, Zenon

\* Taking the only message leaves none.
LEMMA TailIsEmpty ==
    ASSUME NEW q \in Seq(Message), q # <<>>
    PROVE  Tail(q) = <<>> <=> Len(q) = 1
<1> DEFINE t == Tail(q)
<1>1. t \in Seq(Message) /\ Len(t) = Len(q) - 1 /\ Len(q) \in Nat
  OBVIOUS
<1> HIDE DEF t
<1>2. t = <<>> <=> Len(t) = 0
  BY <1>1, EmptyQueue, Zenon
<1>3. t = <<>> <=> Len(q) = 1
  BY <1>1, <1>2
<1> QED BY <1>3 DEF t

\* The process takes the first message on its way: the pending request only
\* when it is also the last one.
LEMMA TakingAMessageKeepsReplies ==
    ASSUME TypeOK, ReplyInv, ProcessPrepareToSuspend \/ ProcessResume
    PROVE  ReplyInv'
<1>1. /\ toProcess # <<>> /\ toProcess' = Tail(toProcess)
      /\ processIsSuspended' = (Head(toProcess).name = "PrepareToSuspend")
      /\ outstandingReplies' = IF Head(toProcess).name = "PrepareToSuspend"
                               THEN outstandingReplies \cup {Head(toProcess).id}
                               ELSE outstandingReplies
      /\ UNCHANGED <<pendingRequestToSuspendID, processAlive>>
  BY Zenon DEF ProcessPrepareToSuspend, ProcessResume, throttlerVars
<1>2. /\ toProcess \in Seq(Message) /\ Len(toProcess) \in Nat \ {0} /\ Head(toProcess) = toProcess[1]
      /\ Tail(toProcess) \in Seq(Message) /\ Len(Tail(toProcess)) = Len(toProcess) - 1
      /\ \A i \in 1..Len(Tail(toProcess)) : Tail(toProcess)[i] = toProcess[i + 1]
  BY <1>1 DEF TypeOK
<1> SUFFICES ASSUME pendingRequestToSuspendID # 0, processAlive
             PROVE  ReplyInv'
  BY <1>1 DEF ReplyInv
<1>3. /\ toProcess[Len(toProcess)] = PrepareToSuspend(pendingRequestToSuspendID)
      /\ pendingRequestToSuspendID \notin outstandingReplies
      /\ \A i \in 1..(Len(toProcess) - 1) :
             toProcess[i].name = "PrepareToSuspend" => toProcess[i].id # pendingRequestToSuspendID
  BY <1>1 DEF ReplyInv
<1>4. CASE Len(toProcess) = 1
  <2>1. Tail(toProcess) = <<>>
    BY <1>1, <1>2, <1>4, TailIsEmpty
  <2>2. Head(toProcess).name = "PrepareToSuspend"
    BY <1>2, <1>3, <1>4 DEF PrepareToSuspend
  <2> QED BY <1>1, <2>1, <2>2, Zenon DEF ReplyInv
<1>5. CASE Len(toProcess) > 1
  <2>1. Len(Tail(toProcess)) \in Nat \ {0}
    BY <1>2, <1>5
  <2>2. toProcess' # <<>>
    BY <1>1, <1>2, <1>5, TailIsEmpty
  <2>3. toProcess'[Len(toProcess')] = PrepareToSuspend(pendingRequestToSuspendID)
    <3>1. Tail(toProcess)[Len(Tail(toProcess))] = toProcess[Len(Tail(toProcess)) + 1]
      BY <1>2, <2>1
    <3>2. Len(Tail(toProcess)) + 1 = Len(toProcess)
      BY <1>2
    <3> QED BY <1>1, <1>3, <3>1, <3>2, Zenon
  <2>4. pendingRequestToSuspendID \notin outstandingReplies'
    <3>1. 1 \in 1..(Len(toProcess) - 1)
      BY <1>2, <1>5
    <3> QED BY <1>1, <1>2, <1>3, <3>1
  <2>5. ASSUME NEW i \in 1..(Len(toProcess') - 1), toProcess'[i].name = "PrepareToSuspend"
        PROVE  toProcess'[i].id # pendingRequestToSuspendID
    <3>1. i \in 1..Len(Tail(toProcess)) /\ i + 1 \in 1..(Len(toProcess) - 1)
      BY <1>1, <1>2
    <3>2. toProcess'[i] = toProcess[i + 1]
      BY <1>1, <1>2, <3>1
    <3> QED BY <1>3, <2>5, <3>1, <3>2
  <2> QED BY <1>1, <2>2, <2>3, <2>4, <2>5 DEF ReplyInv
<1> QED BY <1>2, <1>4, <1>5

\* Every step preserves ReplyInv.
LEMMA ReplyInvStep == RequestInv /\ ReplyInv /\ [Next]_vars => ReplyInv'
<1> SUFFICES ASSUME RequestInv, ReplyInv, [Next]_vars PROVE ReplyInv'
  OBVIOUS
<1>1. ThrottlerTypeOK /\ TypeOK
  BY DEF RequestInv, TypeOK, ThrottlerTypeOK, QueueOK
<1>2. CASE \E a \in Activities : \/ AddForegroundActivity(a) \/ AddBackgroundActivity(a)
                                 \/ RemoveActivity(a) \/ InvalidateOneActivity(a)
  <2>1. \E fg, bg : UpdateAssertionIfNeeded(fg, bg)
    BY <1>2 DEF AddForegroundActivity, AddBackgroundActivity, RemoveActivity,
                InvalidateOneActivity, Invalidate
  <2> QED BY <1>1, <2>1, UpdateAssertionIfNeededQueues
<1>3. CASE \/ DidConnectToProcess \/ PrepareToSuspendTimeoutTimerFired \/ AssertionWasInvalidated
           \/ Destruct \/ HandlerReturns \/ AssertionDidInvalidate \/ UNCHANGED vars
  <2>1. UNCHANGED <<pendingRequestToSuspendID, processVars>>
    BY <1>3 DEF DidConnectToProcess, PrepareToSuspendTimeoutTimerFired, AssertionWasInvalidated,
       Destruct, HandlerReturns, AssertionDidInvalidate, throttlerVars, vars
  <2> QED BY <2>1 DEF ReplyInv, processVars
<1>4. ASSUME NEW id \in outstandingReplies, PrepareToSuspendReplied(id) PROVE ReplyInv'
  <2>1. /\ pendingRequestToSuspendID' = pendingRequestToSuspendID \/ pendingRequestToSuspendID' = 0
        /\ outstandingReplies' \subseteq outstandingReplies
        /\ UNCHANGED <<processAlive, toProcess, processIsSuspended>>
    BY <1>4 DEF PrepareToSuspendReplied, throttlerVars, ClearPendingRequestToSuspend
  <2> QED BY <2>1 DEF ReplyInv
<1>5. CASE UIAssertionWillExpireImminently
  BY <1>1, <1>5, SendPrepareToSuspendIPCQueues, Zenon DEF UIAssertionWillExpireImminently
<1>6. CASE ProcessPrepareToSuspend \/ ProcessResume
  BY <1>1, <1>6, TakingAMessageKeepsReplies
<1>7. CASE ProcessExits
  BY <1>7 DEF ProcessExits, ReplyInv
<1> QED BY <1>2, <1>3, <1>4, <1>5, <1>6, <1>7 DEF Next

\* A step that forgets the pending request and leaves the suspended assertion
\* is the use of a reply to that request.
LEMMA OnlyRepliesSuspend ==
    ASSUME RequestInv, [Next]_vars,
           pendingRequestToSuspendID # 0, pendingRequestToSuspendID' = 0,
           assertion'.type = "Suspended", assertion.type # "Suspended"
    PROVE  pendingRequestToSuspendID \in outstandingReplies
<1>1. ThrottlerTypeOK
  BY DEF RequestInv, TypeOK, ThrottlerTypeOK, QueueOK
<1>2. ASSUME NEW fg, NEW bg, UpdateAssertionIfNeeded(fg, bg) PROVE FALSE
  <2>1. CASE HasAssertion /\ fg \cup bg # {}
    <3>1. assertion' \in SetAssertionType(assertion, ExpectedAssertionType(fg, bg))
      BY <1>2, <2>1, Zenon DEF UpdateAssertionIfNeeded, HasAssertion
    <3>2. assertion'.type = ExpectedAssertionType(fg, bg)
      BY <1>1, <3>1, SetAssertionTypeResult, ExpectedAssertionTypeResult DEF ThrottlerTypeOK
    <3> QED BY <2>1, <3>2, ExpectedAssertionTypeResult
  <2>2. CASE UNCHANGED pendingRequestToSuspendID
    BY <2>2
  <2> QED BY <1>2, <2>1, <2>2 DEF UpdateAssertionIfNeeded, HasAssertion, throttlerVars,
             SendPrepareToSuspendIPC
<1>3. CASE \E a \in Activities : \/ AddForegroundActivity(a) \/ AddBackgroundActivity(a)
                                 \/ RemoveActivity(a) \/ InvalidateOneActivity(a)
  BY <1>2, <1>3 DEF AddForegroundActivity, AddBackgroundActivity, RemoveActivity,
                    InvalidateOneActivity, Invalidate
<1>4. CASE \E id \in outstandingReplies : PrepareToSuspendReplied(id)
  BY <1>4 DEF PrepareToSuspendReplied, IsCurrentRequest, throttlerVars
<1>5. UIAssertionWillExpireImminently => UNCHANGED pendingRequestToSuspendID
  BY DEF UIAssertionWillExpireImminently, SendPrepareToSuspendIPC
<1>6. ASSUME \/ DidConnectToProcess \/ PrepareToSuspendTimeoutTimerFired \/ AssertionWasInvalidated
             \/ Destruct \/ HandlerReturns \/ AssertionDidInvalidate \/ ProcessPrepareToSuspend
             \/ ProcessResume \/ ProcessExits \/ UNCHANGED vars
      PROVE  UNCHANGED pendingRequestToSuspendID
  BY <1>6 DEF DidConnectToProcess, PrepareToSuspendTimeoutTimerFired, AssertionWasInvalidated,
     Destruct, HandlerReturns, AssertionDidInvalidate, ProcessPrepareToSuspend, ProcessResume,
     ProcessExits, throttlerVars, vars
<1> QED BY <1>3, <1>4, <1>5, <1>6 DEF Next

\* For any activities and any number of requests, replies that are late, lost
\* or overtaken by a resume: processReadyToSuspend takes the suspended assertion
\* only for a process that is prepared and has nothing queued.
THEOREM RepliesSuspendOnlyPreparedProcesses == Spec => ReplySuspendsOnlyPreparedProcess
<1> DEFINE Step ==
        /\ pendingRequestToSuspendID # 0 /\ pendingRequestToSuspendID' = 0
        /\ assertion'.type = "Suspended" /\ assertion.type # "Suspended"
        /\ processAlive
        => processIsSuspended /\ toProcess = <<>>
<1>1. Init => RequestInv /\ ReplyInv
  BY InitRequestInv DEF Init, ReplyInv
<1>2. RequestInv /\ ReplyInv /\ [Next]_vars => Step
  BY OnlyRepliesSuspend DEF ReplyInv
<1>3. RequestInv /\ ReplyInv /\ [Next]_vars => [Step]_vars
  BY <1>2
<1> QED BY <1>1, <1>3, RequestInvStep, ReplyInvStep, PTL DEF Spec, ReplySuspendsOnlyPreparedProcess
=============================================================================
