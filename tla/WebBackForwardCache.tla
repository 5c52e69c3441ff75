------------------------ MODULE WebBackForwardCache -------------------------
(***************************************************************************)
(* The back/forward cache of the UI process (UIProcess/                    *)
(* WebBackForwardCache.cpp and WebBackForwardCacheEntry.cpp), the pages    *)
(* suspended in it (UIProcess/SuspendedPageProxy.cpp) and the navigations  *)
(* of one WebPageProxy that put pages there, wait for them and take them   *)
(* out, against the web processes that suspend, resume and close them.     *)
(*                                                                         *)
(* The UI process does all this on its main thread, and much of it inside  *)
(* destructors: an entry destroys its suspended page, which may be the     *)
(* last thing that kept a process running, whose shutdown removes further  *)
(* entries.  So the objects of the UI process are one record, `ui', and    *)
(* each method is an operator from such a record to the next; an action    *)
(* is a call, message or timer the run loop delivers.                      *)
(***************************************************************************)
EXTENDS Naturals, Sequences, FiniteSets, SequencesExt

CONSTANTS
    Items,           \* the items of the page's back/forward list
    MaxCapacity,     \* the cache's capacities are 0..MaxCapacity
    MaxNavigations,  \* bound: navigations started
    MaxDisruptions   \* bound: crashes, removals from the cache and reports of web processes

ASSUME CacheAssumption ==
    /\ IsFiniteSet(Items) /\ Items # {}
    /\ MaxCapacity \in Nat \ {0}
    /\ MaxNavigations \in Nat \ {0}
    /\ MaxDisruptions \in Nat

VARIABLES
    ui,       \* the objects of the UI process
    web,      \* what each WebPage is in its web process
    replies   \* messages of each WebPage on their way to the UI process

vars == <<ui, web, replies>>

Navigations == 1..MaxNavigations
Pages     == 1..(MaxNavigations + 1)   \* WebPage identifiers, in the order they are generated
Processes == 1..(MaxNavigations + 1)   \* process identifiers, likewise
NoItem == "none"

\* A WebBackForwardCacheEntry: its process, and its suspended page or 0 for a
\* page that its own process has cached.
NoEntry == [process |-> 0, page |-> 0]

\* A SuspendedPageProxy, by the identifier of its WebPage.
NoPage == [state |-> "None", isClosed |-> FALSE, delaysClosing |-> FALSE, closesOnFlush |-> FALSE,
           timer |-> FALSE, handler |-> 0]
NewPage(delays) == [NoPage EXCEPT !.state = "Suspending", !.delaysClosing = delays, !.timer = TRUE]

\* A navigation and where it is: its policy decision waits for a suspended
\* page, has an answer posted to the run loop, went on as the provisional page,
\* or is over.  It is alive while WebNavigationState knows it.
NoNavigation == [state |-> "Unused", alive |-> FALSE, target |-> NoItem, from |-> NoItem, source |-> 0]
Over == [NoNavigation EXCEPT !.state = "Over"]

UIStates ==
    [capacity : 0..MaxCapacity, items : Seq(Items), entry : [Items -> [process : Nat, page : Nat]],
     page : [Pages -> [state : STRING, isClosed : BOOLEAN, delaysClosing : BOOLEAN,
                       closesOnFlush : BOOLEAN, timer : BOOLEAN, handler : Nat]],
     kept : Nat,          \* m_suspendedPageKeptToPreventFlashing
     last : Nat,          \* m_lastSuspendedPage
     current : Nat,       \* m_webPageID, 0 without a running process
     item : Items,        \* the current item of the list
     provisional : Nat,   \* m_provisionalPage
     navigation : Nat,    \* its navigation
     isClosed : BOOLEAN,  \* m_isClosed
     navigations : [Navigations -> [state : STRING, alive : BOOLEAN, target : Items \cup {NoItem},
                                    from : Items \cup {NoItem}, source : Nat]],
     processOf : [Pages -> Nat],
     process : [Processes -> STRING],
     toPage : [Pages -> Seq(STRING)],   \* messages on their way to the WebPages
     protected : Nat,                   \* the process with a shutdownPreventingScope
     delaysClosing : BOOLEAN,           \* pages are closed after the first layer flush (macOS)
     cachesProcesses : BOOLEAN,         \* the WebProcessCache takes idle processes
     failure : STRING, disruptions : Nat]

-----------------------------------------------------------------------------
(* Processes *)

Exists(u, p) == u.page[p].state # "None"

\* What canTerminateAuxiliaryProcess looks for.
InUse(u, P) ==
    \/ P = u.protected
    \/ \E p \in Pages : u.processOf[p] = P /\ (Exists(u, p) \/ p \in {u.current, u.provisional})

IsWaiting(u, n) == u.navigations[n].state \in {"Waiting", "Posted"}

\* The WebProcessProxy is in the map of all processes: the pool refers to it,
\* or a page, a suspended page or the continuation of a navigation does.
IsRegistered(u, P) ==
    \/ u.process[P] \in {"Running", "Cached", "Terminated"}
    \/ InUse(u, P)
    \/ \E n \in Navigations : IsWaiting(u, n) /\ u.processOf[u.navigations[n].source] = P

Send(u, p, message) ==
    IF u.process[u.processOf[p]] \in {"Running", "Cached"}
    THEN [u EXCEPT !.toPage[p] = Append(@, message)] ELSE u

-----------------------------------------------------------------------------
(* SuspendedPageProxy and the cache *)

Close(u, p) ==
    IF u.page[p].isClosed THEN u ELSE Send([u EXCEPT !.page[p].isClosed = TRUE], p, "Close")

\* Faulty: the page is not closed.
CloseSuspendedPageSilently(u, p) ==
    LET v == IF u.page[p].handler = 0 THEN u
             ELSE [u EXCEPT !.navigations[u.page[p].handler].state = "Posted"]
    IN  [v EXCEPT !.page[p] = NoPage, !.last = IF @ = p THEN 0 ELSE @]

\* Faulty: the handler is dropped.
CloseSuspendedPageUnanswered(u, p) ==
    [Close(u, p) EXCEPT !.page[p] = NoPage, !.last = IF @ = p THEN 0 ELSE @]

\* ~SuspendedPageProxy up to decrementSuspendedPageCount: a handler that still
\* waits is posted to the run loop with nothing to resume.
CloseSuspendedPage(u, p) ==
    LET v == Close(IF u.page[p].handler = 0 THEN u
                   ELSE [u EXCEPT !.navigations[u.page[p].handler].state = "Posted"], p)
    IN  [v EXCEPT !.page[p] = NoPage, !.last = IF @ = p THEN 0 ELSE @]

\* setBackForwardCacheEntry(nullptr) up to the same point; an entry without a
\* suspended page sends ClearCachedPage to its process, which it looks up.
ForgetEntry(u, i) ==
    LET v == [u EXCEPT !.entry[i] = NoEntry]
    IN  IF u.entry[i].page # 0 THEN CloseSuspendedPage(v, u.entry[i].page)
        ELSE IF u.entry[i] = NoEntry \/ IsRegistered(v, u.entry[i].process) THEN v
        ELSE [v EXCEPT !.failure = "process() of an entry found none"]

Without(items, i) == SelectSeq(items, LAMBDA j : j # i)

\* Faulty: the entries of the process stay.
ShutDownKeepingEntries(u, P) ==
    [u EXCEPT !.process[P] = "ShutDown",
              !.toPage = [p \in Pages |-> IF u.processOf[p] = P THEN <<>> ELSE @[p]]]

\* WebProcessProxy::shutDown with WebProcessPool::disconnectProcess and in it
\* removeEntriesForProcess.
ShutDown(u, P) ==
    LET Matches(i) == u.entry[i].process = P
        v == FoldLeft(ForgetEntry,
                      [u EXCEPT !.process[P] = "Terminated",
                                !.items = SelectSeq(@, LAMBDA i : ~Matches(i))],
                      SelectSeq(u.items, Matches))
    IN  [v EXCEPT !.process[P] = "ShutDown",
                  !.toPage = [p \in Pages |-> IF u.processOf[p] = P THEN <<>> ELSE @[p]]]

MaybeShutDown(u, P) ==
    IF u.process[P] # "Running" \/ InUse(u, P) THEN u
    ELSE IF u.cachesProcesses THEN [u EXCEPT !.process[P] = "Cached"]
    ELSE ShutDown(u, P)

DestroySuspendedPage(u, p) == MaybeShutDown(CloseSuspendedPage(u, p), u.processOf[p])

DestroyEntry(u, i) ==
    IF u.entry[i].page = 0 THEN ForgetEntry(u, i)
    ELSE MaybeShutDown(ForgetEntry(u, i), u.entry[i].process)

\* The items leave the list all at once, then their entries go one by one.
RemoveEntriesMatching(u, matching) ==
    FoldLeft(DestroyEntry, [u EXCEPT !.items = SelectSeq(@, LAMBDA i : i \notin matching)],
             SelectSeq(u.items, LAMBDA i : i \in matching))

RemoveEntry(u, i) == DestroyEntry([u EXCEPT !.items = Without(@, i)], i)

RemoveOldestEntry(u) == RemoveEntry(u, Head(u.items))

\* Each turn of the loop removes at least one of the entries there were.
PruneToSize(u, size) ==
    FoldLeft(LAMBDA v, i : IF Len(v.items) > size THEN RemoveOldestEntry(v) ELSE v, u, u.items)

\* Faulty: an item that has an entry is listed again.
AddEntryTwice(u, i, entry) ==
    LET v == [DestroyEntry(u, i) EXCEPT !.entry[i] = entry, !.items = Append(@, i)]
    IN  IF Len(v.items) > v.capacity THEN RemoveOldestEntry(v) ELSE v

AddEntry(u, i, entry) ==
    LET v == [DestroyEntry([u EXCEPT !.items = Without(@, i)], i)
                  EXCEPT !.entry[i] = entry, !.items = Append(@, i)]
    IN  IF Len(v.items) > v.capacity THEN RemoveOldestEntry(v) ELSE v

\* Every process the WebProcessCache holds is shut down.
ClearProcessCache(u) ==
    FoldLeft(LAMBDA v, P : IF v.process[P] = "Cached" THEN ShutDown(v, P) ELSE v, u,
             [P \in Processes |-> P])

-----------------------------------------------------------------------------
(* Navigations *)

\* What createNewProcess may return, and the state it leaves: a cached process,
\* the process of any suspended page (both chosen by registrable domain), or a
\* process that is launched.
NewProcesses(u) ==
    { <<[u EXCEPT !.process[P] = "Running"], P>> :
        P \in { Q \in Processes : \/ u.process[Q] = "Cached"
                                 \/ /\ u.process[Q] = "Unused"
                                    /\ \A R \in 1..(Q - 1) : u.process[R] # "Unused" } }
    \cup { <<u, u.processOf[p]>> : p \in { q \in Pages : Exists(u, q) } }

IsClosedOrClosing(u, p) == u.page[p].isClosed \/ u.page[p].closesOnFlush

\* The provisional page is destroyed before it was committed.
DropProvisionalPage(u) ==
    LET p == u.provisional
    IN  IF p = 0 THEN u
        ELSE MaybeShutDown(Send([u EXCEPT !.provisional = 0, !.navigation = 0,
                                          !.navigations[u.navigation] = Over], p, "Close"),
                           u.processOf[p])

\* continueNavigationInNewProcess with a new WebPage of process P.
StartProvisionalPage(u, n, P) ==
    LET p == CHOOSE q \in Pages : u.processOf[q] = 0 /\ \A r \in 1..(q - 1) : u.processOf[r] # 0
    IN  [u EXCEPT !.processOf[p] = P, !.provisional = p, !.navigation = n,
                  !.navigations[n].state = "Provisional"]

\* ... and with the WebPage of a suspended page, which ends as Resumed.
ResumeSuspendedPage(u, n, p) ==
    LET v == Send([u EXCEPT !.page[p] = NoPage, !.last = IF @ = p THEN 0 ELSE @,
                            !.provisional = p, !.navigation = n,
                            !.navigations[n].state = "Provisional"], p, "Resume")
    IN  IF u.page[p].state = "Suspended" THEN v ELSE [v EXCEPT !.failure = "unsuspend() of a page that is not suspended"]

TakeSuspendedPage(u, i) == [u EXCEPT !.items = Without(@, i), !.entry[i] = NoEntry]

\* Faulty: the page's entries in the process stay.
SwapProcessKeepingEntries(u, n, P, p) ==
    LET taken == IF p = 0 THEN u ELSE TakeSuspendedPage(u, u.navigations[n].target)
        usable == p # 0 /\ ~IsClosedOrClosing(taken, p)
        dropped == DropProvisionalPage(IF p # 0 /\ ~usable THEN DestroySuspendedPage(taken, p) ELSE taken)
    IN  IF usable THEN ResumeSuspendedPage(dropped, n, p) ELSE StartProvisionalPage(dropped, n, P)

\* The swap to process P, where the suspended page p is the destination, or
\* none is (0).
SwapProcess(u, n, P, p) ==
    LET taken == IF p = 0 THEN RemoveEntriesMatching(u, {i \in Items : u.entry[i].process = P})
                 ELSE TakeSuspendedPage(u, u.navigations[n].target)
        usable == p # 0 /\ ~IsClosedOrClosing(taken, p)
        dropped == DropProvisionalPage(IF p # 0 /\ ~usable THEN DestroySuspendedPage(taken, p) ELSE taken)
    IN  IF usable THEN ResumeSuspendedPage(dropped, n, p) ELSE StartProvisionalPage(dropped, n, P)

\* The completion handler of processForNavigation.
ContinueNavigation(u, n, P, p) ==
    IF u.isClosed \/ ~u.navigations[n].alive \/ P = u.processOf[u.navigations[n].source]
    THEN [u EXCEPT !.navigations[n] = Over]
    ELSE [SwapProcess([u EXCEPT !.protected = P], n, P, p) EXCEPT !.protected = 0]

DestroyedWhileWaiting == "the page was destroyed in its waitUntilReadyToUnsuspend()"

\* waitUntilReadyToUnsuspend of page p: a handler that waits there already is
\* called with nothing first, and may destroy the page.
WaitUntilReadyToUnsuspend(u, n, p) ==
    LET Wait(v) == IF u.page[p].state = "Suspending"
                   THEN [v EXCEPT !.page[p].handler = n, !.navigations[n].state = "Waiting"]
                   ELSE ContinueNavigation(v, n, v.processOf[p], p)
    IN  IF u.page[p].handler = 0 THEN {Wait(u)}
        ELSE { LET v == ContinueNavigation(new[1], u.page[p].handler, new[2], 0)
               IN  IF Exists(v, p) THEN Wait(v)
                   ELSE [v EXCEPT !.failure = DestroyedWhileWaiting]
               : new \in NewProcesses([u EXCEPT !.page[p].handler = 0]) }

-----------------------------------------------------------------------------
(* The actions of the UI process *)

Failed == ui.failure # "none"

\* A step of the UI process: the WebPages of a process that is gone are gone,
\* and their answers with them.
UIStepWith(next, answers) ==
    LET IsGone(p) == next.processOf[p] # 0 /\ next.process[next.processOf[p]] = "ShutDown"
    IN  /\ ui' = next
        /\ web' = [p \in Pages |-> IF IsGone(p) THEN "closed" ELSE web[p]]
        /\ replies' = [p \in Pages |-> IF IsGone(p) THEN <<>> ELSE answers[p]]

UIStep(next) == UIStepWith(next, replies)

Disrupted(u) == [u EXCEPT !.disruptions = @ + 1]

Init ==
    \E delays, caches \in BOOLEAN :
        /\ ui = [capacity |-> MaxCapacity, items |-> <<>>, entry |-> [j \in Items |-> NoEntry],
                 page |-> [p \in Pages |-> NoPage], kept |-> 0, last |-> 0, current |-> 1, item |-> CHOOSE i \in Items : TRUE,
                 provisional |-> 0, navigation |-> 0, isClosed |-> FALSE,
                 navigations |-> [n \in Navigations |-> NoNavigation],
                 processOf |-> [p \in Pages |-> IF p = 1 THEN 1 ELSE 0],
                 process |-> [P \in Processes |-> IF P = 1 THEN "Running" ELSE "Unused"],
                 toPage |-> [p \in Pages |-> <<>>], protected |-> 0,
                 delaysClosing |-> delays, cachesProcesses |-> caches,
                 failure |-> "none", disruptions |-> 0]
        /\ web = [p \in Pages |-> "open"]
        /\ replies = [p \in Pages |-> <<>>]

\* processForNavigationInternal: what decides between the source process, the
\* process of the target item and a new one is data, except that the target
\* item's suspended page is waited for.
ProcessForNavigation(u, n) ==
    LET target == u.navigations[n].target
        page == IF target = NoItem THEN 0 ELSE u.entry[target].page
    IN  {ContinueNavigation(u, n, u.processOf[u.navigations[n].source], 0)}
        \cup { ContinueNavigation(new[1], n, new[2], 0) : new \in NewProcesses(u) }
        \cup (IF target = NoItem THEN {}
              ELSE IF page # 0 THEN WaitUntilReadyToUnsuspend(u, n, page)
              ELSE { ContinueNavigation([u EXCEPT !.process[P] = "Running"], n, P, 0) :
                       P \in { Q \in Processes : u.process[Q] \in {"Running", "Cached"} } })

\* The loader of a new navigation takes the place of the WebPage's last one,
\* so DidDestroyNavigation for that one comes before the new one's decision.
StartNavigation(n, target) ==
    /\ ~Failed /\ ~ui.isClosed /\ ui.current # 0
    /\ ui.navigations[n].state = "Unused"
    /\ \A m \in 1..(n - 1) : ui.navigations[m].state # "Unused"
    /\ target # ui.item
    /\ \E next \in ProcessForNavigation(
                      [ui EXCEPT !.navigations =
                          [m \in Navigations |->
                              IF m = n
                              THEN [state |-> "Deciding", alive |-> TRUE, target |-> target,
                                    from |-> ui.item, source |-> ui.current]
                              ELSE [@[m] EXCEPT !.alive = @ /\ (m = ui.navigation \/
                                                                ui.navigations[m].source # ui.current)]]],
                      n) : UIStep(next)

\* The run loop calls the handler of a suspended page that was destroyed.
CallPostedHandler(n) ==
    /\ ~Failed /\ ui.navigations[n].state = "Posted"
    /\ \E new \in NewProcesses(ui) : UIStep(ContinueNavigation(new[1], n, new[2], 0))

\* didDestroyNavigation, a message of a web process.
DidDestroyNavigation(n) ==
    /\ ~Failed /\ ui.navigations[n].alive /\ ui.navigation # n
    /\ UIStep([ui EXCEPT !.navigations[n].alive = FALSE])

DestroyKeptPage(u) ==
    IF u.kept = 0 THEN u ELSE DestroySuspendedPage([u EXCEPT !.kept = 0], u.kept)

\* suspendCurrentPageIfPossible, where it is possible.
SuspendCurrentPage(u, from) ==
    LET p == u.current
        v == Send([u EXCEPT !.page[p] = NewPage(u.delaysClosing), !.last = p], p, "Suspend")
    IN  IF u.capacity > 0 THEN AddEntry(v, from, [process |-> u.processOf[p], page |-> p])
        ELSE [v EXCEPT !.kept = p]

CanSuspendCurrentPage(u, n, item) ==
    /\ u.current # 0 /\ u.navigations[n].alive /\ u.navigations[n].from # item
    /\ u.capacity > 0 \/ u.delaysClosing

\* The old WebPage leaves its process, then is closed unless it was suspended.
LeaveOldProcess(u, suspended) ==
    LET p == u.current
        v == MaybeShutDown([u EXCEPT !.current = 0], u.processOf[p])
    IN  IF p = 0 THEN u ELSE IF suspended THEN v ELSE Send(v, p, "Close")

\* commitProvisionalPage.  By then the page's list went to the target item, or
\* to a new item, whose identity may be that of an item it has dropped.
CommitProvisionalPage(item, suspends) ==
    LET n == ui.navigation
        atItem == IF item # ui.navigations[n].target /\ ui.entry[item] # NoEntry
                  THEN RemoveEntry(ui, item) ELSE ui
        reset == [DestroyKeptPage(atItem) EXCEPT !.last = 0]
        left == LeaveOldProcess(IF suspends THEN SuspendCurrentPage(reset, reset.navigations[n].from)
                                ELSE reset, suspends)
    IN  /\ ~Failed /\ ui.provisional # 0
        /\ ui.process[ui.processOf[ui.provisional]] = "Running"
        /\ ui.navigations[n].target \in {item, NoItem}
        /\ suspends => CanSuspendCurrentPage(ui, n, item)
        /\ UIStep([left EXCEPT !.current = ui.provisional, !.provisional = 0, !.navigation = 0,
                               !.item = item, !.navigations[n] = Over])

\* The current page goes to another item in its own process.
GoToItem(item) ==
    /\ ~Failed /\ ~ui.isClosed /\ ui.current # 0 /\ ui.disruptions < MaxDisruptions
    /\ item # ui.item
    /\ UIStep(Disrupted([ui EXCEPT !.item = item]))

DidFirstLayerFlush ==
    LET p == ui.last
        flushed == IF p = 0 THEN ui
                   ELSE IF ui.page[p].closesOnFlush
                   THEN Close([ui EXCEPT !.page[p].delaysClosing = FALSE], p)
                   ELSE [ui EXCEPT !.page[p].delaysClosing = FALSE]
    IN  /\ ~Failed /\ ~ui.isClosed /\ ui.current # 0 /\ ui.delaysClosing
        /\ UIStep(DestroyKeptPage(flushed))

CloseWithoutFlashing(u, p) ==
    IF u.page[p].delaysClosing THEN [u EXCEPT !.page[p].closesOnFlush = TRUE] ELSE Close(u, p)

\* didProcessRequestToSuspend.
DidProcessRequestToSuspend(u, p, state) ==
    LET v == [u EXCEPT !.page[p].state = state, !.page[p].timer = FALSE, !.page[p].handler = 0]
        w == IF state = "FailedToSuspend" THEN CloseWithoutFlashing(v, p) ELSE v
        n == u.page[p].handler
    IN  IF n = 0 THEN w ELSE ContinueNavigation(w, n, w.processOf[p], p)

\* The answer of a WebPage reaches whatever receives the messages of that page.
ReceiveReply(p) ==
    /\ ~Failed /\ replies[p] # <<>>
    /\ UIStepWith(IF ui.page[p].state = "Suspending"
                  THEN DidProcessRequestToSuspend(ui, p, Head(replies[p]))
                  ELSE IF p \in {ui.provisional, IF ui.isClosed THEN 0 ELSE ui.current}
                  THEN [ui EXCEPT !.failure = "a page that is not suspended got the answer"]
                  ELSE ui,
                  [replies EXCEPT ![p] = Tail(@)])

\* A page kept to prevent flashing is not in the cache, so its timeout finds
\* nothing to remove.
SuspensionTimedOut(p) ==
    /\ ~Failed /\ ui.page[p].timer
    /\ UIStep(RemoveEntriesMatching([ui EXCEPT !.page[p].timer = FALSE],
                                    {i \in Items : ui.entry[i].page = p}))

\* The entry expires, or its item is removed from the list.
RemoveFromBackForwardCache(i) ==
    /\ ~Failed /\ ui.entry[i] # NoEntry /\ ui.disruptions < MaxDisruptions
    /\ UIStep(Disrupted(RemoveEntry(ui, i)))

SetCapacity(capacity) ==
    /\ ~Failed /\ capacity # ui.capacity /\ ui.disruptions < MaxDisruptions
    /\ UIStep(Disrupted(PruneToSize([ui EXCEPT !.capacity = capacity], capacity)))

HandleMemoryPressureWarning ==
    /\ ~Failed /\ ui.disruptions < MaxDisruptions
    /\ UIStep(Disrupted(ClearProcessCache(RemoveEntriesMatching(ui, Items))))

ApplicationIsAboutToSuspend ==
    /\ ~Failed /\ ui.disruptions < MaxDisruptions
    /\ UIStep(Disrupted(ClearProcessCache(PruneToSize(ui, 1))))

\* updateBackForwardItem, a message of process P about item i.
UpdateBackForwardItem(P, i, hasCachedPage) ==
    /\ ~Failed /\ ~ui.isClosed /\ ui.disruptions < MaxDisruptions
    /\ ui.process[P] \in {"Running", "Cached"}
    /\ \/ \E p \in {ui.current, ui.provisional} \ {0} : ui.processOf[p] = P
       \/ ui.entry[i].page # 0 /\ ui.entry[i].process = P
    /\ IF hasCachedPage THEN ui.entry[i] = NoEntry ELSE ui.entry[i] # NoEntry /\ ui.entry[i].page = 0
    /\ UIStep(Disrupted(IF hasCachedPage THEN AddEntry(ui, i, [process |-> P, page |-> 0])
                        ELSE RemoveEntry(ui, i)))

\* WebPageProxy::close; the Close message of its WebPage is posted to the run
\* loop, and until it is sent the process may not be shut down.
ClosePage ==
    /\ ~Failed /\ ~ui.isClosed
    /\ LET dropped == DropProvisionalPage([ui EXCEPT !.isClosed = TRUE])
           emptied == FoldLeft(LAMBDA v, i : IF v.entry[i] = NoEntry THEN v ELSE RemoveEntry(v, i),
                               dropped, dropped.items)
       IN  UIStep([DestroyKeptPage(emptied) EXCEPT !.last = 0])

SendPostedClose ==
    /\ ~Failed /\ ui.isClosed /\ ui.current # 0
    /\ UIStep(MaybeShutDown([Send(ui, ui.current, "Close") EXCEPT !.current = 0],
                            ui.processOf[ui.current]))

\* The WebProcessCache drops a process.
EvictCachedProcess(P) ==
    /\ ~Failed /\ ui.process[P] = "Cached" /\ ui.disruptions < MaxDisruptions
    /\ UIStep(Disrupted(ShutDown(ui, P)))

\* processDidTerminateOrFailedToLaunch.
ProcessCrashes(P) ==
    LET down == ShutDown(ui, P)
        IsIn(p) == p # 0 /\ ui.processOf[p] = P
        reset == IF ~IsIn(ui.current) THEN down
                 ELSE [DestroyKeptPage(down)
                         EXCEPT !.last = 0, !.current = 0,
                                !.navigations = [n \in Navigations |-> [@[n] EXCEPT !.alive = FALSE]]]
    IN  /\ ~Failed /\ ui.process[P] \in {"Running", "Cached"} /\ ui.disruptions < MaxDisruptions
        /\ UIStep(Disrupted(IF IsIn(reset.provisional) THEN DropProvisionalPage(reset) ELSE reset))

-----------------------------------------------------------------------------
(* The web processes *)

\* WebPage::setIsSuspended and close.
HandleMessage(p) ==
    /\ ui.toPage[p] # <<>>
    /\ ui' = [ui EXCEPT !.toPage[p] = Tail(@)]
    /\ \/ /\ Head(ui.toPage[p]) = "Suspend" /\ web[p] = "open"
          /\ web' = [web EXCEPT ![p] = "suspended"]
          /\ \E answer \in {"Suspended", "FailedToSuspend"} :
                 replies' = [replies EXCEPT ![p] = Append(@, answer)]
       \/ /\ Head(ui.toPage[p]) = "Resume" /\ web[p] = "suspended"
          /\ web' = [web EXCEPT ![p] = "open"] /\ UNCHANGED replies
       \/ /\ Head(ui.toPage[p]) = "Close"
          /\ web' = [web EXCEPT ![p] = "closed"] /\ UNCHANGED replies

-----------------------------------------------------------------------------
Next ==
    \/ \E n \in Navigations :
         \/ \E target \in Items \cup {NoItem} : StartNavigation(n, target)
         \/ CallPostedHandler(n) \/ DidDestroyNavigation(n)
    \/ \E i \in Items : \E suspends \in BOOLEAN : CommitProvisionalPage(i, suspends)
    \/ \E i \in Items : GoToItem(i) \/ RemoveFromBackForwardCache(i)
    \/ \E p \in Pages : ReceiveReply(p) \/ SuspensionTimedOut(p) \/ HandleMessage(p)
    \/ \E capacity \in 0..MaxCapacity : SetCapacity(capacity)
    \/ \E P \in Processes, i \in Items, hasCachedPage \in BOOLEAN :
         UpdateBackForwardItem(P, i, hasCachedPage)
    \/ \E P \in Processes : EvictCachedProcess(P) \/ ProcessCrashes(P)
    \/ DidFirstLayerFlush \/ HandleMemoryPressureWarning \/ ApplicationIsAboutToSuspend
    \/ ClosePage \/ SendPostedClose

Spec == Init /\ [][Next]_vars

-----------------------------------------------------------------------------
\* Every variable stays in its type: the operators above map every state of
\* the UI process's objects to such a state.
TypeOK ==
    /\ ui \in UIStates
    /\ web \in [Pages -> {"open", "suspended", "closed"}]
    /\ replies \in [Pages -> Seq({"Suspended", "FailedToSuspend"})]

\* Whatever order calls, messages, timers and nested destructors come in: an
\* entry that is destroyed finds its process (WebBackForwardCacheEntry.cpp:68),
\* a page is resumed only when it is suspended (SuspendedPageProxy.cpp:168), and
\* the answer to a request to suspend reaches nothing but a suspended page
\* (WebPageProxy.cpp:3418, 3427).  The behaviours in which a handler destroys
\* the page that calls it stop there and are not covered.
AssertionsHold == ui.failure \in {"none", DestroyedWhileWaiting}

\* Between two turns of the run loop m_itemsWithCachedPage lists exactly the
\* items that have an entry, each once, and no more than the capacity, although
\* removing one entry may shut down a process and so remove others on the way.
ListMatchesEntries ==
    /\ ToSet(ui.items) = { i \in Items : ui.entry[i] # NoEntry }
    /\ Cardinality(ToSet(ui.items)) = Len(ui.items)
    /\ Len(ui.items) <= ui.capacity

\* The WebPages of the page in process P, but for one kept to prevent flashing.
PagesOf(P) ==
    { p \in Pages : /\ ui.processOf[p] = P
                    /\ \/ p \in {ui.current, ui.provisional}
                       \/ Exists(ui, p) /\ p # ui.kept }

\* "The WebPage we are about to create in the destination process will be the
\* only one associated with this WebPageProxy" (WebPageProxy.cpp:3244): the
\* committed, the provisional and the cached pages all live in different
\* processes, whichever process a navigation is given.
OneWebPagePerProcess ==
    \A P \in Processes : Cardinality(PagesOf(P)) <= 1

\* What the messages on their way will make of the WebPage.
EndsUpAs(p) ==
    FoldLeft(LAMBDA state, message :
                 IF state = "closed" \/ message = "Close" THEN "closed"
                 ELSE IF message = "Suspend" THEN "suspended" ELSE "open", web[p], ui.toPage[p])

HeldAs(p) ==
    IF p \in {ui.current, ui.provisional} THEN "open"
    ELSE IF Exists(ui, p) /\ ~ui.page[p].isClosed THEN "suspended" ELSE "closed"

\* The two sides agree in the end: once a live process has handled its messages,
\* the WebPages the UI process holds as committed or provisional are open there,
\* those it holds as suspended are suspended, and every other one is closed, so
\* that no WebPage is leaked, left frozen or closed while it is shown.
PagesEndUpAsHeld ==
    \A p \in Pages :
        ui.processOf[p] # 0 /\ ui.process[ui.processOf[p]] \in {"Running", "Cached"}
            => EndsUpAs(p) = HeldAs(p)

\* A navigation never waits for nothing (WebProcessPool.cpp:1857): the page it
\* waits for exists, has it as its handler, and its timeout is running and will
\* find the page in the cache; else its answer is in the run loop.  So the
\* navigation goes on even when the web process never answers.
WaitingNavigationsHaveATimeout ==
    \A n \in Navigations : ui.navigations[n].state = "Waiting" =>
        \E p \in Pages : /\ ui.page[p].handler = n /\ ui.page[p].timer
                         /\ \E i \in ToSet(ui.items) : ui.entry[i].page = p

=============================================================================
