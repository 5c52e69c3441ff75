--------------------------- MODULE WebProcessCache ---------------------------
(***************************************************************************)
(* UIProcess/WebProcessCache with the parts of WebProcessProxy, of         *)
(* WebPageProxy and of WebProcessPool that put web processes into the      *)
(* cache and take them out of it.                                          *)
(*                                                                         *)
(* A web process is used by the pages in it, by provisional pages (a       *)
(* navigation that has not committed), by suspended pages (the             *)
(* back/forward cache), by service workers and by scopes that prevent its  *)
(* shutdown.  Whenever one of these goes, WebProcessProxy::maybeShutDown   *)
(* caches the process or shuts it down.  Caching starts with a check that  *)
(* the process is responsive, whose answer comes later: until then the     *)
(* process is in m_pendingAddRequests.  All of this is on the main thread  *)
(* of the UI process; what interleaves is its handlers.                    *)
(*                                                                         *)
(* A process that has been shut down does not come back, so Processes      *)
(* bounds how many are ever made.  A request to add p to the cache is a    *)
(* pair <<p, n>>: the n-th made for p.                                     *)
(***************************************************************************)
EXTENDS Naturals, FiniteSets

CONSTANTS
    Processes,       \* WebProcessProxy objects
    Pages,           \* WebPageProxy objects
    Domains,         \* registrable domains
    DataStores,      \* website data stores, one per session
    Ephemeral,       \* those of ephemeral sessions
    DataStoreOf,     \* the data store of each page
    Capacity,        \* m_capacity when the cache is enabled
    MaxRequests,     \* bound on the requests made for one process
    None,            \* no process, no data store, no domain
    Dummy,           \* the dummy process, of pages that have loaded nothing yet
    SeveralDomains   \* the empty m_registrableDomain of a process used for several

ASSUME CacheAssumption ==
    /\ Ephemeral \subseteq DataStores
    /\ DataStoreOf \in [Pages -> DataStores]
    /\ Capacity \in Nat \ {0}
    /\ MaxRequests \in Nat
    /\ None \notin Processes \cup DataStores \cup Domains
    /\ Dummy \notin Processes \cup {None}
    /\ SeveralDomains \notin Domains

VARIABLES
    state,           \* "none" before a process is made, then "running" and "terminated"
    registered,      \* WebProcessPool::m_processes
    dataStore,       \* m_websiteDataStore of each process
    domain,          \* m_registrableDomain of each process
    page,            \* the process whose m_pageMap has the page
    provisional,     \* the process of the page's m_provisionalPage
    suspended,       \* SuspendedPageProxy objects <<page, process>> in the back/forward cache
    closing,         \* functions dispatched by WebPageProxy::close, each with a shutdownPreventingScope
    serviceWorkers,  \* processes that run service workers
    isInProcessCache,
    pendingAddRequests,            \* m_pendingAddRequests
    processesPerRegistrableDomain, \* m_processesPerRegistrableDomain
    isResponsiveCallbacks,         \* requests whose callback is in m_isResponsiveCallbacks
    postedCallbacks,               \* requests whose callback(false) is on the main run loop
    requests,        \* how many requests were made for each process
    unresponsive,    \* processes with m_isResponsive = No
    capacity,
    underMemoryPressure,
    evictionTimer    \* m_evictionTimer runs: the application is not active

poolVars  == <<state, registered>>
useVars   == <<page, provisional, suspended, closing, serviceWorkers>>
cacheVars == <<isInProcessCache, pendingAddRequests, processesPerRegistrableDomain>>
checkVars == <<isResponsiveCallbacks, postedCallbacks, requests>>
envVars   == <<capacity, underMemoryPressure, evictionTimer>>
vars == <<poolVars, dataStore, domain, useVars, cacheVars, checkVars, unresponsive, envVars>>

Init ==
    /\ state = [p \in Processes |-> "none"]
    /\ registered = {}
    /\ dataStore = [p \in Processes |-> None]
    /\ domain = [p \in Processes |-> None]
    /\ page = [g \in Pages |-> None]
    /\ provisional = [g \in Pages |-> None]
    /\ suspended = {}
    /\ closing = {}
    /\ serviceWorkers = {}
    /\ isInProcessCache = {}
    /\ pendingAddRequests = {}
    /\ processesPerRegistrableDomain = [d \in Domains |-> None]
    /\ isResponsiveCallbacks = {}
    /\ postedCallbacks = {}
    /\ requests = [p \in Processes |-> 0]
    /\ unresponsive = {}
    /\ capacity = Capacity
    /\ underMemoryPressure = FALSE
    /\ evictionTimer = FALSE

------------------------------------------------------------------------------
(* Use of a process, and what happens when it ends. *)

RequestsOf(p) == {p} \X (1..MaxRequests)

\* What canTerminateAuxiliaryProcess looks at besides m_isInProcessCache.
InUse(p) ==
    \/ \E g \in Pages : page[g] = p \/ provisional[g] = p
    \/ \E g \in Pages : <<g, p>> \in suspended \/ <<g, p>> \in closing
    \/ p \in serviceWorkers

HasPagesUsing(s) == \E g \in Pages : page[g] # None /\ DataStoreOf[g] = s

CanCacheProcess(p) ==
    /\ capacity # 0
    /\ domain[p] \in Domains
    /\ ~underMemoryPressure
    /\ dataStore[p] \in Ephemeral => HasPagesUsing(dataStore[p])

\* addProcessIfPossible for the processes of added, then takeProcess or
\* ~CachedProcess for those of removed; the callbacks of answered were called.
CacheChange(added, removed, answered) ==
    LET new == {<<p, requests[p] + 1>> : p \in added}
    IN  /\ \A p \in added : requests[p] < MaxRequests
        /\ requests' = [p \in Processes |-> IF p \in added THEN requests[p] + 1 ELSE requests[p]]
        /\ pendingAddRequests' = {r \in pendingAddRequests \cup new : r[1] \notin removed}
        /\ processesPerRegistrableDomain' =
               [d \in Domains |-> IF processesPerRegistrableDomain[d] \in removed
                                  THEN None ELSE processesPerRegistrableDomain[d]]
        /\ isInProcessCache' = (isInProcessCache \cup added) \ removed
        /\ isResponsiveCallbacks' =
               (isResponsiveCallbacks \ answered) \cup {r \in new : r[1] \notin unresponsive'}
        /\ postedCallbacks' =
               (postedCallbacks \ answered) \cup {r \in new : r[1] \in unresponsive'}

\* createNewWebProcess for the processes of made, shutDown for those of ended.
PoolChange(made, ended) ==
    /\ state' = [p \in Processes |-> CASE p \in made  -> "running"
                                       [] p \in ended -> "terminated"
                                       [] OTHER       -> state[p]]
    /\ registered' = (registered \cup made) \ ended

\* Those of S that maybeShutDown ends, given the uses that this step leaves.
Idle(S) == {p \in S : state[p] = "running" /\ p \notin isInProcessCache /\ ~InUse(p)'}

\* maybeShutDown for the processes of S; then those of evicted leave the cache
\* and shut down; then those of taken leave it, or are made, to be used.  Each
\* quantifier ranges over one set, which TLC then computes once.
MaybeShutDown(S, evicted, taken, answered) ==
    \E idle \in {Idle(S)} :
    \E added \in {{p \in idle : CanCacheProcess(p)}} :
    \E gone \in {evicted \cap (isInProcessCache \cup added)} :
        /\ CacheChange(added, gone \cup taken, answered)
        /\ PoolChange({p \in taken : state[p] = "none"}, gone \cup (idle \ added))

\* The destructor of CachedProcess, for each process of S.
Evict(S) ==
    /\ CacheChange({}, S, {})
    /\ PoolChange({}, S)
    /\ UNCHANGED <<dataStore, domain, useVars, unresponsive>>

OfDataStore(s) == {p \in Processes : dataStore[p] = s}

\* A faulty EvictedWith: an ephemeral session ends without clearing the cache.
EvictedWithNothing(g) == {}

\* What pageEndUsingWebsiteDataStore evicts when page g goes: the cached
\* processes of its session, if that is ephemeral and g was its last page.
EvictedWith(g) ==
    IF /\ DataStoreOf[g] \in Ephemeral
       /\ \A h \in Pages \ {g} : page[h] # None => DataStoreOf[h] # DataStoreOf[g]
    THEN OfDataStore(DataStoreOf[g]) ELSE {}

\* A faulty CachedFor, which does not compare the data stores.
CachedForAnyDataStore(s, d, gone) ==
    {p \in Processes \ gone : \E e \in Domains : e = d /\ processesPerRegistrableDomain[e] = p}

\* The processes takeProcess may return, when those of gone have been evicted.
CachedFor(s, d, gone) ==
    {p \in Processes \ gone : /\ \E e \in Domains : e = d /\ processesPerRegistrableDomain[e] = p
                              /\ dataStore[p] = s}

\* findReusableSuspendedPageProcess.
SuspendedFor(s, d) ==
    {p \in Processes : /\ \E g \in Pages : <<g, p>> \in suspended
                       /\ domain[p] = d
                       /\ dataStore[p] = s}

\* processForRegistrableDomain; d = None stands for the empty domain.
ProcessesFor(s, d, gone) ==
    LET cached == CachedFor(s, d, gone)
        reused == IF d = None THEN {} ELSE SuspendedFor(s, d)
    IN  IF cached # {} THEN cached
        ELSE IF reused # {} THEN reused
        ELSE {p \in Processes : state[p] = "none"}

\* A process that is made is made for data store s.
MadeFor(q, s) ==
    dataStore' = [dataStore EXCEPT ![q] = IF state[q] = "none" THEN s ELSE @]

------------------------------------------------------------------------------
(* Pages and navigations. *)

\* A new page is given the dummy process; model values for pages are used
\* again, once nothing of the closed page is left.
CreateWebPage(g) ==
    /\ page[g] = None
    /\ \A p \in Processes : <<g, p>> \notin closing
    /\ page' = [page EXCEPT ![g] = Dummy]
    /\ UNCHANGED <<poolVars, dataStore, domain, provisional, suspended, closing, serviceWorkers,
                   cacheVars, checkVars, unresponsive, envVars>>

\* The page loads for the first time, or again after its process terminated.
LaunchProcess(g, d, q) ==
    /\ page[g] = Dummy \/ (page[g] \in Processes /\ state[page[g]] = "terminated")
    /\ q \in ProcessesFor(DataStoreOf[g], d, EvictedWith(g))
    /\ page' = [page EXCEPT ![g] = q]
    /\ MadeFor(q, DataStoreOf[g])
    /\ UNCHANGED <<domain, provisional, suspended, closing, serviceWorkers, unresponsive, envVars>>
    /\ MaybeShutDown({}, EvictedWith(g), {q}, {})

\* didStartProvisionalLoadForFrameShared, for a main frame load of domain d in
\* the page's process or in that of its provisional page.
DidStartProvisionalLoad(g, d, p) ==
    /\ p \in {page[g], provisional[g]} \cap Processes
    /\ state[p] = "running"
    /\ LET known == domain[p] \in Domains /\ domain[p] # d
       IN  /\ domain' = [domain EXCEPT ![p] = CASE @ = SeveralDomains -> @
                                                [] known -> SeveralDomains
                                                [] OTHER -> d]
           /\ serviceWorkers' = IF known THEN serviceWorkers \ {p} ELSE serviceWorkers
    /\ provisional' = IF p = page[g] THEN [provisional EXCEPT ![g] = None] ELSE provisional
    /\ UNCHANGED <<dataStore, page, suspended, closing, unresponsive, envVars>>
    /\ MaybeShutDown({p, provisional[g]} \cap Processes, {}, {}, {})

\* A faulty Navigate, without the scope: q shuts down when all that used it was
\* the suspended page, or the provisional page, that makes way for the new one.
NavigateWithoutScope(g, d, q) ==
    LET lastUse == /\ <<g, q>> \in suspended \/ provisional[g] = q
                   /\ q \notin serviceWorkers
                   /\ \A h \in Pages : page[h] # q /\ <<h, q>> \notin closing
                   /\ \A h \in Pages \ {g} : provisional[h] # q /\ <<h, q>> \notin suspended
    IN  /\ page[g] \in Processes /\ state[page[g]] = "running"
        /\ q # page[g]
        /\ state[q] = "running" /\ dataStore[q] = DataStoreOf[g]
        /\ provisional' = [provisional EXCEPT ![g] = q]
        /\ suspended' = suspended \ {<<g, q>>}
        /\ UNCHANGED <<dataStore, domain, page, closing, serviceWorkers, unresponsive, envVars>>
        /\ CacheChange({}, {q}, {})
        /\ PoolChange({}, IF lastUse THEN {q} ELSE {})

\* receivedNavigationPolicyDecision, when the navigation continues in process q:
\* one for its domain, the last process of the back/forward item it goes to, or
\* that of the item's suspended page.  The code compares no data stores for the
\* last two; they are processes the page has been in, so they have its own, which
\* is what the guard says of them.  The previous provisional page and the
\* suspended page of g in q go while a scope prevents the shutdown of q.
Navigate(g, d, q) ==
    /\ page[g] \in Processes /\ state[page[g]] = "running"
    /\ q # page[g]
    /\ \/ q \in ProcessesFor(DataStoreOf[g], d, {})
       \/ state[q] = "running" /\ dataStore[q] = DataStoreOf[g]
    /\ provisional' = [provisional EXCEPT ![g] = q]
    /\ suspended' = suspended \ {<<g, q>>}
    /\ MadeFor(q, DataStoreOf[g])
    /\ UNCHANGED <<domain, page, closing, serviceWorkers, unresponsive, envVars>>
    /\ MaybeShutDown({q, provisional[g]} \cap Processes, {}, {q}, {})

\* The provisional page's load fails or is cancelled.
DestroyProvisionalPage(g) ==
    /\ provisional[g] # None
    /\ provisional' = [provisional EXCEPT ![g] = None]
    /\ UNCHANGED <<dataStore, domain, page, suspended, closing, serviceWorkers, unresponsive, envVars>>
    /\ MaybeShutDown({provisional[g]}, {}, {}, {})

\* commitProvisionalPage, with or without suspending the page in its process.
CommitProvisionalPage(g, suspend) ==
    /\ provisional[g] \notin {None, page[g]}
    /\ suspend => page[g] \in Processes /\ state[page[g]] = "running"
    /\ suspended' = IF suspend THEN suspended \cup {<<g, page[g]>>} ELSE suspended
    /\ page' = [page EXCEPT ![g] = provisional[g]]
    /\ provisional' = [provisional EXCEPT ![g] = None]
    /\ UNCHANGED <<dataStore, domain, closing, serviceWorkers, unresponsive, envVars>>
    /\ MaybeShutDown({page[g]} \cap Processes, {}, {}, {})

\* A suspended page expires, is pruned, or does not suspend in time.
DestroySuspendedPage(g, p) ==
    /\ <<g, p>> \in suspended
    /\ suspended' = suspended \ {<<g, p>>}
    /\ UNCHANGED <<dataStore, domain, page, provisional, closing, serviceWorkers, unresponsive, envVars>>
    /\ MaybeShutDown({p}, {}, {}, {})

\* WebPageProxy::close.
ClosePage(g) ==
    /\ page[g] # None
    /\ page' = [page EXCEPT ![g] = None]
    /\ provisional' = [provisional EXCEPT ![g] = None]
    /\ suspended' = {x \in suspended : x[1] # g}
    /\ closing' = closing \cup ({<<g, page[g]>>} \cap ({g} \X Processes))
    /\ UNCHANGED <<dataStore, domain, serviceWorkers, unresponsive, envVars>>
    /\ MaybeShutDown({p \in Processes : p = provisional[g] \/ <<g, p>> \in suspended},
                     EvictedWith(g), {}, {})

\* The function that close dispatched sends WebPage::Close and ends its scope.
SendClose(g, p) ==
    /\ <<g, p>> \in closing
    /\ closing' = closing \ {<<g, p>>}
    /\ UNCHANGED <<dataStore, domain, page, provisional, suspended, serviceWorkers, unresponsive, envVars>>
    /\ MaybeShutDown({p}, {}, {}, {})

------------------------------------------------------------------------------
(* Service workers. *)

\* establishWorkerContextConnectionToNetworkProcess: in a process of the domain,
\* which leaves the cache, or in a new one.
EstablishServiceWorker(d, s, q) ==
    LET matching == {p \in registered : dataStore[p] = s /\ domain[p] = d}
    IN  /\ matching \cap serviceWorkers = {}
        /\ q \in IF matching # {} THEN matching ELSE {p \in Processes : state[p] = "none"}
        /\ serviceWorkers' = serviceWorkers \cup {q}
        /\ MadeFor(q, s)
        /\ domain' = [domain EXCEPT ![q] = d]
        /\ UNCHANGED <<page, provisional, suspended, closing, unresponsive, envVars>>
        /\ MaybeShutDown({}, {}, {q}, {})

DisableServiceWorkers(p) ==
    /\ p \in serviceWorkers
    /\ serviceWorkers' = serviceWorkers \ {p}
    /\ UNCHANGED <<dataStore, domain, page, provisional, suspended, closing, unresponsive, envVars>>
    /\ MaybeShutDown({p}, {}, {}, {})

------------------------------------------------------------------------------
(* The check that a process is responsive. *)

\* The callbacks that are called when p answers, or does not.
Answered(p) == isResponsiveCallbacks \cap RequestsOf(p)

Cached == {processesPerRegistrableDomain[d] : d \in Domains} \ {None}

\* A faulty MakesRoom, which lets the cache outgrow its capacity by one.
MakesRoomTooLate(p, evicted) ==
    LET others == Cached \ {processesPerRegistrableDomain[domain[p]]}
        excess == IF Cardinality(others) > capacity THEN Cardinality(others) - capacity ELSE 0
    IN  /\ evicted \subseteq Cached
        /\ Cached \ others \subseteq evicted
        /\ Cardinality(evicted \cap others) = excess

\* A faulty MakesRoom, which overwrites the process of the same domain.
MakesRoomOverwriting(p, evicted) ==
    LET others == Cached \ {processesPerRegistrableDomain[domain[p]]}
        excess == IF Cardinality(others) >= capacity THEN Cardinality(others) - capacity + 1 ELSE 0
    IN  /\ evicted \subseteq others
        /\ Cardinality(evicted) = excess

\* addProcess makes room: the process of the same domain goes, then processes
\* chosen at random while the cache is full.
MakesRoom(p, evicted) ==
    LET others == Cached \ {processesPerRegistrableDomain[domain[p]]}
        excess == IF Cardinality(others) >= capacity THEN Cardinality(others) - capacity + 1 ELSE 0
    IN  /\ evicted \subseteq Cached
        /\ Cached \ others \subseteq evicted
        /\ Cardinality(evicted \cap others) = excess

\* didReceiveMainThreadPing: the answer to any ping answers every callback.
DidReceiveMainThreadPing(p) ==
    /\ state[p] = "running"
    /\ unresponsive' = unresponsive \ {p}
    /\ UNCHANGED <<dataStore, domain, useVars, envVars, requests, postedCallbacks>>
    /\ isResponsiveCallbacks' = isResponsiveCallbacks \ Answered(p)
    /\ LET added == pendingAddRequests \cap Answered(p)
       IN  \/ /\ added = {}
              /\ UNCHANGED <<cacheVars, poolVars>>
           \/ /\ added # {} /\ CanCacheProcess(p)
              /\ pendingAddRequests' = pendingAddRequests \ added
              /\ \E evicted \in SUBSET Cached :
                     /\ MakesRoom(p, evicted)
                     /\ isInProcessCache' = isInProcessCache \ evicted
                     /\ processesPerRegistrableDomain' =
                            [d \in Domains |->
                                IF d = domain[p] THEN p
                                ELSE IF processesPerRegistrableDomain[d] \in evicted THEN None
                                ELSE processesPerRegistrableDomain[d]]
                     /\ PoolChange({}, evicted)
           \/ /\ added # {} /\ ~CanCacheProcess(p)
              /\ pendingAddRequests' = pendingAddRequests \ added
              /\ isInProcessCache' = isInProcessCache \ {p}
              /\ UNCHANGED processesPerRegistrableDomain
              /\ PoolChange({}, {p})

\* The processes whose CachedProcess goes when answered are called with false.
Refused(answered) == {p \in Processes : pendingAddRequests \cap answered \cap RequestsOf(p) # {}}

\* A faulty DidBecomeUnresponsive, which calls no callbacks.
DidBecomeUnresponsiveSilently(p) ==
    /\ state[p] = "running" /\ p \notin unresponsive
    /\ unresponsive' = unresponsive \cup {p}
    /\ UNCHANGED <<poolVars, dataStore, domain, useVars, cacheVars, checkVars, envVars>>

\* The responsiveness timer fires.
DidBecomeUnresponsive(p) ==
    LET stopsWorkers == p \in serviceWorkers /\ \A g \in Pages : page[g] # p
    IN  /\ state[p] = "running" /\ p \notin unresponsive
        /\ unresponsive' = unresponsive \cup {p}
        /\ serviceWorkers' = IF stopsWorkers THEN serviceWorkers \ {p} ELSE serviceWorkers
        /\ UNCHANGED <<dataStore, domain, page, provisional, suspended, closing, envVars>>
        /\ MaybeShutDown({p} \cap (serviceWorkers \ serviceWorkers'), Refused(Answered(p)), {},
                         Answered(p))

\* A callback(false) that isResponsive dispatched to the main run loop.
RunPostedCallback(r) ==
    /\ r \in postedCallbacks
    /\ UNCHANGED <<dataStore, domain, useVars, unresponsive, envVars>>
    /\ MaybeShutDown({}, Refused({r}), {}, {r})

------------------------------------------------------------------------------
(* Eviction. *)

\* CachedProcess::evictionTimerFired, 30 minutes after the process was added.
EvictionTimerFired(p) ==
    /\ p \in isInProcessCache
    /\ Evict({p})
    /\ UNCHANGED envVars

\* updateCapacity; a cache without capacity is cleared.
UpdateCapacity ==
    /\ capacity' \in {0, Capacity} \ {capacity}
    /\ Evict(IF capacity' = 0 THEN isInProcessCache ELSE {})
    /\ UNCHANGED <<underMemoryPressure, evictionTimer>>

\* setApplicationIsActive.
SetApplicationIsActive(isActive) ==
    /\ evictionTimer' = IF isActive THEN FALSE ELSE evictionTimer \/ Cached # {}
    /\ UNCHANGED <<poolVars, dataStore, domain, useVars, cacheVars, checkVars, unresponsive,
                   capacity, underMemoryPressure>>

\* The application has not been active for 5 minutes.
ApplicationTimerFired ==
    /\ evictionTimer
    /\ evictionTimer' = FALSE
    /\ Evict(isInProcessCache)
    /\ UNCHANGED <<capacity, underMemoryPressure>>

MemoryPressureChanges ==
    /\ underMemoryPressure' = ~underMemoryPressure
    /\ UNCHANGED <<poolVars, dataStore, domain, useVars, cacheVars, checkVars, unresponsive,
                   capacity, evictionTimer>>

\* Clears the back/forward cache entries of the processes of S, which may cache
\* their processes, and then the cached ones of them.
ClearCaches(S) ==
    /\ suspended' = {x \in suspended : x[2] \notin S}
    /\ UNCHANGED <<dataStore, domain, page, provisional, closing, serviceWorkers, unresponsive, envVars>>
    /\ MaybeShutDown({p \in S : \E g \in Pages : <<g, p>> \in suspended}, S, {}, {})

HandleMemoryPressureWarning == ClearCaches(Processes)

\* WebsiteDataStore::removeData.
RemoveData(s) == ClearCaches(OfDataStore(s))

------------------------------------------------------------------------------
(* Termination. *)

\* What shutDown of p leaves: its suspended and provisional pages go, its pages stay.
Terminate(p) ==
    /\ provisional' = [g \in Pages |-> IF provisional[g] = p THEN None ELSE provisional[g]]
    /\ suspended' = {x \in suspended : x[2] # p}
    /\ serviceWorkers' = serviceWorkers \ {p}
    /\ UNCHANGED <<dataStore, domain, page, closing, unresponsive, envVars>>

\* The process crashes: its callbacks are called with false, and it is shut down,
\* by the destructor of its CachedProcess first if it was being checked.
ProcessDidTerminate(p) ==
    /\ state[p] = "running"
    /\ Terminate(p)
    /\ CacheChange({}, {p}, Answered(p))
    /\ state' = [state EXCEPT ![p] = "terminated"]
    /\ registered' = registered \ {p}

\* A faulty RequestTermination, after which the process is still in the cache.
RequestTerminationKeepingCached(p) ==
    /\ state[p] = "running"
    /\ Terminate(p)
    /\ CacheChange({}, {}, {})
    /\ PoolChange({}, {p})

\* The UI process terminates it, for using too much memory or CPU.
RequestTermination(p) ==
    /\ state[p] = "running"
    /\ Terminate(p)
    /\ CacheChange({}, {p}, {})
    /\ PoolChange({}, {p})

------------------------------------------------------------------------------
Next ==
    \/ HandleMemoryPressureWarning
    \/ \E g \in Pages :
        \/ CreateWebPage(g)
        \/ \E d \in Domains \cup {None}, q \in Processes : LaunchProcess(g, d, q) \/ Navigate(g, d, q)
        \/ \E d \in Domains, p \in Processes : DidStartProvisionalLoad(g, d, p)
        \/ DestroyProvisionalPage(g)
        \/ \E suspend \in BOOLEAN : CommitProvisionalPage(g, suspend)
        \/ \E p \in Processes : DestroySuspendedPage(g, p) \/ SendClose(g, p)
        \/ ClosePage(g)
    \/ \E d \in Domains, s \in DataStores, q \in Processes : EstablishServiceWorker(d, s, q)
    \/ \E p \in Processes :
        \/ DisableServiceWorkers(p)
        \/ DidReceiveMainThreadPing(p)
        \/ DidBecomeUnresponsive(p)
        \/ EvictionTimerFired(p)
        \/ ProcessDidTerminate(p)
        \/ RequestTermination(p)
    \/ \E r \in Processes \X (1..MaxRequests) : RunPostedCallback(r)
    \/ UpdateCapacity
    \/ \E isActive \in BOOLEAN : SetApplicationIsActive(isActive)
    \/ ApplicationTimerFired
    \/ MemoryPressureChanges
    \/ \E s \in DataStores : RemoveData(s)

Spec == Init /\ [][Next]_vars

\* A process answers its pings, or the responsiveness timer, which isResponsive
\* starts, fires; functions on the main run loop are run.
Fairness ==
    /\ \A p \in Processes :
        WF_vars(/\ Answered(p) # {} /\ p \notin unresponsive
                /\ DidReceiveMainThreadPing(p) \/ DidBecomeUnresponsive(p))
    /\ \A r \in Processes \X (1..MaxRequests) : WF_vars(RunPostedCallback(r))

FairSpec == Spec /\ Fairness

------------------------------------------------------------------------------
(* Properties. *)

\* Every variable has its type.
TypeOK ==
    /\ state \in [Processes -> {"none", "running", "terminated"}]
    /\ registered \subseteq Processes
    /\ dataStore \in [Processes -> DataStores \cup {None}]
    /\ domain \in [Processes -> Domains \cup {None, SeveralDomains}]
    /\ page \in [Pages -> Processes \cup {None, Dummy}]
    /\ provisional \in [Pages -> Processes \cup {None}]
    /\ suspended \subseteq Pages \X Processes
    /\ closing \subseteq Pages \X Processes
    /\ serviceWorkers \subseteq Processes
    /\ isInProcessCache \subseteq Processes
    /\ pendingAddRequests \subseteq Processes \X (1..MaxRequests)
    /\ processesPerRegistrableDomain \in [Domains -> Processes \cup {None}]
    /\ isResponsiveCallbacks \subseteq Processes \X (1..MaxRequests)
    /\ postedCallbacks \subseteq Processes \X (1..MaxRequests)
    /\ requests \in [Processes -> 0..MaxRequests]
    /\ unresponsive \subseteq Processes
    /\ capacity \in {0, Capacity}
    /\ underMemoryPressure \in BOOLEAN
    /\ evictionTimer \in BOOLEAN

\* A process in the cache, or being checked for it, is running and nothing uses
\* it: the RELEASE_ASSERTs of setIsInProcessCache and addExistingWebPage and the
\* assertions of addProcess and takeProcess hold, and takeProcess never returns
\* a process that has been shut down.
CachedProcessesAreIdle ==
    \A p \in isInProcessCache : state[p] = "running" /\ p \in registered /\ ~InUse(p)

\* m_isInProcessCache says where a process is: one that has it set is in one
\* place of the cache, under its own domain or in one pending request, and no
\* other is in the cache, so that removeProcess always finds what it removes.
CacheMatchesProxies ==
    /\ \A p \in Processes :
        Cardinality({r \in pendingAddRequests : r[1] = p})
            + Cardinality({d \in Domains : processesPerRegistrableDomain[d] = p})
        = IF p \in isInProcessCache THEN 1 ELSE 0
    /\ \A d \in Domains :
        processesPerRegistrableDomain[d] # None => domain[processesPerRegistrableDomain[d]] = d

\* When the last page of an ephemeral session has closed, the cache keeps no
\* process of the session alive, not even one that is still being checked.
EphemeralSessionsLeaveNothing ==
    \A p \in isInProcessCache : dataStore[p] \in Ephemeral => HasPagesUsing(dataStore[p])

\* Processes are not shared between data stores: neither takeProcess nor the
\* reuse of suspended pages' processes gives a page a process of another one.
DataStoresAreSeparate ==
    \A g \in Pages, p \in Processes :
        page[g] = p \/ provisional[g] = p \/ <<g, p>> \in suspended => dataStore[p] = DataStoreOf[g]

\* A process that a provisional page is loading in is not shut down under it.
ProvisionalProcessIsRunning ==
    \A g \in Pages : provisional[g] # None => state[provisional[g]] = "running"

\* The cache never holds more processes than its capacity.
CacheWithinCapacity == Cardinality(Cached) <= capacity

\* Every request to add a process to the cache is settled: the process is
\* cached, taken back into use or shut down, even if it hangs.
RequestsAreSettled ==
    \A r \in Processes \X (1..MaxRequests) : r \in pendingAddRequests ~> r \notin pendingAddRequests

\* A process that was shut down is not kept alive, together with its pool, by
\* the callback of a responsiveness check that nobody will call any more.  The
\* code does not keep this: clearing the cache during a check leaves a callback.
ShutDownProcessesAreReleased == \A r \in isResponsiveCallbacks : state[r[1]] = "running"

=============================================================================
