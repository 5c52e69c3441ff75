----------------------- MODULE WebProcessCacheProofs -----------------------
(***************************************************************************)
(* Proofs about WebProcessCache, for any processes, pages, domains, data   *)
(* stores and capacity.  First: what is in the cache is running and not in *)
(* use, and an ephemeral session leaves nothing in it; neither is          *)
(* inductive without knowing that the processes of the pool are the        *)
(* running ones.  Then, on top of that: a cached process is in one place,  *)
(* pages use processes of their own data store, and provisional pages      *)
(* running ones; that a process taken from the cache is running follows    *)
(* from where the cached processes are.                                    *)
(***************************************************************************)
EXTENDS WebProcessCache, TLAPS

Types ==
    /\ state \in [Processes -> {"none", "running", "terminated"}]
    /\ dataStore \in [Processes -> DataStores \cup {None}]
    /\ page \in [Pages -> Processes \cup {None, Dummy}]
    /\ provisional \in [Pages -> Processes \cup {None}]
    /\ suspended \subseteq Pages \X Processes
    /\ isInProcessCache \subseteq Processes
    /\ registered \subseteq Processes
    /\ processesPerRegistrableDomain \in [Domains -> Processes \cup {None}]

\* The pool has the running processes; what is in the cache is one of them.
PoolInv ==
    /\ \A p \in Processes : p \in registered <=> state[p] = "running"
    /\ isInProcessCache \subseteq registered
    /\ \A p \in isInProcessCache : ~InUse(p)

IInv == Types /\ PoolInv /\ EphemeralSessionsLeaveNothing

\* The uses a step adds are uses of processes in use before it, or taken by it.
UsesOnly(taken) == \A p \in Processes : InUse(p)' => InUse(p) \/ p \in taken

\* Data stores are given to processes that are made, and sessions end only
\* where the processes of evicted are.
SessionsEndOnly(evicted, taken) ==
    /\ \A p \in Processes \ taken : dataStore'[p] = dataStore[p]
    /\ \A p \in Processes \ evicted :
        dataStore[p] \in Ephemeral /\ HasPagesUsing(dataStore[p])
            => \E g \in Pages : page'[g] # None /\ DataStoreOf[g] = dataStore[p]

\* The disjuncts of Next, in the groups in which the proofs take them.
PageStep(g) ==
    \/ CreateWebPage(g)
    \/ \E d \in Domains \cup {None}, q \in Processes : LaunchProcess(g, d, q) \/ Navigate(g, d, q)
    \/ \E d \in Domains, p \in Processes : DidStartProvisionalLoad(g, d, p)
    \/ DestroyProvisionalPage(g)
    \/ \E suspend \in BOOLEAN : CommitProvisionalPage(g, suspend)
    \/ \E p \in Processes : DestroySuspendedPage(g, p) \/ SendClose(g, p)
    \/ ClosePage(g)

WorkerOrCheckStep ==
    \/ \E d \in Domains, s \in DataStores, q \in Processes : EstablishServiceWorker(d, s, q)
    \/ \E p \in Processes : \/ DisableServiceWorkers(p)
                            \/ DidReceiveMainThreadPing(p)
                            \/ DidBecomeUnresponsive(p)
    \/ \E r \in Processes \X (1..MaxRequests) : RunPostedCallback(r)

EvictionStep ==
    \/ HandleMemoryPressureWarning
    \/ \E p \in Processes : EvictionTimerFired(p)
    \/ UpdateCapacity
    \/ \E isActive \in BOOLEAN : SetApplicationIsActive(isActive)
    \/ ApplicationTimerFired
    \/ MemoryPressureChanges
    \/ \E s \in DataStores : RemoveData(s)

\* maybeShutDown, with the evictions that follow it, keeps the cache idle and
\* free of ended sessions, when the step it is part of adds no use of a process
\* that it does not take.
LEMMA MaybeShutDownKeeps ==
    ASSUME IInv,
           NEW S \in SUBSET Processes, NEW evicted \in SUBSET Processes,
           NEW taken \in SUBSET Processes, NEW answered,
           MaybeShutDown(S, evicted, taken, answered),
           UsesOnly(taken), SessionsEndOnly(evicted, taken)
    PROVE  /\ state' \in [Processes -> {"none", "running", "terminated"}]
           /\ isInProcessCache' \subseteq Processes
           /\ registered' \subseteq Processes
           /\ processesPerRegistrableDomain' \in [Domains -> Processes \cup {None}]
           /\ PoolInv'
           /\ EphemeralSessionsLeaveNothing'
<1> DEFINE added == {p \in Idle(S) : CanCacheProcess(p)}
           gone  == evicted \cap (isInProcessCache \cup added)
           made  == {p \in taken : state[p] = "none"}
           ended == gone \cup (Idle(S) \ added)
<1>1. /\ CacheChange(added, gone \cup taken, answered)
      /\ PoolChange(made, ended)
  BY Zenon DEF MaybeShutDown
<1>2. /\ isInProcessCache' = (isInProcessCache \cup added) \ (gone \cup taken)
      /\ processesPerRegistrableDomain' =
             [d \in Domains |-> IF processesPerRegistrableDomain[d] \in gone \cup taken
                                THEN None ELSE processesPerRegistrableDomain[d]]
  BY <1>1, Zenon DEF CacheChange
<1>3. /\ state' = [p \in Processes |-> CASE p \in made  -> "running"
                                         [] p \in ended -> "terminated"
                                         [] OTHER       -> state[p]]
      /\ registered' = (registered \cup made) \ ended
  BY <1>1, Zenon DEF PoolChange
<1>4. \A p \in Idle(S) : /\ p \in Processes /\ state[p] = "running"
                         /\ ~InUse(p)' /\ p \notin isInProcessCache
  BY Zenon DEF Idle
<1> HIDE DEF added, gone, made, ended
<1>5. /\ added \subseteq Idle(S)
      /\ \A p \in added : CanCacheProcess(p)
      /\ gone = evicted \cap (isInProcessCache \cup added)
      /\ made \subseteq taken
      /\ \A p \in made : state[p] = "none"
      /\ ended = gone \cup (Idle(S) \ added)
  BY Zenon DEF added, gone, made, ended
<1>6. \A p \in isInProcessCache \cup added : p \in Processes /\ state[p] = "running"
  BY <1>4, <1>5, Zenon DEF IInv, Types, PoolInv
<1>7. \A p \in ended : p \in Processes /\ state[p] = "running"
  BY <1>4, <1>5, <1>6, Zenon
<1>8. state' \in [Processes -> {"none", "running", "terminated"}]
  BY <1>3, Zenon DEF IInv, Types
<1>9. isInProcessCache' \subseteq Processes
  BY <1>2, <1>6, Zenon
<1>10. registered' \subseteq Processes
  BY <1>3, <1>5, Zenon DEF IInv, Types
<1>11. processesPerRegistrableDomain' \in [Domains -> Processes \cup {None}]
  BY <1>2, Zenon DEF IInv, Types
<1>12. \A p \in Processes : p \in registered' <=> state'[p] = "running"
  BY <1>3, <1>5, <1>7, Zenon DEF IInv, Types, PoolInv
<1>13. isInProcessCache' \subseteq registered'
  <2> SUFFICES ASSUME NEW p \in isInProcessCache'
               PROVE  p \in registered /\ p \notin ended
    BY <1>3, Zenon
  <2>1. p \in isInProcessCache \cup added /\ p \notin gone
    BY <1>2, Zenon
  <2>2. p \notin Idle(S) \ added
    BY <2>1, <1>4, Zenon
  <2>3. p \in registered
    BY <2>1, <1>6, Zenon DEF IInv, PoolInv
  <2> QED BY <2>1, <2>2, <2>3, <1>5, Zenon
<1>14. ASSUME NEW p \in isInProcessCache'
       PROVE  ~InUse(p)'
  <2>1. p \in isInProcessCache \cup added /\ p \notin taken /\ p \in Processes
    BY <1>2, <1>9, Zenon
  <2>2. CASE p \in added
    BY <2>2, <1>4, <1>5, Zenon
  <2>3. CASE p \in isInProcessCache
    BY <2>3, <2>1, Zenon DEF IInv, PoolInv, UsesOnly
  <2> QED BY <2>1, <2>2, <2>3, Zenon
<1>15. ASSUME NEW p \in isInProcessCache', dataStore'[p] \in Ephemeral
       PROVE  HasPagesUsing(dataStore[p])'
  <2>1. p \in isInProcessCache \cup added /\ p \notin gone \cup taken /\ p \in Processes
    BY <1>2, <1>9, Zenon
  <2>2. dataStore'[p] = dataStore[p] /\ p \notin evicted
    BY <2>1, <1>5, Zenon DEF SessionsEndOnly
  <2>3. HasPagesUsing(dataStore[p])
    BY <2>1, <2>2, <1>5, <1>15, Zenon DEF IInv, EphemeralSessionsLeaveNothing, CanCacheProcess
  <2>4. \E g \in Pages : page'[g] # None /\ DataStoreOf[g] = dataStore[p]
    BY <2>1, <2>2, <2>3, <1>15, Zenon DEF SessionsEndOnly
  <2> QED BY <2>2, <2>4, Zenon DEF HasPagesUsing
<1>16. PoolInv'
  BY <1>12, <1>13, <1>14, Zenon DEF PoolInv
<1>17. EphemeralSessionsLeaveNothing'
  BY <1>15, Zenon DEF EphemeralSessionsLeaveNothing
<1> QED BY <1>8, <1>9, <1>10, <1>11, <1>16, <1>17, Zenon

\* The destructor of CachedProcess, run for cached processes, keeps the invariant.
LEMMA EvictKeeps ==
    ASSUME IInv, NEW S \in SUBSET isInProcessCache, Evict(S)
    PROVE  IInv'
<1>1. /\ isInProcessCache' = isInProcessCache \ S
      /\ processesPerRegistrableDomain' =
             [d \in Domains |-> IF processesPerRegistrableDomain[d] \in S
                                THEN None ELSE processesPerRegistrableDomain[d]]
  BY Zenon DEF Evict, CacheChange
<1>2. /\ state' = [p \in Processes |-> IF p \in S THEN "terminated" ELSE state[p]]
      /\ registered' = registered \ S
  BY Zenon DEF Evict, PoolChange
<1>3. UNCHANGED <<dataStore, page, provisional, suspended, closing, serviceWorkers>>
  BY Zenon DEF Evict, useVars
<1>4. Types'
  BY <1>1, <1>2, <1>3, Zenon DEF IInv, Types
<1>5. PoolInv'
  BY <1>1, <1>2, <1>3, Zenon DEF IInv, Types, PoolInv, InUse
<1>6. EphemeralSessionsLeaveNothing'
  BY <1>1, <1>3, Zenon DEF IInv, EphemeralSessionsLeaveNothing, HasPagesUsing
<1> QED BY <1>4, <1>5, <1>6, Zenon DEF IInv

\* The actions of pages and navigations keep the invariant: a page is given a
\* process that the cache has let go of, or one that is in use already.
LEMMA PagesKeep ==
    ASSUME IInv, NEW g \in Pages, PageStep(g)
    PROVE  IInv'
<1> USE CacheAssumption
<1>1. CASE CreateWebPage(g)
  <2>1. /\ UNCHANGED <<state, registered, dataStore, provisional, suspended, closing,
                       serviceWorkers, isInProcessCache, processesPerRegistrableDomain>>
        /\ page' = [page EXCEPT ![g] = Dummy]
    BY <1>1, Zenon DEF CreateWebPage, poolVars, cacheVars
  <2>2. Types'
    BY <2>1, Zenon DEF IInv, Types
  <2>3. PoolInv'
    <3>1. ASSUME NEW p \in Processes, InUse(p)' PROVE InUse(p)
      BY <2>1, <3>1, Zenon DEF IInv, Types, InUse
    <3> QED
      BY <2>1, <3>1, Zenon DEF IInv, Types, PoolInv
  <2>4. EphemeralSessionsLeaveNothing'
    BY <2>1, Zenon DEF IInv, Types, EphemeralSessionsLeaveNothing, HasPagesUsing
  <2> QED BY <2>2, <2>3, <2>4, Zenon DEF IInv
<1>2. ASSUME NEW d \in Domains \cup {None}, NEW q \in Processes, LaunchProcess(g, d, q)
     PROVE  IInv'
  <2>1. MaybeShutDown({}, EvictedWith(g), {q}, {})
    BY <1>2, Zenon DEF LaunchProcess
  <2>2. /\ page' \in [Pages -> Processes \cup {None, Dummy}]
        /\ provisional' \in [Pages -> Processes \cup {None}]
        /\ suspended' \subseteq Pages \X Processes
        /\ dataStore' \in [Processes -> DataStores \cup {None}]
    BY <1>2 DEF LaunchProcess, IInv, Types, MadeFor
  <2>3. UsesOnly({q})
    BY <1>2 DEF LaunchProcess, IInv, Types, UsesOnly, InUse
  <2>4. SessionsEndOnly(EvictedWith(g), {q})
    BY <1>2 DEF LaunchProcess, IInv, Types, SessionsEndOnly, HasPagesUsing, MadeFor
  <2>5. /\ EvictedWith(g) \in SUBSET Processes
        /\ {q} \in SUBSET Processes
    BY <1>2, Zenon DEF LaunchProcess, IInv, Types, OfDataStore, EvictedWith
  <2> QED BY <2>1, <2>2, <2>3, <2>4, <2>5, MaybeShutDownKeeps, Zenon DEF IInv, Types
<1>3. ASSUME NEW d \in Domains \cup {None}, NEW q \in Processes, Navigate(g, d, q)
     PROVE  IInv'
  <2>1. MaybeShutDown({q, provisional[g]} \cap Processes, {}, {q}, {})
    BY <1>3, Zenon DEF Navigate
  <2>2. /\ page' \in [Pages -> Processes \cup {None, Dummy}]
        /\ provisional' \in [Pages -> Processes \cup {None}]
        /\ suspended' \subseteq Pages \X Processes
        /\ dataStore' \in [Processes -> DataStores \cup {None}]
    BY <1>3 DEF Navigate, IInv, Types, MadeFor
  <2>3. UsesOnly({q})
    BY <1>3, Zenon DEF Navigate, IInv, Types, UsesOnly, InUse
  <2>4. SessionsEndOnly({}, {q})
    BY <1>3 DEF Navigate, IInv, Types, SessionsEndOnly, HasPagesUsing, MadeFor
  <2>5. /\ {q, provisional[g]} \cap Processes \in SUBSET Processes
        /\ {q} \in SUBSET Processes
    BY <1>3, Zenon DEF Navigate, IInv, Types
  <2> QED BY <2>1, <2>2, <2>3, <2>4, <2>5, MaybeShutDownKeeps, Zenon DEF IInv, Types
<1>4. ASSUME NEW d \in Domains, NEW p \in Processes, DidStartProvisionalLoad(g, d, p)
     PROVE  IInv'
  <2>1. MaybeShutDown({p, provisional[g]} \cap Processes, {}, {}, {})
    BY <1>4, Zenon DEF DidStartProvisionalLoad
  <2>2. /\ page' \in [Pages -> Processes \cup {None, Dummy}]
        /\ provisional' \in [Pages -> Processes \cup {None}]
        /\ suspended' \subseteq Pages \X Processes
        /\ dataStore' \in [Processes -> DataStores \cup {None}]
    BY <1>4, Zenon DEF DidStartProvisionalLoad, IInv, Types
  <2>3. UsesOnly({})
    BY <1>4, Zenon DEF DidStartProvisionalLoad, IInv, Types, UsesOnly, InUse
  <2>4. SessionsEndOnly({}, {})
    BY <1>4, Zenon DEF DidStartProvisionalLoad, IInv, Types, SessionsEndOnly, HasPagesUsing
  <2>5. /\ {p, provisional[g]} \cap Processes \in SUBSET Processes
    BY <1>4, Zenon DEF DidStartProvisionalLoad, IInv, Types
  <2> QED BY <2>1, <2>2, <2>3, <2>4, <2>5, MaybeShutDownKeeps, Zenon DEF IInv, Types
<1>5. CASE DestroyProvisionalPage(g)
  <2>1. MaybeShutDown({provisional[g]}, {}, {}, {})
    BY <1>5, Zenon DEF DestroyProvisionalPage
  <2>2. /\ page' \in [Pages -> Processes \cup {None, Dummy}]
        /\ provisional' \in [Pages -> Processes \cup {None}]
        /\ suspended' \subseteq Pages \X Processes
        /\ dataStore' \in [Processes -> DataStores \cup {None}]
    BY <1>5, Zenon DEF DestroyProvisionalPage, IInv, Types
  <2>3. UsesOnly({})
    BY <1>5, Zenon DEF DestroyProvisionalPage, IInv, Types, UsesOnly, InUse
  <2>4. SessionsEndOnly({}, {})
    BY <1>5, Zenon DEF DestroyProvisionalPage, IInv, Types, SessionsEndOnly, HasPagesUsing
  <2>5. /\ {provisional[g]} \in SUBSET Processes
    BY <1>5 DEF DestroyProvisionalPage, IInv, Types
  <2> QED BY <2>1, <2>2, <2>3, <2>4, <2>5, MaybeShutDownKeeps, Zenon DEF IInv, Types
<1>6. ASSUME NEW suspend \in BOOLEAN, CommitProvisionalPage(g, suspend)
     PROVE  IInv'
  <2>1. MaybeShutDown({page[g]} \cap Processes, {}, {}, {})
    BY <1>6, Zenon DEF CommitProvisionalPage
  <2>2. /\ page' \in [Pages -> Processes \cup {None, Dummy}]
        /\ provisional' \in [Pages -> Processes \cup {None}]
        /\ suspended' \subseteq Pages \X Processes
        /\ dataStore' \in [Processes -> DataStores \cup {None}]
    BY <1>6 DEF CommitProvisionalPage, IInv, Types
  <2>3. UsesOnly({})
    BY <1>6, Zenon DEF CommitProvisionalPage, IInv, Types, UsesOnly, InUse
  <2>4. SessionsEndOnly({}, {})
    BY <1>6 DEF CommitProvisionalPage, IInv, Types, SessionsEndOnly, HasPagesUsing
  <2>5. /\ {page[g]} \cap Processes \in SUBSET Processes
    BY <1>6, Zenon DEF CommitProvisionalPage, IInv, Types
  <2> QED BY <2>1, <2>2, <2>3, <2>4, <2>5, MaybeShutDownKeeps, Zenon DEF IInv, Types
<1>7. ASSUME NEW p \in Processes, DestroySuspendedPage(g, p)
     PROVE  IInv'
  <2>1. MaybeShutDown({p}, {}, {}, {})
    BY <1>7, Zenon DEF DestroySuspendedPage
  <2>2. /\ page' \in [Pages -> Processes \cup {None, Dummy}]
        /\ provisional' \in [Pages -> Processes \cup {None}]
        /\ suspended' \subseteq Pages \X Processes
        /\ dataStore' \in [Processes -> DataStores \cup {None}]
    BY <1>7, Zenon DEF DestroySuspendedPage, IInv, Types
  <2>3. UsesOnly({})
    BY <1>7, Zenon DEF DestroySuspendedPage, IInv, Types, UsesOnly, InUse
  <2>4. SessionsEndOnly({}, {})
    BY <1>7, Zenon DEF DestroySuspendedPage, IInv, Types, SessionsEndOnly, HasPagesUsing
  <2>5. /\ {p} \in SUBSET Processes
    BY <1>7, Zenon DEF DestroySuspendedPage, IInv, Types
  <2> QED BY <2>1, <2>2, <2>3, <2>4, <2>5, MaybeShutDownKeeps, Zenon DEF IInv, Types
<1>8. ASSUME NEW p \in Processes, SendClose(g, p)
     PROVE  IInv'
  <2>1. MaybeShutDown({p}, {}, {}, {})
    BY <1>8, Zenon DEF SendClose
  <2>2. /\ page' \in [Pages -> Processes \cup {None, Dummy}]
        /\ provisional' \in [Pages -> Processes \cup {None}]
        /\ suspended' \subseteq Pages \X Processes
        /\ dataStore' \in [Processes -> DataStores \cup {None}]
    BY <1>8, Zenon DEF SendClose, IInv, Types
  <2>3. UsesOnly({})
    BY <1>8, Zenon DEF SendClose, IInv, Types, UsesOnly, InUse
  <2>4. SessionsEndOnly({}, {})
    BY <1>8, Zenon DEF SendClose, IInv, Types, SessionsEndOnly, HasPagesUsing
  <2>5. /\ {p} \in SUBSET Processes
    BY <1>8, Zenon DEF SendClose, IInv, Types
  <2> QED BY <2>1, <2>2, <2>3, <2>4, <2>5, MaybeShutDownKeeps, Zenon DEF IInv, Types
<1>9. CASE ClosePage(g)
  <2>1. MaybeShutDown({p \in Processes : p = provisional[g] \/ <<g, p>> \in suspended}, EvictedWith(g), {}, {})
    BY <1>9, Zenon DEF ClosePage
  <2>2. /\ page' \in [Pages -> Processes \cup {None, Dummy}]
        /\ provisional' \in [Pages -> Processes \cup {None}]
        /\ suspended' \subseteq Pages \X Processes
        /\ dataStore' \in [Processes -> DataStores \cup {None}]
    BY <1>9, Zenon DEF ClosePage, IInv, Types
  <2>3. UsesOnly({})
    BY <1>9, Zenon DEF ClosePage, IInv, Types, UsesOnly, InUse
  <2>4. SessionsEndOnly(EvictedWith(g), {})
    BY <1>9, Zenon DEF ClosePage, IInv, Types, SessionsEndOnly, HasPagesUsing, EvictedWith, OfDataStore
  <2>5. /\ {p \in Processes : p = provisional[g] \/ <<g, p>> \in suspended} \in SUBSET Processes
        /\ EvictedWith(g) \in SUBSET Processes
    BY <1>9, Zenon DEF ClosePage, IInv, Types, OfDataStore, EvictedWith
  <2> QED BY <2>1, <2>2, <2>3, <2>4, <2>5, MaybeShutDownKeeps, Zenon DEF IInv, Types
<1> QED BY <1>1, <1>2, <1>3, <1>4, <1>5, <1>6, <1>7, <1>8, <1>9 DEF PageStep

\* Service workers and the answers to responsiveness checks keep the invariant:
\* the process of a service worker leaves the cache, and a refused one too.
LEMMA WorkersAndChecksKeep ==
    ASSUME IInv, WorkerOrCheckStep
    PROVE  IInv'
<1> USE CacheAssumption
<1>1. ASSUME NEW d \in Domains, NEW s \in DataStores, NEW q \in Processes,
            EstablishServiceWorker(d, s, q)
     PROVE  IInv'
  <2>1. MaybeShutDown({}, {}, {q}, {})
    BY <1>1, Zenon DEF EstablishServiceWorker
  <2>2. /\ page' \in [Pages -> Processes \cup {None, Dummy}]
        /\ provisional' \in [Pages -> Processes \cup {None}]
        /\ suspended' \subseteq Pages \X Processes
        /\ dataStore' \in [Processes -> DataStores \cup {None}]
    BY <1>1, Zenon DEF EstablishServiceWorker, IInv, Types, MadeFor
  <2>3. UsesOnly({q})
    BY <1>1, Zenon DEF EstablishServiceWorker, UsesOnly, InUse
  <2>4. SessionsEndOnly({}, {q})
    BY <1>1, Zenon DEF EstablishServiceWorker, IInv, Types, SessionsEndOnly, HasPagesUsing, MadeFor
  <2>5. /\ {q} \in SUBSET Processes
    BY <1>1, Zenon DEF IInv, Types
  <2> QED BY <2>1, <2>2, <2>3, <2>4, <2>5, MaybeShutDownKeeps, Zenon DEF IInv, Types
<1>2. ASSUME NEW p \in Processes, DisableServiceWorkers(p)
     PROVE  IInv'
  <2>1. MaybeShutDown({p}, {}, {}, {})
    BY <1>2, Zenon DEF DisableServiceWorkers
  <2>2. /\ page' \in [Pages -> Processes \cup {None, Dummy}]
        /\ provisional' \in [Pages -> Processes \cup {None}]
        /\ suspended' \subseteq Pages \X Processes
        /\ dataStore' \in [Processes -> DataStores \cup {None}]
    BY <1>2, Zenon DEF DisableServiceWorkers, IInv, Types
  <2>3. UsesOnly({})
    BY <1>2, Zenon DEF DisableServiceWorkers, UsesOnly, InUse
  <2>4. SessionsEndOnly({}, {})
    BY <1>2, Zenon DEF DisableServiceWorkers, IInv, Types, SessionsEndOnly, HasPagesUsing
  <2>5. /\ {p} \in SUBSET Processes
    BY <1>2, Zenon DEF IInv, Types
  <2> QED BY <2>1, <2>2, <2>3, <2>4, <2>5, MaybeShutDownKeeps, Zenon DEF IInv, Types
<1>3. ASSUME NEW p \in Processes, DidBecomeUnresponsive(p)
     PROVE  IInv'
  <2>1. MaybeShutDown({p} \cap (serviceWorkers \ serviceWorkers'), Refused(Answered(p)), {}, Answered(p))
    BY <1>3, Zenon DEF DidBecomeUnresponsive
  <2>2. /\ page' \in [Pages -> Processes \cup {None, Dummy}]
        /\ provisional' \in [Pages -> Processes \cup {None}]
        /\ suspended' \subseteq Pages \X Processes
        /\ dataStore' \in [Processes -> DataStores \cup {None}]
    BY <1>3, Zenon DEF DidBecomeUnresponsive, IInv, Types
  <2>3. UsesOnly({})
    BY <1>3, Zenon DEF DidBecomeUnresponsive, UsesOnly, InUse
  <2>4. SessionsEndOnly(Refused(Answered(p)), {})
    BY <1>3, Zenon DEF DidBecomeUnresponsive, IInv, Types, SessionsEndOnly, HasPagesUsing
  <2>5. /\ {p} \cap (serviceWorkers \ serviceWorkers') \in SUBSET Processes
        /\ Refused(Answered(p)) \in SUBSET Processes
    BY <1>3, Zenon DEF IInv, Types, Refused
  <2> QED BY <2>1, <2>2, <2>3, <2>4, <2>5, MaybeShutDownKeeps, Zenon DEF IInv, Types
<1>4. ASSUME NEW r \in Processes \X (1..MaxRequests), RunPostedCallback(r)
     PROVE  IInv'
  <2>1. MaybeShutDown({}, Refused({r}), {}, {r})
    BY <1>4, Zenon DEF RunPostedCallback
  <2>2. /\ page' \in [Pages -> Processes \cup {None, Dummy}]
        /\ provisional' \in [Pages -> Processes \cup {None}]
        /\ suspended' \subseteq Pages \X Processes
        /\ dataStore' \in [Processes -> DataStores \cup {None}]
    BY <1>4, Zenon DEF RunPostedCallback, IInv, Types, useVars
  <2>3. UsesOnly({})
    BY <1>4, Zenon DEF RunPostedCallback, UsesOnly, InUse, useVars
  <2>4. SessionsEndOnly(Refused({r}), {})
    BY <1>4, Zenon DEF RunPostedCallback, IInv, Types, SessionsEndOnly, HasPagesUsing, useVars
  <2>5. /\ Refused({r}) \in SUBSET Processes
    BY <1>4, Zenon DEF IInv, Types, Refused
  <2> QED BY <2>1, <2>2, <2>3, <2>4, <2>5, MaybeShutDownKeeps, Zenon DEF IInv, Types
<1>5. ASSUME NEW p \in Processes, DidReceiveMainThreadPing(p)
     PROVE  IInv'
  <2>1. UNCHANGED <<dataStore, page, provisional, suspended, closing, serviceWorkers>>
    BY <1>5, Zenon DEF DidReceiveMainThreadPing, useVars
  <2>2. CASE UNCHANGED <<cacheVars, poolVars>>
    <3>1. UNCHANGED <<state, registered, isInProcessCache, processesPerRegistrableDomain>>
      BY <2>2, Zenon DEF cacheVars, poolVars
    <3> QED BY <2>1, <3>1, Zenon DEF IInv, Types, PoolInv, EphemeralSessionsLeaveNothing, InUse, HasPagesUsing
  <2>3. ASSUME NEW ended \in SUBSET Processes,
               PoolChange({}, ended),
               isInProcessCache' = isInProcessCache \ ended,
               processesPerRegistrableDomain' \in [Domains -> Processes \cup {None}],
               \A q \in ended : state[q] = "running" \/ q \notin registered
        PROVE  IInv'
    <3>1. /\ state' = [q \in Processes |-> IF q \in ended THEN "terminated" ELSE state[q]]
          /\ registered' = registered \ ended
      BY <2>3, Zenon DEF PoolChange
    <3>2. Types'
      BY <2>1, <2>3, <3>1, Zenon DEF IInv, Types
    <3>3. PoolInv'
      BY <2>1, <2>3, <3>1, Zenon DEF IInv, Types, PoolInv, InUse
    <3>4. EphemeralSessionsLeaveNothing'
      BY <2>1, <2>3, Zenon DEF IInv, EphemeralSessionsLeaveNothing, HasPagesUsing
    <3> QED BY <3>2, <3>3, <3>4, Zenon DEF IInv
  <2>4. ASSUME NEW evicted \in SUBSET Cached,
               isInProcessCache' = isInProcessCache \ evicted,
               processesPerRegistrableDomain' =
                   [d \in Domains |->
                       IF d = domain[p] THEN p
                       ELSE IF processesPerRegistrableDomain[d] \in evicted THEN None
                       ELSE processesPerRegistrableDomain[d]],
               PoolChange({}, evicted)
        PROVE  IInv'
    <3>1. evicted \subseteq Processes
      BY DEF IInv, Types, Cached
    <3>2. processesPerRegistrableDomain' \in [Domains -> Processes \cup {None}]
      BY <2>4, Zenon DEF IInv, Types
    <3>3. \A q \in evicted : state[q] = "running" \/ q \notin registered
      BY <3>1, Zenon DEF IInv, PoolInv
    <3> QED BY <2>3, <2>4, <3>1, <3>2, <3>3, Zenon
  <2>5. CASE /\ isInProcessCache' = isInProcessCache \ {p}
             /\ UNCHANGED processesPerRegistrableDomain
             /\ PoolChange({}, {p})
    <3>1. /\ {p} \in SUBSET Processes
          /\ processesPerRegistrableDomain' \in [Domains -> Processes \cup {None}]
          /\ \A q \in {p} : state[q] = "running" \/ q \notin registered
      BY <1>5, <2>5, Zenon DEF IInv, Types, DidReceiveMainThreadPing
    <3> QED BY <2>3, <2>5, <3>1, Zenon
  <2> QED BY <1>5, <2>2, <2>4, <2>5, Zenon DEF DidReceiveMainThreadPing
<1> QED BY <1>1, <1>2, <1>3, <1>4, <1>5, Zenon DEF WorkerOrCheckStep

\* Eviction, clearing and the environment keep the invariant.
LEMMA EvictionKeeps ==
    ASSUME IInv, EvictionStep
    PROVE  IInv'
<1>1. ASSUME NEW S \in SUBSET Processes, ClearCaches(S)
     PROVE  IInv'
  <2>1. MaybeShutDown({p \in S : \E g \in Pages : <<g, p>> \in suspended}, S, {}, {})
    BY <1>1, Zenon DEF ClearCaches
  <2>2. /\ page' \in [Pages -> Processes \cup {None, Dummy}]
        /\ provisional' \in [Pages -> Processes \cup {None}]
        /\ suspended' \subseteq Pages \X Processes
        /\ dataStore' \in [Processes -> DataStores \cup {None}]
    BY <1>1, Zenon DEF ClearCaches, IInv, Types
  <2>3. UsesOnly({})
    BY <1>1, Zenon DEF ClearCaches, UsesOnly, InUse
  <2>4. SessionsEndOnly(S, {})
    BY <1>1, Zenon DEF ClearCaches, IInv, Types, SessionsEndOnly, HasPagesUsing
  <2>5. /\ {p \in S : \E g \in Pages : <<g, p>> \in suspended} \in SUBSET Processes
        /\ S \in SUBSET Processes
    BY <1>1, Zenon DEF IInv, Types
  <2> QED BY <2>1, <2>2, <2>3, <2>4, <2>5, MaybeShutDownKeeps, Zenon DEF IInv, Types
<1>2. CASE HandleMemoryPressureWarning
  BY <1>1, <1>2, Zenon DEF HandleMemoryPressureWarning
<1>3. ASSUME NEW s \in DataStores, RemoveData(s)
     PROVE  IInv'
  <2>1. OfDataStore(s) \in SUBSET Processes
    BY Zenon DEF OfDataStore
  <2> QED BY <1>1, <1>3, <2>1, Zenon DEF RemoveData
<1>4. ASSUME NEW p \in Processes, EvictionTimerFired(p)
     PROVE  IInv'
  BY <1>4, EvictKeeps, Zenon DEF EvictionTimerFired
<1>5. CASE UpdateCapacity
  BY <1>5, EvictKeeps, Zenon DEF UpdateCapacity
<1>6. CASE ApplicationTimerFired
  BY <1>6, EvictKeeps, Zenon DEF ApplicationTimerFired
<1>7. ASSUME UNCHANGED <<poolVars, dataStore, useVars, cacheVars>>
     PROVE  IInv'
  BY <1>7, Zenon DEF poolVars, useVars, cacheVars, IInv, Types, PoolInv, EphemeralSessionsLeaveNothing,
              InUse, HasPagesUsing
<1>8. ASSUME NEW isActive \in BOOLEAN, SetApplicationIsActive(isActive)
     PROVE  IInv'
  BY <1>7, <1>8, Zenon DEF SetApplicationIsActive
<1>9. CASE MemoryPressureChanges
  BY <1>7, <1>9, Zenon DEF MemoryPressureChanges
<1> QED BY <1>2, <1>3, <1>4, <1>5, <1>6, <1>8, <1>9, Zenon DEF EvictionStep

\* Termination takes the process out of the cache and keeps the invariant.
LEMMA TerminationKeeps ==
    ASSUME IInv, NEW p \in Processes, ProcessDidTerminate(p) \/ RequestTermination(p)
    PROVE  IInv'
<1> USE CacheAssumption
<1>1. /\ provisional' = [g \in Pages |-> IF provisional[g] = p THEN None ELSE provisional[g]]
      /\ suspended' = {x \in suspended : x[2] # p}
      /\ serviceWorkers' = serviceWorkers \ {p}
      /\ UNCHANGED <<dataStore, page, closing>>
  BY Zenon DEF ProcessDidTerminate, RequestTermination, Terminate
<1>2. /\ isInProcessCache' = isInProcessCache \ {p}
      /\ processesPerRegistrableDomain' =
             [d \in Domains |-> IF processesPerRegistrableDomain[d] \in {p}
                                THEN None ELSE processesPerRegistrableDomain[d]]
  BY Zenon DEF ProcessDidTerminate, RequestTermination, CacheChange
<1>3. /\ state' = [q \in Processes |-> IF q = p THEN "terminated" ELSE state[q]]
      /\ registered' = registered \ {p}
  BY DEF ProcessDidTerminate, RequestTermination, PoolChange, IInv, Types
<1>4. Types'
  BY <1>1, <1>2, <1>3, Zenon DEF IInv, Types
<1>5. \A q \in Processes : InUse(q)' => InUse(q)
  BY <1>1, Zenon DEF IInv, Types, InUse
<1>6. PoolInv'
  BY <1>2, <1>3, <1>5, Zenon DEF IInv, Types, PoolInv
<1>7. EphemeralSessionsLeaveNothing'
  BY <1>1, <1>2, Zenon DEF IInv, EphemeralSessionsLeaveNothing, HasPagesUsing
<1> QED BY <1>4, <1>6, <1>7, Zenon DEF IInv

\* The invariant holds of every reachable state.
LEMMA Invariance == Spec => []IInv
<1>1. Init => IInv
  BY CacheAssumption DEF Init, IInv, Types, PoolInv, EphemeralSessionsLeaveNothing
<1>2. IInv /\ [Next]_vars => IInv'
  <2> SUFFICES ASSUME IInv, [Next]_vars
               PROVE  IInv'
    BY Zenon
  <2>1. CASE UNCHANGED vars
    BY <2>1, Zenon DEF vars, poolVars, useVars, cacheVars, IInv, Types, PoolInv,
                EphemeralSessionsLeaveNothing, InUse, HasPagesUsing
  <2>2. CASE Next
    BY <2>2, PagesKeep, WorkersAndChecksKeep, EvictionKeeps, TerminationKeeps, Zenon
    DEF Next, PageStep, WorkerOrCheckStep, EvictionStep
  <2> QED BY <2>1, <2>2, Zenon
<1> QED BY <1>1, <1>2, PTL DEF Spec

\* For any processes, pages, domains and data stores, a process that is in the
\* cache or being checked for it is running, registered with the pool and not
\* used, whatever the order of maybeShutDown, takeProcess, the responsiveness
\* answers, evictions and crashes.
THEOREM CacheKeepsIdleProcesses == Spec => []CachedProcessesAreIdle
<1>1. IInv => CachedProcessesAreIdle
  BY Zenon DEF IInv, Types, PoolInv, CachedProcessesAreIdle
<1> QED BY <1>1, Invariance, PTL

\* For any processes, pages, domains and data stores, the cache holds no process
\* of an ephemeral session that has no page left: neither canCacheProcess nor
\* pageEndUsingWebsiteDataStore lets one in or leaves one behind.
THEOREM CacheForgetsEphemeralSessions == Spec => []EphemeralSessionsLeaveNothing
<1>1. IInv => EphemeralSessionsLeaveNothing
  BY Zenon DEF IInv
<1> QED BY <1>1, Invariance, PTL

-----------------------------------------------------------------------------
(* Where a cached process is. *)

\* A process has m_isInProcessCache set exactly when it is in the cache, and is
\* there once: in one pending request, or under its own domain.
CacheShape ==
    /\ requests \in [Processes -> 0..MaxRequests]
    /\ pendingAddRequests \subseteq Processes \X (1..MaxRequests)
    /\ \A r, s \in pendingAddRequests : r[1] = s[1] => r = s
    /\ \A r \in pendingAddRequests : /\ r[1] \in isInProcessCache
                                     /\ \A d \in Domains : processesPerRegistrableDomain[d] # r[1]
    /\ \A d \in Domains : processesPerRegistrableDomain[d] # None =>
           /\ processesPerRegistrableDomain[d] \in isInProcessCache
           /\ domain[processesPerRegistrableDomain[d]] = d
    /\ \A p \in isInProcessCache : \/ \E r \in pendingAddRequests : r[1] = p
                                   \/ \E d \in Domains : processesPerRegistrableDomain[d] = p

\* addProcessIfPossible for processes that are not in the cache, and removal of
\* any, keep the shape, when the domain of no process that stays changes.
LEMMA CacheChangeKeepsShape ==
    ASSUME IInv, CacheShape,
           NEW added \in SUBSET (Processes \ isInProcessCache), NEW removed, NEW answered,
           CacheChange(added, removed, answered),
           \A p \in isInProcessCache \ removed : domain'[p] = domain[p]
    PROVE  CacheShape'
<1> USE CacheAssumption
<1> DEFINE new == {<<p, requests[p] + 1>> : p \in added}
<1>1. /\ \A p \in added : requests[p] < MaxRequests
      /\ requests' = [p \in Processes |-> IF p \in added THEN requests[p] + 1 ELSE requests[p]]
      /\ pendingAddRequests' = {r \in pendingAddRequests \cup new : r[1] \notin removed}
      /\ processesPerRegistrableDomain' =
             [d \in Domains |-> IF processesPerRegistrableDomain[d] \in removed
                                THEN None ELSE processesPerRegistrableDomain[d]]
      /\ isInProcessCache' = (isInProcessCache \cup added) \ removed
  BY Zenon DEF CacheChange
<1>2. \A r \in new : /\ r[1] \in added /\ r = <<r[1], requests[r[1]] + 1>>
                     /\ r \in Processes \X (1..MaxRequests)
  BY <1>1 DEF CacheShape
<1>3. ASSUME NEW p \in added PROVE \E r \in new : r[1] = p
  <2>1. <<p, requests[p] + 1>> \in new /\ <<p, requests[p] + 1>>[1] = p
    BY Zenon
  <2> HIDE DEF new
  <2> QED BY <2>1, Zenon
<1> HIDE DEF new
<1>4. requests' \in [Processes -> 0..MaxRequests]
  BY <1>1 DEF CacheShape
<1>5. pendingAddRequests' \subseteq Processes \X (1..MaxRequests)
  BY <1>1, <1>2, Zenon DEF CacheShape
<1>6. \A r, s \in pendingAddRequests' : r[1] = s[1] => r = s
  BY <1>1, <1>2 DEF CacheShape
<1>7. ASSUME NEW r \in pendingAddRequests'
      PROVE  /\ r[1] \in isInProcessCache'
             /\ \A d \in Domains : processesPerRegistrableDomain'[d] # r[1]
  <2>1. r[1] \notin removed /\ r[1] # None /\ (r \in pendingAddRequests \/ r[1] \in added)
    BY <1>1, <1>2, <1>5
  <2> QED BY <1>1, <2>1, Zenon DEF CacheShape
<1>8. ASSUME NEW d \in Domains, processesPerRegistrableDomain'[d] # None
      PROVE  /\ processesPerRegistrableDomain'[d] \in isInProcessCache'
             /\ domain'[processesPerRegistrableDomain'[d]] = d
  <2>1. /\ processesPerRegistrableDomain'[d] = processesPerRegistrableDomain[d]
        /\ processesPerRegistrableDomain[d] \notin removed
    BY <1>1, <1>8, Zenon
  <2> QED BY <1>1, <1>8, <2>1, Zenon DEF CacheShape
<1>9. ASSUME NEW p \in isInProcessCache'
      PROVE  \/ \E r \in pendingAddRequests' : r[1] = p
             \/ \E d \in Domains : processesPerRegistrableDomain'[d] = p
  <2>1. p \notin removed /\ (p \in isInProcessCache \/ p \in added)
    BY <1>1, Zenon
  <2>2. CASE p \in added
    BY <1>1, <1>3, <2>1, <2>2
  <2>3. CASE p \in isInProcessCache
    BY <1>1, <2>1, <2>3 DEF CacheShape
  <2> QED BY <2>1, <2>2, <2>3, Zenon
<1> QED BY <1>4, <1>5, <1>6, <1>7, <1>8, <1>9, Zenon DEF CacheShape

\* maybeShutDown offers the cache only processes that are not in it.
LEMMA MaybeShutDownKeepsShape ==
    ASSUME IInv, CacheShape,
           NEW S \in SUBSET Processes, NEW evicted \in SUBSET Processes,
           NEW taken \in SUBSET Processes, NEW answered,
           MaybeShutDown(S, evicted, taken, answered),
           \A p \in isInProcessCache \ taken : domain'[p] = domain[p]
    PROVE  CacheShape'
<1> DEFINE added == {p \in Idle(S) : CanCacheProcess(p)}
           gone  == evicted \cap (isInProcessCache \cup added)
<1>1. CacheChange(added, gone \cup taken, answered)
  BY Zenon DEF MaybeShutDown
<1>2. added \in SUBSET (Processes \ isInProcessCache)
  BY Zenon DEF Idle
<1> HIDE DEF added, gone
<1> QED BY <1>1, <1>2, CacheChangeKeepsShape, Zenon

\* The answer to a check moves a process from the pending requests to its domain.
LEMMA PingKeepsShape ==
    ASSUME IInv, CacheShape, NEW p \in Processes, DidReceiveMainThreadPing(p)
    PROVE  CacheShape'
<1> USE CacheAssumption
<1> DEFINE added == pendingAddRequests \cap Answered(p)
<1>1. UNCHANGED <<domain, requests>>
  BY Zenon DEF DidReceiveMainThreadPing
<1>2. CASE UNCHANGED cacheVars
  <2>1. UNCHANGED <<isInProcessCache, pendingAddRequests, processesPerRegistrableDomain>>
    BY <1>2, Zenon DEF cacheVars
  <2> QED BY <1>1, <2>1, Zenon DEF CacheShape
<1>3. added # {} => /\ p \in isInProcessCache /\ p \notin Cached
                    /\ \A r \in pendingAddRequests : r[1] = p <=> r \in added
  <2>1. \A r \in added : r \in pendingAddRequests /\ r[1] = p
    BY Zenon DEF Answered, RequestsOf
  <2> HIDE DEF added
  <2> QED BY <2>1 DEF CacheShape, Cached
<1> HIDE DEF added
<1>4. ASSUME added # {}, CanCacheProcess(p), pendingAddRequests' = pendingAddRequests \ added,
             NEW evicted \in SUBSET Cached, MakesRoom(p, evicted),
             isInProcessCache' = isInProcessCache \ evicted,
             processesPerRegistrableDomain' =
                 [d \in Domains |-> IF d = domain[p] THEN p
                                    ELSE IF processesPerRegistrableDomain[d] \in evicted THEN None
                                    ELSE processesPerRegistrableDomain[d]]
      PROVE  CacheShape'
  <2> DEFINE others == Cached \ {processesPerRegistrableDomain[domain[p]]}
  <2>1. domain[p] \in Domains
    BY <1>4, Zenon DEF CanCacheProcess
  <2>2. evicted \subseteq Cached /\ Cached \ others \subseteq evicted
    BY <1>4, Zenon DEF MakesRoom
  <2>3. /\ processesPerRegistrableDomain'[domain[p]] = p
        /\ \A d \in Domains : d # domain[p] => processesPerRegistrableDomain'[d] =
               IF processesPerRegistrableDomain[d] \in evicted THEN None
               ELSE processesPerRegistrableDomain[d]
    BY <1>4, <2>1, Zenon
  <2>4. p \notin evicted /\ p # None
    BY <1>3, <1>4, Zenon
  <2>5. \A r \in pendingAddRequests : r[1] \notin evicted
    BY DEF CacheShape, Cached
  <2>6. \A r \in pendingAddRequests' : r \in pendingAddRequests /\ r[1] # p
    BY <1>3, <1>4, Zenon
  <2>7. \A r \in pendingAddRequests' :
            /\ r[1] \in isInProcessCache'
            /\ \A d \in Domains : processesPerRegistrableDomain'[d] # r[1]
    <3>1. \A r \in pendingAddRequests' : r[1] # None /\ r[1] \in isInProcessCache
      BY <2>6 DEF CacheShape
    <3> QED BY <1>4, <2>3, <2>5, <2>6, <3>1, Zenon DEF CacheShape
  <2>8. \A d \in Domains : processesPerRegistrableDomain'[d] # None =>
            /\ processesPerRegistrableDomain'[d] \in isInProcessCache'
            /\ domain'[processesPerRegistrableDomain'[d]] = d
    <3>1. p \in isInProcessCache'
      BY <1>3, <1>4, <2>4, Zenon
    <3> QED BY <1>1, <1>4, <2>3, <3>1, Zenon DEF CacheShape
  <2>9. ASSUME NEW q \in isInProcessCache'
        PROVE  \/ \E r \in pendingAddRequests' : r[1] = q
               \/ \E d \in Domains : processesPerRegistrableDomain'[d] = q
    <3>1. q \in isInProcessCache /\ q \notin evicted /\ q # None
      BY <1>4, <2>9, Zenon DEF IInv, Types
    <3>2. CASE q = p
      BY <2>1, <2>3, <3>2, Zenon
    <3>3. CASE q # p /\ \E r \in pendingAddRequests : r[1] = q
      BY <1>3, <1>4, <3>3, Zenon
    <3>4. ASSUME NEW d \in Domains, processesPerRegistrableDomain[d] = q
          PROVE  \E e \in Domains : processesPerRegistrableDomain'[e] = q
      <4>1. d # domain[p]
        BY <2>2, <3>1, <3>4, Zenon DEF Cached
      <4> QED BY <2>3, <3>1, <3>4, <4>1, Zenon
    <3> QED BY <3>1, <3>2, <3>3, <3>4, Zenon DEF CacheShape
  <2> QED BY <1>1, <1>4, <2>7, <2>8, <2>9 DEF CacheShape
<1>5. CASE /\ added # {}
           /\ pendingAddRequests' = pendingAddRequests \ added
           /\ isInProcessCache' = isInProcessCache \ {p}
           /\ UNCHANGED processesPerRegistrableDomain
  <2>1. \A r \in pendingAddRequests' : r \in pendingAddRequests /\ r[1] # p
    BY <1>3, <1>5, Zenon
  <2>2. \A d \in Domains : processesPerRegistrableDomain[d] # p
    BY <1>3, <1>5, Zenon DEF Cached
  <2> QED
    BY <1>1, <1>3, <1>5, <2>1, <2>2, Zenon DEF CacheShape
<1> QED BY <1>2, <1>4, <1>5, Zenon DEF DidReceiveMainThreadPing, added, cacheVars

-----------------------------------------------------------------------------
(* Who uses a process. *)

\* A process is used by pages of its own data store, and what a page is about
\* to use, or keeps suspended, is running.
SeparateInv ==
    \A g \in Pages, p \in Processes :
        /\ page[g] = p \/ provisional[g] = p \/ <<g, p>> \in suspended
              => dataStore[p] = DataStoreOf[g] /\ state[p] # "none"
        /\ provisional[g] = p \/ <<g, p>> \in suspended => state[p] = "running"

FullInv == CacheShape /\ SeparateInv

\* What a step with maybeShutDown does to the uses: a page goes on with the
\* processes it had, or with one that the step takes, which is then of the
\* page's data store and is not one that the step evicts.
UseMoves(evicted, taken) ==
    /\ \A p \in Processes : p \notin taken \/ state[p] # "none" => dataStore'[p] = dataStore[p]
    /\ \A p \in isInProcessCache \ taken : domain'[p] = domain[p]
    /\ taken \cap evicted \cap isInProcessCache = {}
    /\ \A g \in Pages, p \in Processes :
        /\ page'[g] = p =>
               \/ page[g] = p \/ provisional[g] = p
               \/ p \in taken /\ dataStore'[p] = DataStoreOf[g]
        /\ provisional'[g] = p \/ <<g, p>> \in suspended' =>
               \/ provisional[g] = p \/ <<g, p>> \in suspended
               \/ page[g] = p /\ state[p] = "running"
               \/ p \in taken /\ dataStore'[p] = DataStoreOf[g] /\ state[p] # "terminated"

\* Pages that only give up uses keep it, when what they go on using goes on
\* running.
LEMMA FewerUsesKeepSeparate ==
    ASSUME SeparateInv, UNCHANGED dataStore,
           \A p \in Processes : state'[p] = "none" => state[p] = "none",
           \A g \in Pages, p \in Processes : page'[g] = p => page[g] = p,
           \A g \in Pages, p \in Processes :
               provisional'[g] = p => provisional[g] = p /\ state'[p] = state[p],
           \A g \in Pages, p \in Processes :
               <<g, p>> \in suspended' => <<g, p>> \in suspended /\ state'[p] = state[p]
    PROVE  SeparateInv'
<1> SUFFICES ASSUME NEW g \in Pages, NEW p \in Processes
             PROVE  /\ page'[g] = p \/ provisional'[g] = p \/ <<g, p>> \in suspended'
                          => dataStore'[p] = DataStoreOf[g] /\ state'[p] # "none"
                    /\ provisional'[g] = p \/ <<g, p>> \in suspended' => state'[p] = "running"
  BY DEF SeparateInv
<1>1. /\ page[g] = p \/ provisional[g] = p \/ <<g, p>> \in suspended
            => dataStore[p] = DataStoreOf[g] /\ state[p] # "none"
      /\ provisional[g] = p \/ <<g, p>> \in suspended => state[p] = "running"
  BY DEF SeparateInv
<1> QED BY <1>1

\* maybeShutDown ends no process that the step goes on using.
LEMMA MaybeShutDownKeepsUses ==
    ASSUME IInv, FullInv,
           NEW S \in SUBSET Processes, NEW evicted \in SUBSET Processes,
           NEW taken \in SUBSET Processes, NEW answered,
           MaybeShutDown(S, evicted, taken, answered),
           UseMoves(evicted, taken)
    PROVE  SeparateInv'
<1> DEFINE added == {p \in Idle(S) : CanCacheProcess(p)}
           gone  == evicted \cap (isInProcessCache \cup added)
           made  == {p \in taken : state[p] = "none"}
           ended == gone \cup (Idle(S) \ added)
<1>1. state' = [p \in Processes |-> CASE p \in made  -> "running"
                                      [] p \in ended -> "terminated"
                                      [] OTHER       -> state[p]]
  BY Zenon DEF MaybeShutDown, PoolChange
<1>2. \A p \in ended : /\ p \in Processes /\ state[p] = "running"
                       /\ ~InUse(p)' \/ (p \in isInProcessCache /\ p \in evicted)
  BY Zenon DEF Idle, IInv, Types, PoolInv
<1>3. \A p \in Processes : p \in made <=> p \in taken /\ state[p] = "none"
  BY Zenon
<1> HIDE DEF added, gone, made, ended
<1>4. \A p \in Processes : /\ p \in made => state'[p] = "running"
                           /\ p \in ended => state'[p] = "terminated"
                           /\ p \notin made /\ p \notin ended => state'[p] = state[p]
  BY <1>1, <1>2, <1>3, Zenon
<1> SUFFICES ASSUME NEW g \in Pages, NEW p \in Processes,
                    page'[g] = p \/ provisional'[g] = p \/ <<g, p>> \in suspended'
             PROVE  /\ dataStore'[p] = DataStoreOf[g] /\ state'[p] # "none"
                    /\ provisional'[g] = p \/ <<g, p>> \in suspended' => state'[p] = "running"
  BY DEF SeparateInv
<1>5. InUse(p)'
  BY Zenon DEF InUse
<1>6. \/ page[g] = p \/ provisional[g] = p \/ <<g, p>> \in suspended
      \/ p \in taken /\ dataStore'[p] = DataStoreOf[g]
  BY Zenon DEF UseMoves
<1>7. p \notin ended
  <2>1. InUse(p) => p \notin isInProcessCache
    BY Zenon DEF IInv, PoolInv
  <2>2. p \in taken => ~(p \in evicted /\ p \in isInProcessCache)
    BY Zenon DEF UseMoves
  <2> QED BY <1>2, <1>5, <1>6, <2>1, <2>2, Zenon DEF InUse
<1>8. CASE page[g] = p \/ provisional[g] = p \/ <<g, p>> \in suspended
  <2>1. dataStore[p] = DataStoreOf[g] /\ state[p] # "none"
    BY <1>8, Zenon DEF FullInv, SeparateInv
  <2>2. dataStore'[p] = dataStore[p]
    BY <2>1, Zenon DEF UseMoves
  <2>3. state'[p] = state[p]
    BY <1>3, <1>4, <1>7, <2>1, Zenon
  <2>4. provisional'[g] = p \/ <<g, p>> \in suspended' => state[p] = "running"
    BY <2>1 DEF UseMoves, FullInv, SeparateInv, IInv, Types
  <2> QED BY <2>1, <2>2, <2>3, <2>4, Zenon
<1>9. CASE /\ p \in taken /\ dataStore'[p] = DataStoreOf[g]
           /\ ~(page[g] = p \/ provisional[g] = p \/ <<g, p>> \in suspended)
  <2>1. state'[p] # "none"
    BY <1>3, <1>4, <1>7, <1>9, Zenon
  <2>2. provisional'[g] = p \/ <<g, p>> \in suspended' => state[p] # "terminated"
    BY <1>9, Zenon DEF UseMoves
  <2> QED BY <1>3, <1>4, <1>7, <1>9, <2>1, <2>2, Zenon DEF IInv, Types
<1> QED BY <1>6, <1>8, <1>9, Zenon

\* All of it, for a step with maybeShutDown.
LEMMA MaybeShutDownKeepsAll ==
    ASSUME IInv, FullInv,
           NEW S \in SUBSET Processes, NEW evicted \in SUBSET Processes,
           NEW taken \in SUBSET Processes, NEW answered,
           MaybeShutDown(S, evicted, taken, answered),
           UseMoves(evicted, taken)
    PROVE  FullInv'
<1>1. \A p \in isInProcessCache \ taken : domain'[p] = domain[p]
  BY Zenon DEF UseMoves
<1>2. CacheShape'
  BY <1>1, MaybeShutDownKeepsShape, Zenon DEF FullInv
<1> QED BY <1>2, MaybeShutDownKeepsUses, Zenon DEF FullInv

\* Shutting down cached processes ends nothing that is used.
LEMMA EndingCachedKeepsUses ==
    ASSUME IInv, SeparateInv, NEW S \in SUBSET isInProcessCache, PoolChange({}, S),
           UNCHANGED <<dataStore, page, provisional, suspended>>
    PROVE  SeparateInv'
<1>1. \A p \in Processes : p \notin S => state'[p] = state[p]
  BY Zenon DEF PoolChange
<1>2. \A p \in Processes : InUse(p) => p \notin S
  BY Zenon DEF IInv, PoolInv
<1>3. \A g \in Pages, p \in Processes :
          page[g] = p \/ provisional[g] = p \/ <<g, p>> \in suspended => InUse(p)
  BY Zenon DEF InUse
<1> QED BY <1>1, <1>2, <1>3 DEF SeparateInv

\* The destructor of CachedProcess, for cached processes.
LEMMA EvictKeepsAll ==
    ASSUME IInv, FullInv, NEW S \in SUBSET isInProcessCache, Evict(S)
    PROVE  FullInv'
<1>1. CacheChange({}, S, {}) /\ PoolChange({}, S)
  BY Zenon DEF Evict
<1>2. UNCHANGED <<dataStore, domain, page, provisional, suspended>>
  BY Zenon DEF Evict, useVars
<1>3. CacheShape'
  BY <1>1, <1>2, CacheChangeKeepsShape, Zenon DEF FullInv
<1> QED BY <1>1, <1>2, <1>3, EndingCachedKeepsUses, Zenon DEF FullInv

\* What processForRegistrableDomain returns is a process to be made, or a
\* running one of the data store that has not just been evicted.
LEMMA ProcessesForFits ==
    ASSUME IInv, FullInv, NEW s, NEW d, NEW gone, NEW q \in ProcessesFor(s, d, gone)
    PROVE  /\ q \in Processes /\ state[q] # "terminated"
           /\ state[q] # "none" => dataStore[q] = s
           /\ {q} \cap gone \cap isInProcessCache = {}
<1>1. CASE q \in CachedFor(s, d, gone)
  <2>1. q \in Processes \ gone /\ dataStore[q] = s /\ q \in isInProcessCache
    BY <1>1, CacheAssumption DEF CachedFor, FullInv, CacheShape
  <2> QED BY <2>1, Zenon DEF IInv, PoolInv
<1>2. CASE q \in SuspendedFor(s, d)
  <2>1. PICK g \in Pages : <<g, q>> \in suspended
    BY <1>2, Zenon DEF SuspendedFor
  <2>2. q \in Processes /\ dataStore[q] = s /\ state[q] = "running" /\ InUse(q)
    BY <1>2, <2>1, Zenon DEF SuspendedFor, FullInv, SeparateInv, InUse
  <2> QED BY <2>2, Zenon DEF IInv, PoolInv
<1>3. CASE q \in Processes /\ state[q] = "none"
  BY <1>3, Zenon DEF IInv, PoolInv
<1> QED BY <1>1, <1>2, <1>3, Zenon DEF ProcessesFor

\* The steps of pages keep it.
LEMMA PagesKeepAll ==
    ASSUME IInv, FullInv, NEW g \in Pages, PageStep(g)
    PROVE  FullInv'
<1> USE CacheAssumption
<1>1. CASE CreateWebPage(g)
  <2>1. /\ UNCHANGED <<state, dataStore, domain, provisional, suspended, isInProcessCache,
                       pendingAddRequests, processesPerRegistrableDomain, requests>>
        /\ page' = [page EXCEPT ![g] = Dummy]
    BY <1>1, Zenon DEF CreateWebPage, poolVars, cacheVars, checkVars
  <2>2. SeparateInv'
    <3>1. \A h \in Pages, p \in Processes : page'[h] = p => page[h] = p
      BY <2>1, Zenon DEF IInv, Types
    <3> QED BY <2>1, <3>1, FewerUsesKeepSeparate, Zenon DEF FullInv
  <2>3. CacheShape'
    BY <2>1, Zenon DEF FullInv, CacheShape
  <2> QED BY <2>2, <2>3, Zenon DEF FullInv
<1>2. ASSUME NEW d \in Domains \cup {None}, NEW q \in Processes, LaunchProcess(g, d, q)
      PROVE  FullInv'
  <2>1. MaybeShutDown({}, EvictedWith(g), {q}, {})
    BY <1>2, Zenon DEF LaunchProcess
  <2>2. EvictedWith(g) \in SUBSET Processes
    BY Zenon DEF EvictedWith, OfDataStore
  <2>3. /\ state[q] # "none" => dataStore[q] = DataStoreOf[g]
        /\ {q} \cap EvictedWith(g) \cap isInProcessCache = {}
    <3>1. q \in ProcessesFor(DataStoreOf[g], d, EvictedWith(g))
      BY <1>2, Zenon DEF LaunchProcess
    <3> QED BY <3>1, ProcessesForFits
  <2>4. dataStore'[q] = DataStoreOf[g]
    BY <1>2, <2>3, Zenon DEF LaunchProcess, MadeFor, IInv, Types
  <2>5. UseMoves(EvictedWith(g), {q})
    BY <1>2, <2>3, <2>4 DEF UseMoves, LaunchProcess, MadeFor, IInv, Types
  <2> QED BY <2>1, <2>2, <2>5, MaybeShutDownKeepsAll, Zenon
<1>3. ASSUME NEW d \in Domains \cup {None}, NEW q \in Processes, Navigate(g, d, q)
      PROVE  FullInv'
  <2>1. MaybeShutDown({q, provisional[g]} \cap Processes, {}, {q}, {})
    BY <1>3, Zenon DEF Navigate
  <2>2. state[q] # "terminated" /\ (state[q] # "none" => dataStore[q] = DataStoreOf[g])
    <3>1. CASE q \in ProcessesFor(DataStoreOf[g], d, {})
      BY <3>1, ProcessesForFits
    <3>2. CASE state[q] = "running" /\ dataStore[q] = DataStoreOf[g]
      BY <3>2, Zenon
    <3> QED BY <1>3, <3>1, <3>2, Zenon DEF Navigate
  <2>3. dataStore'[q] = DataStoreOf[g]
    BY <1>3, <2>2 DEF Navigate, MadeFor, IInv, Types
  <2>4. UseMoves({}, {q})
    BY <1>3, <2>2, <2>3 DEF UseMoves, Navigate, MadeFor, IInv, Types
  <2> QED BY <2>1, <2>4, MaybeShutDownKeepsAll, Zenon
<1>4. ASSUME NEW d \in Domains, NEW p \in Processes, DidStartProvisionalLoad(g, d, p)
      PROVE  FullInv'
  <2>1. MaybeShutDown({p, provisional[g]} \cap Processes, {}, {}, {})
    BY <1>4, Zenon DEF DidStartProvisionalLoad
  <2>2. p \notin isInProcessCache
    BY <1>4, Zenon DEF DidStartProvisionalLoad, IInv, PoolInv, InUse
  <2>3. \A q \in Processes \ {p} : domain'[q] = domain[q]
    BY <1>4 DEF DidStartProvisionalLoad
  <2>4. UseMoves({}, {})
    BY <1>4, <2>2, <2>3 DEF UseMoves, DidStartProvisionalLoad, IInv, Types
  <2> QED BY <2>1, <2>4, MaybeShutDownKeepsAll, Zenon
<1>5. CASE DestroyProvisionalPage(g)
  <2>1. MaybeShutDown({provisional[g]}, {}, {}, {})
    BY <1>5, Zenon DEF DestroyProvisionalPage
  <2>2. {provisional[g]} \in SUBSET Processes
    BY <1>5, Zenon DEF DestroyProvisionalPage, IInv, Types
  <2>3. UseMoves({}, {})
    BY <1>5 DEF UseMoves, DestroyProvisionalPage, IInv, Types
  <2> QED BY <2>1, <2>2, <2>3, MaybeShutDownKeepsAll, Zenon
<1>6. ASSUME NEW suspend \in BOOLEAN, CommitProvisionalPage(g, suspend)
      PROVE  FullInv'
  <2>1. MaybeShutDown({page[g]} \cap Processes, {}, {}, {})
    BY <1>6, Zenon DEF CommitProvisionalPage
  <2>2. UseMoves({}, {})
    BY <1>6 DEF UseMoves, CommitProvisionalPage, IInv, Types
  <2> QED BY <2>1, <2>2, MaybeShutDownKeepsAll, Zenon
<1>7. ASSUME NEW p \in Processes, DestroySuspendedPage(g, p)
      PROVE  FullInv'
  <2>1. MaybeShutDown({p}, {}, {}, {})
    BY <1>7, Zenon DEF DestroySuspendedPage
  <2>2. UseMoves({}, {})
    BY <1>7, Zenon DEF UseMoves, DestroySuspendedPage
  <2> QED BY <2>1, <2>2, MaybeShutDownKeepsAll, Zenon
<1>8. ASSUME NEW p \in Processes, SendClose(g, p)
      PROVE  FullInv'
  <2>1. MaybeShutDown({p}, {}, {}, {})
    BY <1>8, Zenon DEF SendClose
  <2>2. UseMoves({}, {})
    BY <1>8, Zenon DEF UseMoves, SendClose
  <2> QED BY <2>1, <2>2, MaybeShutDownKeepsAll, Zenon
<1>9. CASE ClosePage(g)
  <2> DEFINE S == {p \in Processes : p = provisional[g] \/ <<g, p>> \in suspended}
  <2>1. MaybeShutDown(S, EvictedWith(g), {}, {})
    BY <1>9, Zenon DEF ClosePage
  <2>2. S \in SUBSET Processes /\ EvictedWith(g) \in SUBSET Processes
    BY Zenon DEF EvictedWith, OfDataStore
  <2>3. UseMoves(EvictedWith(g), {})
    BY <1>9 DEF UseMoves, ClosePage, IInv, Types
  <2> HIDE DEF S
  <2> QED BY <2>1, <2>2, <2>3, MaybeShutDownKeepsAll, Zenon
<1> QED BY <1>1, <1>2, <1>3, <1>4, <1>5, <1>6, <1>7, <1>8, <1>9, Zenon DEF PageStep

\* The steps of service workers and of the responsiveness checks keep it.
LEMMA WorkersAndChecksKeepAll ==
    ASSUME IInv, FullInv, WorkerOrCheckStep
    PROVE  FullInv'
<1>1. ASSUME NEW d \in Domains, NEW s \in DataStores, NEW q \in Processes,
             EstablishServiceWorker(d, s, q)
      PROVE  FullInv'
  <2>1. MaybeShutDown({}, {}, {q}, {})
    BY <1>1, Zenon DEF EstablishServiceWorker
  <2>2. \A p \in Processes \ {q} : domain'[p] = domain[p]
    BY <1>1 DEF EstablishServiceWorker
  <2>3. UseMoves({}, {q})
    BY <1>1, <2>2, Zenon DEF UseMoves, EstablishServiceWorker, MadeFor, IInv, Types
  <2> QED BY <2>1, <2>3, MaybeShutDownKeepsAll, Zenon
<1>2. ASSUME NEW p \in Processes, DisableServiceWorkers(p)
      PROVE  FullInv'
  <2>1. MaybeShutDown({p}, {}, {}, {})
    BY <1>2, Zenon DEF DisableServiceWorkers
  <2>2. UseMoves({}, {})
    BY <1>2, Zenon DEF UseMoves, DisableServiceWorkers
  <2> QED BY <2>1, <2>2, MaybeShutDownKeepsAll, Zenon
<1>3. ASSUME NEW p \in Processes, DidBecomeUnresponsive(p)
      PROVE  FullInv'
  <2>1. MaybeShutDown({p} \cap (serviceWorkers \ serviceWorkers'), Refused(Answered(p)), {},
                      Answered(p))
    BY <1>3, Zenon DEF DidBecomeUnresponsive
  <2>2. Refused(Answered(p)) \in SUBSET Processes
    BY Zenon DEF Refused
  <2>3. UseMoves(Refused(Answered(p)), {})
    BY <1>3, Zenon DEF UseMoves, DidBecomeUnresponsive
  <2> QED BY <2>1, <2>2, <2>3, MaybeShutDownKeepsAll, Zenon
<1>4. ASSUME NEW r \in Processes \X (1..MaxRequests), RunPostedCallback(r)
      PROVE  FullInv'
  <2>1. MaybeShutDown({}, Refused({r}), {}, {r})
    BY <1>4, Zenon DEF RunPostedCallback
  <2>2. Refused({r}) \in SUBSET Processes
    BY Zenon DEF Refused
  <2>3. UseMoves(Refused({r}), {})
    BY <1>4, Zenon DEF UseMoves, RunPostedCallback, useVars
  <2> QED BY <2>1, <2>2, <2>3, MaybeShutDownKeepsAll, Zenon
<1>5. ASSUME NEW p \in Processes, DidReceiveMainThreadPing(p)
      PROVE  FullInv'
  <2>1. UNCHANGED <<dataStore, page, provisional, suspended>>
    BY <1>5, Zenon DEF DidReceiveMainThreadPing, useVars
  <2>2. \/ UNCHANGED state
        \/ \E S \in SUBSET isInProcessCache : PoolChange({}, S)
    <3>1. Cached \subseteq isInProcessCache
      <4>1. \A d \in Domains : processesPerRegistrableDomain[d] # None =>
                processesPerRegistrableDomain[d] \in isInProcessCache
        BY Zenon DEF FullInv, CacheShape
      <4> QED BY <4>1, Zenon DEF Cached
    <3>2. pendingAddRequests \cap Answered(p) # {} => {p} \in SUBSET isInProcessCache
      BY DEF Answered, RequestsOf, FullInv, CacheShape
    <3>3. CASE UNCHANGED poolVars
      BY <3>3, Zenon DEF poolVars
    <3>4. CASE \E evicted \in SUBSET Cached : PoolChange({}, evicted)
      BY <3>1, <3>4, Zenon
    <3>5. CASE pendingAddRequests \cap Answered(p) # {} /\ PoolChange({}, {p})
      BY <3>2, <3>5, Zenon
    <3> QED BY <1>5, <3>3, <3>4, <3>5, Zenon DEF DidReceiveMainThreadPing
  <2>3. SeparateInv'
    BY <2>1, <2>2, EndingCachedKeepsUses DEF FullInv, SeparateInv
  <2> QED BY <1>5, <2>3, PingKeepsShape, Zenon DEF FullInv
<1> QED BY <1>1, <1>2, <1>3, <1>4, <1>5, Zenon DEF WorkerOrCheckStep

\* Eviction, clearing and the environment keep it.
LEMMA EvictionKeepsAll ==
    ASSUME IInv, FullInv, EvictionStep
    PROVE  FullInv'
<1>1. ASSUME NEW S \in SUBSET Processes, ClearCaches(S)
      PROVE  FullInv'
  <2> DEFINE T == {p \in S : \E g \in Pages : <<g, p>> \in suspended}
  <2>1. MaybeShutDown(T, S, {}, {})
    BY <1>1, Zenon DEF ClearCaches
  <2>2. T \in SUBSET Processes
    BY Zenon
  <2>3. UseMoves(S, {})
    BY <1>1, Zenon DEF UseMoves, ClearCaches
  <2> HIDE DEF T
  <2> QED BY <2>1, <2>2, <2>3, MaybeShutDownKeepsAll, Zenon
<1>2. CASE HandleMemoryPressureWarning
  BY <1>1, <1>2, Zenon DEF HandleMemoryPressureWarning
<1>3. ASSUME NEW s \in DataStores, RemoveData(s)
      PROVE  FullInv'
  <2>1. OfDataStore(s) \in SUBSET Processes
    BY Zenon DEF OfDataStore
  <2> QED BY <1>1, <1>3, <2>1, Zenon DEF RemoveData
<1>4. ASSUME NEW p \in Processes, EvictionTimerFired(p)
      PROVE  FullInv'
  BY <1>4, EvictKeepsAll, Zenon DEF EvictionTimerFired
<1>5. CASE ApplicationTimerFired
  BY <1>5, EvictKeepsAll, Zenon DEF ApplicationTimerFired
<1>6. CASE UpdateCapacity
  BY <1>6, EvictKeepsAll, Zenon DEF UpdateCapacity
<1>7. ASSUME UNCHANGED <<poolVars, dataStore, domain, useVars, cacheVars, checkVars>>
      PROVE  FullInv'
  <2>1. UNCHANGED <<state, dataStore, domain, page, provisional, suspended, isInProcessCache,
                    pendingAddRequests, processesPerRegistrableDomain, requests>>
    BY <1>7, Zenon DEF poolVars, useVars, cacheVars, checkVars
  <2>2. CacheShape'
    BY <2>1, Zenon DEF FullInv, CacheShape
  <2>3. SeparateInv'
    BY <2>1 DEF FullInv, SeparateInv
  <2> QED BY <2>2, <2>3, Zenon DEF FullInv
<1>8. ASSUME NEW isActive \in BOOLEAN, SetApplicationIsActive(isActive)
      PROVE  FullInv'
  BY <1>7, <1>8, Zenon DEF SetApplicationIsActive
<1>9. CASE MemoryPressureChanges
  BY <1>7, <1>9, Zenon DEF MemoryPressureChanges
<1> QED BY <1>2, <1>3, <1>4, <1>5, <1>6, <1>8, <1>9, Zenon DEF EvictionStep

\* Termination keeps it: the provisional and suspended pages of the process go.
LEMMA TerminationKeepsAll ==
    ASSUME IInv, FullInv, NEW p \in Processes, ProcessDidTerminate(p) \/ RequestTermination(p)
    PROVE  FullInv'
<1>1. /\ provisional' = [g \in Pages |-> IF provisional[g] = p THEN None ELSE provisional[g]]
      /\ suspended' = {x \in suspended : x[2] # p}
      /\ UNCHANGED <<dataStore, domain, page>>
  BY Zenon DEF ProcessDidTerminate, RequestTermination, Terminate
<1>2. \E answered : CacheChange({}, {p}, answered)
  BY Zenon DEF ProcessDidTerminate, RequestTermination
<1>3. state' = [q \in Processes |-> IF q = p THEN "terminated" ELSE state[q]]
  BY Zenon DEF ProcessDidTerminate, RequestTermination, PoolChange, IInv, Types
<1>4. CacheShape'
  BY <1>1, <1>2, CacheChangeKeepsShape, Zenon DEF FullInv
<1>6. SeparateInv'
  <2>1. \A q \in Processes : /\ q # p => state'[q] = state[q]
                             /\ state'[q] = "none" => state[q] = "none"
    BY <1>3, Zenon
  <2>2. \A g \in Pages, q \in Processes : page'[g] = q => page[g] = q
    BY <1>1, Zenon
  <2>3. \A g \in Pages, q \in Processes :
            provisional'[g] = q => provisional[g] = q /\ state'[q] = state[q]
    BY <1>1, <2>1, CacheAssumption DEF IInv, Types
  <2>4. \A g \in Pages, q \in Processes :
            <<g, q>> \in suspended' => <<g, q>> \in suspended /\ state'[q] = state[q]
    BY <1>1, <2>1, Zenon
  <2>5. SeparateInv /\ UNCHANGED dataStore
    BY <1>1, Zenon DEF FullInv
  <2> QED BY <2>1, <2>2, <2>3, <2>4, <2>5, FewerUsesKeepSeparate, Zenon
<1> QED BY <1>4, <1>6, Zenon DEF FullInv

\* Both invariants hold of every reachable state.
LEMMA FullInvariance == Spec => [](IInv /\ FullInv)
<1>1. Init => FullInv
  <2> SUFFICES ASSUME Init PROVE FullInv
    BY Zenon
  <2>1. CacheShape
    BY CacheAssumption DEF Init, CacheShape
  <2>2. SeparateInv
    BY CacheAssumption, Zenon DEF Init, SeparateInv
  <2> QED BY <2>1, <2>2, Zenon DEF FullInv
<1>2. IInv /\ FullInv /\ [Next]_vars => FullInv'
  <2> SUFFICES ASSUME IInv, FullInv, [Next]_vars
               PROVE  FullInv'
    BY Zenon
  <2>1. CASE UNCHANGED vars
    <3>1. UNCHANGED <<state, dataStore, domain, page, provisional, suspended, isInProcessCache,
                      pendingAddRequests, processesPerRegistrableDomain, requests>>
      BY <2>1, Zenon DEF vars, poolVars, useVars, cacheVars, checkVars
    <3>2. CacheShape'
      BY <3>1, Zenon DEF FullInv, CacheShape
    <3>3. SeparateInv'
      BY <3>1 DEF FullInv, SeparateInv
    <3> QED BY <3>2, <3>3, Zenon DEF FullInv
  <2>2. CASE Next
    BY <2>2, PagesKeepAll, WorkersAndChecksKeepAll, EvictionKeepsAll, TerminationKeepsAll, Zenon
    DEF Next, PageStep, WorkerOrCheckStep, EvictionStep
  <2> QED BY <2>1, <2>2, Zenon
<1> QED BY <1>1, <1>2, Invariance, PTL DEF Spec

\* For any number of processes, pages and data stores, a page, its provisional
\* page and its suspended pages use only processes of the page's data store,
\* whether processForRegistrableDomain found them in the cache, among the
\* suspended pages or made them.
THEOREM ProcessesAreNotShared == Spec => []DataStoresAreSeparate
<1>1. IInv /\ FullInv => DataStoresAreSeparate
  BY Zenon DEF FullInv, SeparateInv, DataStoresAreSeparate
<1> QED BY <1>1, FullInvariance, PTL

\* For any number of processes and pages, no maybeShutDown, eviction or crash
\* leaves a provisional page with a process that has been shut down.
THEOREM ProvisionalPagesKeepTheirProcess == Spec => []ProvisionalProcessIsRunning
<1>1. IInv /\ FullInv => ProvisionalProcessIsRunning
  <2> SUFFICES ASSUME Types, SeparateInv, NEW g \in Pages, provisional[g] # None
               PROVE  state[provisional[g]] = "running"
    BY Zenon DEF IInv, FullInv, ProvisionalProcessIsRunning
  <2>1. provisional[g] \in Processes
    BY Zenon DEF Types
  <2> QED BY <2>1, Zenon DEF SeparateInv
<1> QED BY <1>1, FullInvariance, PTL

=============================================================================
