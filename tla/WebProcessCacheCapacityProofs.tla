---------------------- MODULE WebProcessCacheCapacityProofs ----------------------
(***************************************************************************)
(* Proofs about WebProcessCache that count: how many processes the cache   *)
(* holds, and in how many of its places a process is.  They rest on the    *)
(* invariant of WebProcessCacheProofs and the theorems about finite sets.  *)
(***************************************************************************)
EXTENDS WebProcessCacheProofs, FiniteSetTheorems

\* Only the answer to a check adds to the processes that have been checked.
LEMMA OnlyPingsFillTheCache ==
    ASSUME [Next]_vars
    PROVE  \/ Cached' \subseteq Cached /\ UNCHANGED capacity
           \/ \E p \in Processes : DidReceiveMainThreadPing(p)
           \/ UpdateCapacity
<1> DEFINE Shrinks == Cached' \subseteq Cached /\ UNCHANGED capacity
<1>1. ASSUME NEW added, NEW removed, NEW answered, CacheChange(added, removed, answered),
             UNCHANGED capacity
      PROVE  Shrinks
  BY <1>1, Zenon DEF CacheChange, Cached
<1>2. ASSUME NEW S, NEW evicted, NEW taken, NEW answered,
             MaybeShutDown(S, evicted, taken, answered), UNCHANGED capacity
      PROVE  Shrinks
  BY <1>1, <1>2, Zenon DEF MaybeShutDown
<1>3. ASSUME UNCHANGED processesPerRegistrableDomain, UNCHANGED capacity
      PROVE  Shrinks
  BY <1>3, Zenon DEF Cached
<1> HIDE DEF Shrinks
<1>4. ASSUME UNCHANGED vars
      PROVE  Shrinks
  BY <1>3, <1>4, Zenon DEF vars, cacheVars, envVars
<1>5. ASSUME NEW g \in Pages, PageStep(g)
      PROVE  Shrinks
  <2>1. CASE CreateWebPage(g)
    BY <1>3, <2>1, Zenon DEF CreateWebPage, cacheVars, envVars
  <2>2. ASSUME NEW d \in Domains \cup {None}, NEW q \in Processes, LaunchProcess(g, d, q)
          PROVE  Shrinks
    BY <1>2, <2>2, Zenon DEF LaunchProcess, envVars
  <2>3. ASSUME NEW d \in Domains \cup {None}, NEW q \in Processes, Navigate(g, d, q)
          PROVE  Shrinks
    BY <1>2, <2>3, Zenon DEF Navigate, envVars
  <2>4. ASSUME NEW d \in Domains, NEW p \in Processes, DidStartProvisionalLoad(g, d, p)
          PROVE  Shrinks
    BY <1>2, <2>4, Zenon DEF DidStartProvisionalLoad, envVars
  <2>5. CASE DestroyProvisionalPage(g)
    BY <1>2, <2>5, Zenon DEF DestroyProvisionalPage, envVars
  <2>6. ASSUME NEW suspend \in BOOLEAN, CommitProvisionalPage(g, suspend)
          PROVE  Shrinks
    BY <1>2, <2>6, Zenon DEF CommitProvisionalPage, envVars
  <2>7. ASSUME NEW p \in Processes, DestroySuspendedPage(g, p)
          PROVE  Shrinks
    BY <1>2, <2>7, Zenon DEF DestroySuspendedPage, envVars
  <2>8. ASSUME NEW p \in Processes, SendClose(g, p)
          PROVE  Shrinks
    BY <1>2, <2>8, Zenon DEF SendClose, envVars
  <2>9. CASE ClosePage(g)
    BY <1>2, <2>9, Zenon DEF ClosePage, envVars
  <2> QED BY <1>5, <2>1, <2>2, <2>3, <2>4, <2>5, <2>6, <2>7, <2>8, <2>9, Zenon DEF PageStep
<1>6. ASSUME WorkerOrCheckStep
      PROVE  Shrinks \/ \E p \in Processes : DidReceiveMainThreadPing(p)
  <2>1. ASSUME NEW d \in Domains, NEW s \in DataStores, NEW q \in Processes, EstablishServiceWorker(d, s, q)
          PROVE  Shrinks
    BY <1>2, <2>1, Zenon DEF EstablishServiceWorker, envVars
  <2>2. ASSUME NEW p \in Processes, DisableServiceWorkers(p)
          PROVE  Shrinks
    BY <1>2, <2>2, Zenon DEF DisableServiceWorkers, envVars
  <2>3. ASSUME NEW p \in Processes, DidBecomeUnresponsive(p)
          PROVE  Shrinks
    BY <1>2, <2>3 DEF DidBecomeUnresponsive, envVars
  <2>4. ASSUME NEW r, RunPostedCallback(r)
          PROVE  Shrinks
    BY <1>2, <2>4 DEF RunPostedCallback, envVars
  <2> QED BY <1>6, <2>1, <2>2, <2>3, <2>4, Zenon DEF WorkerOrCheckStep
<1>7. ASSUME EvictionStep
      PROVE  Shrinks \/ UpdateCapacity
  <2>1. ASSUME HandleMemoryPressureWarning PROVE Shrinks
    BY <1>2, <2>1, Zenon DEF HandleMemoryPressureWarning, envVars, ClearCaches
  <2>2. ASSUME NEW p \in Processes, EvictionTimerFired(p)
          PROVE  Shrinks
    BY <1>1, <2>2, Zenon DEF EvictionTimerFired, envVars, Evict
  <2>3. ASSUME NEW isActive \in BOOLEAN, SetApplicationIsActive(isActive)
          PROVE  Shrinks
    BY <1>3, <2>3 DEF SetApplicationIsActive, cacheVars, envVars
  <2>4. ASSUME ApplicationTimerFired PROVE Shrinks
    BY <1>1, <2>4, Zenon DEF ApplicationTimerFired, envVars, Evict
  <2>5. ASSUME MemoryPressureChanges PROVE Shrinks
    BY <1>3, <2>5, Zenon DEF MemoryPressureChanges, cacheVars, envVars
  <2>6. ASSUME NEW s \in DataStores, RemoveData(s)
          PROVE  Shrinks
    BY <1>2, <2>6, Zenon DEF RemoveData, envVars, ClearCaches
  <2> QED BY <1>7, <2>1, <2>2, <2>3, <2>4, <2>5, <2>6, Zenon DEF EvictionStep
<1>8. ASSUME NEW p \in Processes, ProcessDidTerminate(p) \/ RequestTermination(p)
      PROVE  Shrinks
  BY <1>1, <1>8, Zenon DEF ProcessDidTerminate, RequestTermination, Terminate, envVars
<1>9. \/ \E g \in Pages : PageStep(g)
      \/ WorkerOrCheckStep
      \/ EvictionStep
      \/ \E p \in Processes : ProcessDidTerminate(p) \/ RequestTermination(p)
      \/ UNCHANGED vars
  BY Zenon DEF Next, PageStep, WorkerOrCheckStep, EvictionStep
<1>10. \/ Shrinks
       \/ \E p \in Processes : DidReceiveMainThreadPing(p)
       \/ UpdateCapacity
  BY <1>4, <1>5, <1>6, <1>7, <1>8, <1>9, Zenon
<1> QED BY <1>10, Zenon DEF Shrinks

\* After an answer the process is cached, and otherwise what was and is not evicted.
LEMMA PingMakesRoom ==
    ASSUME CacheShape, NEW p \in Processes, DidReceiveMainThreadPing(p)
    PROVE  /\ UNCHANGED capacity
           /\ \/ UNCHANGED Cached
              \/ \E others \in SUBSET Cached : \E evicted :
                    /\ capacity # 0
                    /\ Cached' \subseteq (others \ evicted) \cup {p}
                    /\ Cardinality(evicted \cap others) =
                           IF Cardinality(others) >= capacity THEN Cardinality(others) - capacity + 1 ELSE 0
<1>1. UNCHANGED capacity
  BY Zenon DEF DidReceiveMainThreadPing, envVars
<1>2. CASE UNCHANGED processesPerRegistrableDomain
  BY <1>1, <1>2, Zenon DEF Cached
<1>3. ASSUME NEW evicted, CanCacheProcess(p), MakesRoom(p, evicted),
             processesPerRegistrableDomain' =
                 [d \in Domains |-> IF d = domain[p] THEN p
                                    ELSE IF processesPerRegistrableDomain[d] \in evicted THEN None
                                    ELSE processesPerRegistrableDomain[d]]
      PROVE  /\ capacity # 0
             /\ LET others == Cached \ {processesPerRegistrableDomain[domain[p]]} IN
                    /\ Cached' \subseteq (others \ evicted) \cup {p}
                    /\ Cardinality(evicted \cap others) =
                           IF Cardinality(others) >= capacity THEN Cardinality(others) - capacity + 1 ELSE 0
  <2> DEFINE others == Cached \ {processesPerRegistrableDomain[domain[p]]}
  <2>1. domain[p] \in Domains /\ capacity # 0
    BY <1>3, Zenon DEF CanCacheProcess
  <2>2. /\ processesPerRegistrableDomain'[domain[p]] = p
        /\ \A d \in Domains : d # domain[p] => processesPerRegistrableDomain'[d] =
               IF processesPerRegistrableDomain[d] \in evicted THEN None
               ELSE processesPerRegistrableDomain[d]
    BY <1>3, <2>1, Zenon
  <2>3. Cached' \subseteq (others \ evicted) \cup {p}
    <3> SUFFICES ASSUME NEW d \in Domains, processesPerRegistrableDomain'[d] # None, d # domain[p]
                 PROVE  processesPerRegistrableDomain'[d] \in others \ evicted
      BY <2>2 DEF Cached
    <3>1. /\ processesPerRegistrableDomain'[d] = processesPerRegistrableDomain[d]
          /\ processesPerRegistrableDomain[d] \notin evicted
      BY <2>2, Zenon
    <3>2. processesPerRegistrableDomain[d] # processesPerRegistrableDomain[domain[p]]
      BY <2>1, <3>1 DEF CacheShape
    <3> QED BY <3>1, <3>2, Zenon DEF Cached
  <2> QED BY <1>3, <2>1, <2>3, Zenon DEF MakesRoom
<1>4. CASE \E evicted : /\ CanCacheProcess(p) /\ MakesRoom(p, evicted)
                        /\ processesPerRegistrableDomain' =
                               [d \in Domains |-> IF d = domain[p] THEN p
                                                  ELSE IF processesPerRegistrableDomain[d] \in evicted
                                                  THEN None ELSE processesPerRegistrableDomain[d]]
  <2>1. Cached \ {processesPerRegistrableDomain[domain[p]]} \in SUBSET Cached
    BY Zenon
  <2> QED BY <1>1, <1>3, <1>4, <2>1, Zenon
<1> QED BY <1>2, <1>4, Zenon DEF DidReceiveMainThreadPing, cacheVars

\* As many are left as the capacity allows.
LEMMA RoomIsEnough ==
    ASSUME NEW others, IsFiniteSet(others), NEW evicted, NEW c \in Nat \ {0},
           Cardinality(evicted \cap others) =
               IF Cardinality(others) >= c THEN Cardinality(others) - c + 1 ELSE 0,
           NEW p, NEW T \in SUBSET ((others \ evicted) \cup {p})
    PROVE  IsFiniteSet(T) /\ Cardinality(T) <= c
<1> DEFINE S == others \ evicted
<1>1. IsFiniteSet(S) /\ Cardinality(S) = Cardinality(others) - Cardinality(others \cap evicted)
  BY FS_Difference, Zenon
<1>2. others \cap evicted = evicted \cap others
  BY Zenon
<1>3. T \in SUBSET (S \cup {p})
  BY Zenon
<1> HIDE DEF S
<1>4. Cardinality(others) \in Nat /\ Cardinality(S) \in Nat
  BY <1>1, FS_CardinalityType, Zenon
<1>5. Cardinality(S) <= c - 1
  <2>1. ASSUME NEW n \in Nat, NEW e, e = IF n >= c THEN n - c + 1 ELSE 0
        PROVE  n - e <= c - 1
    BY <2>1
  <2> QED BY <1>1, <1>2, <1>4, <2>1, Zenon
<1>6. /\ IsFiniteSet(S \cup {p})
      /\ Cardinality(S \cup {p}) = IF p \in S THEN Cardinality(S) ELSE Cardinality(S) + 1
  BY <1>1, FS_AddElement, Zenon
<1>7. IsFiniteSet(T) /\ Cardinality(T) <= Cardinality(S \cup {p})
  BY <1>3, <1>6, FS_Subset
<1>8. Cardinality(T) \in Nat /\ Cardinality(S \cup {p}) \in Nat
  BY <1>6, <1>7, FS_CardinalityType
<1> QED BY <1>4, <1>5, <1>6, <1>7, <1>8

\* The count of cached processes means something only if there are finitely many.
CapacityInv ==
    /\ capacity \in {0, Capacity}
    /\ IsFiniteSet(Cached)
    /\ CacheWithinCapacity

\* The capacity is kept by every step: others are evicted for the process that
\* is added, and there are none when the capacity changes.
LEMMA CapacityStep ==
    ASSUME CacheShape, CapacityInv, [Next]_vars
    PROVE  CapacityInv'
<1>1. capacity \in Nat /\ Cardinality(Cached) \in Nat /\ IsFiniteSet(Cached)
  BY FS_CardinalityType, CacheAssumption DEF CapacityInv
<1>2. CASE Cached' \subseteq Cached /\ UNCHANGED capacity
  <2>1. IsFiniteSet(Cached') /\ Cardinality(Cached') <= Cardinality(Cached)
    BY <1>1, <1>2, FS_Subset
  <2>2. Cardinality(Cached') \in Nat
    BY <2>1, FS_CardinalityType
  <2> QED BY <1>1, <1>2, <2>1, <2>2 DEF CapacityInv, CacheWithinCapacity
<1>3. ASSUME NEW p \in Processes, DidReceiveMainThreadPing(p)
      PROVE  CapacityInv'
  <2>1. CASE UNCHANGED Cached
    BY <1>2, <1>3, <2>1, PingMakesRoom
  <2> DEFINE Room(others, evicted) ==
                 /\ capacity # 0
                 /\ Cached' \subseteq (others \ evicted) \cup {p}
                 /\ Cardinality(evicted \cap others) =
                        IF Cardinality(others) >= capacity THEN Cardinality(others) - capacity + 1 ELSE 0
  <2>2. ASSUME NEW others \in SUBSET Cached, NEW evicted, Room(others, evicted)
        PROVE  CapacityInv'
    <3>1. IsFiniteSet(others)
      BY <1>1, FS_Subset, Zenon
    <3>2. capacity \in Nat \ {0} /\ Cached' \in SUBSET ((others \ evicted) \cup {p})
      BY <1>1, <2>2, Zenon
    <3>3. IsFiniteSet(Cached') /\ Cardinality(Cached') <= capacity
      BY <2>2, <3>1, <3>2, RoomIsEnough, Zenon
    <3>4. capacity' = capacity
      BY <1>3, PingMakesRoom, Zenon
    <3> QED BY <3>3, <3>4, Zenon DEF CapacityInv, CacheWithinCapacity
  <2>3. UNCHANGED Cached \/ \E others \in SUBSET Cached : \E evicted : Room(others, evicted)
    BY <1>3, PingMakesRoom, Zenon
  <2> HIDE DEF Room
  <2> QED BY <2>1, <2>2, <2>3, Zenon
<1>4. CASE UpdateCapacity
  <2>1. /\ capacity' \in {0, Capacity} \ {capacity}
        /\ CacheChange({}, IF capacity' = 0 THEN isInProcessCache ELSE {}, {})
    BY <1>4, Zenon DEF UpdateCapacity, Evict
  <2>2. Cached' = {}
    <3>1. CASE capacity' = 0
      <4>1. \A d \in Domains : processesPerRegistrableDomain'[d] = None
        BY <2>1, <3>1, Zenon DEF CacheChange, CacheShape
      <4> QED BY <4>1, Zenon DEF Cached
    <3>2. CASE capacity' # 0
      <4>1. capacity = 0
        BY <2>1, <3>2, Zenon DEF CapacityInv
      <4>2. IsFiniteSet(Cached) /\ Cardinality(Cached) = 0
        BY <1>1, <4>1 DEF CapacityInv, CacheWithinCapacity
      <4>3. Cached = {}
        BY <4>2, FS_EmptySet, Zenon
      <4>4. Cached' \subseteq Cached
        BY <2>1, Zenon DEF CacheChange, Cached
      <4> QED BY <4>3, <4>4, Zenon
    <3> QED BY <3>1, <3>2, Zenon
  <2>3. IsFiniteSet(Cached') /\ Cardinality(Cached') = 0
    BY <2>2, FS_EmptySet, Zenon
  <2> QED BY <2>1, <2>3, CacheAssumption DEF CapacityInv, CacheWithinCapacity
<1> QED BY <1>2, <1>3, <1>4, OnlyPingsFillTheCache, Zenon

\* For any capacity and any number of domains, the processes that have been
\* checked are never more than the capacity: addProcess evicts enough of them,
\* and updateCapacity leaves none when it sets the capacity to 0.
THEOREM CacheStaysWithinCapacity == Spec => []CacheWithinCapacity
<1>1. Init => CapacityInv
  <2> SUFFICES ASSUME Init PROVE CapacityInv
    BY Zenon
  <2>1. Cached = {}
    BY Zenon DEF Init, Cached
  <2> QED BY <2>1, FS_EmptySet, CacheAssumption DEF Init, CapacityInv, CacheWithinCapacity
<1>2. FullInv /\ CapacityInv /\ [Next]_vars => CapacityInv'
  BY CapacityStep, Zenon DEF FullInv
<1>3. CapacityInv => CacheWithinCapacity
  BY Zenon DEF CapacityInv
<1> QED BY <1>1, <1>2, <1>3, FullInvariance, PTL DEF Spec

\* A set without two different elements has none or one.
LEMMA AtMostOne ==
    ASSUME NEW S, \A x, y \in S : x = y
    PROVE  Cardinality(S) = IF S = {} THEN 0 ELSE 1
<1>1. CASE S = {}
  BY <1>1, FS_EmptySet
<1>2. ASSUME NEW x \in S
      PROVE  Cardinality(S) = 1
  <2>1. S = {x}
    BY <1>2, Zenon
  <2> QED BY <2>1, FS_Singleton, Zenon
<1> QED BY <1>1, <1>2

\* For any number of processes and domains, a process with m_isInProcessCache
\* set is in exactly one place of the cache and any other process in none, and
\* the process under a domain is one of that domain.
THEOREM CacheAgreesWithProxies == Spec => []CacheMatchesProxies
<1>1. IInv /\ FullInv => CacheMatchesProxies
  <2> SUFFICES ASSUME IInv, FullInv
               PROVE  CacheMatchesProxies
    BY Zenon
  <2>1. ASSUME NEW p \in Processes
        PROVE  Cardinality({r \in pendingAddRequests : r[1] = p})
                 + Cardinality({d \in Domains : processesPerRegistrableDomain[d] = p})
               = IF p \in isInProcessCache THEN 1 ELSE 0
    <3> DEFINE R == {r \in pendingAddRequests : r[1] = p}
               D == {d \in Domains : processesPerRegistrableDomain[d] = p}
    <3>1. p # None
      BY CacheAssumption, Zenon
    <3>2. /\ R # {} => p \in isInProcessCache /\ D = {}
          /\ D # {} => p \in isInProcessCache
          /\ p \in isInProcessCache => R # {} \/ D # {}
      BY <3>1 DEF FullInv, CacheShape
    <3>3. \A r, q \in R : r = q
      BY DEF FullInv, CacheShape
    <3>4. \A c, d \in D : c = d
      BY <3>1 DEF FullInv, CacheShape
    <3> HIDE DEF R, D
    <3>5. Cardinality(R) = IF R = {} THEN 0 ELSE 1
      BY <3>3, AtMostOne, Zenon
    <3>6. Cardinality(D) = IF D = {} THEN 0 ELSE 1
      BY <3>4, AtMostOne
    <3>7. Cardinality(R) + Cardinality(D) = IF p \in isInProcessCache THEN 1 ELSE 0
      BY <3>2, <3>5, <3>6
    <3> QED BY <3>7, Zenon DEF R, D
  <2>2. \A d \in Domains : processesPerRegistrableDomain[d] # None =>
            domain[processesPerRegistrableDomain[d]] = d
    BY Zenon DEF FullInv, CacheShape
  <2> QED BY <2>1, <2>2, Zenon DEF CacheMatchesProxies
<1> QED BY <1>1, FullInvariance, PTL

=============================================================================
