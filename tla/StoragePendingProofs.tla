----------------------- MODULE StoragePendingProofs ------------------------
(***************************************************************************)
(* The changes of a web process that wait for their acknowledgement: the   *)
(* counts of StorageAreaMap are those of the messages on their way.  Then  *)
(* the theorems about the copies that web processes keep of an area.       *)
(***************************************************************************)
EXTENDS StorageAreaMapProofs, StorageCopiesProofs, FiniteSetTheorems

\* Counting messages.
LEMMA CountFacts ==
    ASSUME NEW S, NEW s \in Seq(S), NEW M
    PROVE  /\ IsFiniteSet(Places(s, M)) /\ Count(s, M) \in Nat
           /\ Count(s, M) = 0 <=> Places(s, M) = {}
<1>1. Len(s) \in Nat /\ DOMAIN s = 1..Len(s)
  OBVIOUS
<1>2. IsFiniteSet(1..Len(s))
  BY <1>1, FS_Interval
<1>3. Places(s, M) \subseteq 1..Len(s)
  BY <1>1 DEF Places
<1>4. IsFiniteSet(Places(s, M))
  BY <1>2, <1>3, FS_Subset, SMTT(20)
<1> QED
  BY <1>4, FS_CardinalityType, FS_EmptySet, SMTT(20) DEF Count

\* A message added counts if it is of the kind, ...
LEMMA CountGrows ==
    ASSUME NEW S, NEW s \in Seq(S), NEW e, NEW M
    PROVE  Count(Append(s, e), M) = Count(s, M) + (IF e \in M THEN 1 ELSE 0)
<1> DEFINE t == Append(s, e)
<1>1. /\ Len(t) = Len(s) + 1 /\ Len(s) \in Nat /\ t[Len(s) + 1] = e
      /\ \A i \in 1..Len(s) : t[i] = s[i]
  BY QueueGrows
<1>2. DOMAIN s = 1..Len(s) /\ DOMAIN t = 1..Len(s) + 1
  BY <1>1
<1>3. DOMAIN t = DOMAIN s \cup {Len(s) + 1} /\ Len(s) + 1 \notin DOMAIN s
  BY <1>1, <1>2
<1> HIDE DEF t
<1>4. CASE e \in M
  <2>1. Places(t, M) = Places(s, M) \cup {Len(s) + 1} /\ Len(s) + 1 \notin Places(s, M)
    BY <1>1, <1>2, <1>3, <1>4, SMTT(20) DEF Places
  <2>2. Cardinality(Places(s, M) \cup {Len(s) + 1}) = Cardinality(Places(s, M)) + 1
    BY <2>1, CountFacts, FS_AddElement, ZenonT(30)
  <2> QED
    BY <1>4, <2>1, <2>2, SMTT(20) DEF Count, t
<1>5. CASE e \notin M
  <2>1. Places(t, M) = Places(s, M)
    BY <1>1, <1>2, <1>3, <1>5, SMTT(20) DEF Places
  <2> QED
    BY <1>5, <2>1, CountFacts, SMTT(20) DEF Count, t
<1> QED
  BY <1>4, <1>5

\* ... and so does one taken away.
LEMMA CountShrinks ==
    ASSUME NEW S, NEW s \in Seq(S), s # <<>>, NEW M
    PROVE  Count(s, M) = Count(Tail(s), M) + (IF Head(s) \in M THEN 1 ELSE 0)
<1> DEFINE t == Tail(s)
           A == Places(t, M)
           B == Places(s, M) \ {1}
<1>1. /\ Len(t) = Len(s) - 1 /\ Len(s) \in Nat \ {0} /\ Head(s) = s[1] /\ t \in Seq(S)
      /\ \A i \in 1..Len(s) - 1 : t[i] = s[i + 1]
  BY QueueShrinks
<1>2. DOMAIN s = 1..Len(s) /\ DOMAIN t = 1..Len(s) - 1
  BY <1>1
<1> HIDE DEF t
<1>3. /\ \A i \in A : i \in Nat /\ i + 1 \in B
      /\ \A j \in B : j \in Nat /\ j - 1 \in A
  BY <1>1, <1>2, SMTT(20) DEF Places
<1>4. IsFiniteSet(A) /\ IsFiniteSet(Places(s, M))
  BY <1>1, CountFacts
<1> HIDE DEF A, B
<1>5. Cardinality(A) = Cardinality(B)
  <2> DEFINE f == [i \in A |-> i + 1]
  <2>1. f \in Bijection(A, B)
    <3>1. f \in [A -> B] /\ \A i \in A : f[i] = i + 1
      BY <1>3
    <3>2. \A i, j \in A : f[i] = f[j] => i = j
      BY <1>3, <3>1
    <3>3. \A j \in B : \E i \in A : f[i] = j
      <4>1. SUFFICES ASSUME NEW j \in B
                     PROVE  f[j - 1] = j /\ j - 1 \in A
        BY Zenon
      <4> QED
        BY <1>3, <3>1, SMTT(20)
    <3> HIDE DEF f
    <3> QED
      BY <3>1, <3>2, <3>3, ZenonT(30) DEF Bijection, Injection, Surjection, IsInjective
  <2>2. ExistsBijection(A, B)
    BY <2>1 DEF ExistsBijection
  <2> QED
    BY <1>4, <2>2, FS_Bijection, SMTT(20)
<1>6. CASE Head(s) \in M
  <2>1. 1 \in Places(s, M)
    BY <1>1, <1>2, <1>6, SMTT(20) DEF Places
  <2>2. Cardinality(B) = Cardinality(Places(s, M)) - 1
    BY <1>4, <2>1, FS_RemoveElement, ZenonT(30) DEF B
  <2> QED
    BY <1>4, <1>5, <1>6, <2>2, FS_CardinalityType, SMTT(20) DEF Count, A, t
<1>7. CASE Head(s) \notin M
  <2>1. B = Places(s, M)
    BY <1>1, <1>2, <1>7 DEF Places, B
  <2> QED
    BY <1>4, <1>5, <1>7, <2>1, FS_CardinalityType, SMTT(20) DEF Count, A, t
<1> QED
  BY <1>6, <1>7

\* What is owed, when a request is sent, when a message arrives or is handled, and
\* when a request is taken.
LEMMA OwedCounts ==
    ASSUME NEW R, NEW I, NEW r \in Seq(R), NEW in \in Seq(I), NEW A, NEW B
    PROVE  /\ Owed(r, in, A, B) \in Nat
           /\ \A m : Owed(Append(r, m), in, A, B) = Owed(r, in, A, B) + (IF m \in A THEN 1 ELSE 0)
           /\ \A m : Owed(r, Append(in, m), A, B) = Owed(r, in, A, B) + (IF m \in B THEN 1 ELSE 0)
           /\ r # <<>> => Owed(r, in, A, B) = Owed(Tail(r), in, A, B) + (IF Head(r) \in A THEN 1 ELSE 0)
           /\ in # <<>> => Owed(r, in, A, B) = Owed(r, Tail(in), A, B) + (IF Head(in) \in B THEN 1 ELSE 0)
<1>1. Count(r, A) \in Nat /\ Count(in, B) \in Nat
  BY CountFacts
<1>2. ASSUME NEW m
      PROVE  Owed(Append(r, m), in, A, B) = Owed(r, in, A, B) + (IF m \in A THEN 1 ELSE 0)
  <2>1. Count(Append(r, m), A) = Count(r, A) + (IF m \in A THEN 1 ELSE 0)
    BY CountGrows
  <2> QED
    BY <1>1, <2>1 DEF Owed
<1>3. ASSUME NEW m
      PROVE  Owed(r, Append(in, m), A, B) = Owed(r, in, A, B) + (IF m \in B THEN 1 ELSE 0)
  <2>1. Count(Append(in, m), B) = Count(in, B) + (IF m \in B THEN 1 ELSE 0)
    BY CountGrows
  <2> QED
    BY <1>1, <2>1 DEF Owed
<1>4. ASSUME r # <<>>
      PROVE  Owed(r, in, A, B) = Owed(Tail(r), in, A, B) + (IF Head(r) \in A THEN 1 ELSE 0)
  <2>1. Count(r, A) = Count(Tail(r), A) + (IF Head(r) \in A THEN 1 ELSE 0)
    BY <1>4, CountShrinks
  <2>2. Count(Tail(r), A) \in Nat
    BY <1>4, QueueShrinks, CountFacts, ZenonT(30)
  <2> QED
    BY <1>1, <2>1, <2>2, SMTT(20) DEF Owed
<1>5. ASSUME in # <<>>
      PROVE  Owed(r, in, A, B) = Owed(r, Tail(in), A, B) + (IF Head(in) \in B THEN 1 ELSE 0)
  <2>1. Count(in, B) = Count(Tail(in), B) + (IF Head(in) \in B THEN 1 ELSE 0)
    BY <1>5, CountShrinks
  <2>2. Count(Tail(in), B) \in Nat
    BY <1>5, QueueShrinks, CountFacts, ZenonT(30)
  <2> QED
    BY <1>1, <2>1, <2>2, SMTT(20) DEF Owed
<1>6. Owed(r, in, A, B) \in Nat
  BY <1>1 DEF Owed
<1> QED
  BY <1>2, <1>3, <1>4, <1>5, <1>6, SMTT(20)

\* The requests and replies of a process are such queues.
LEMMA OwedFactsHold == OwedFacts
<1>1. SUFFICES ASSUME NEW r \in Seq(Requests), NEW in \in Seq(Replies), NEW A, NEW B
               PROVE  OwedRule(r, in, A, B)
  BY Zenon DEF OwedFacts
<1> QED
  BY OwedCounts DEF OwedRule

\* A process that starts awaits nothing.
LEMMA AwaitStarts ==
    ASSUME NEW p \in Processes, Starts(p)
    PROVE  AwaitInv(p)
<1>1. /\ pendingValueChanges[p] = NonePending /\ hasPendingClear[p] = FALSE /\ incoming[p] = <<>>
      /\ requests[p] = <<>> \/ requests[p] = <<[name |-> "Connect"]>>
  BY DEF Starts, NoCopy, Linked, Unconnected
<1>2. \A M : Places(<<>>, M) = {}
  BY DEF Places
<1>3. ASSUME NEW M, [name |-> "Connect"] \notin M
      PROVE  Places(<<[name |-> "Connect"]>>, M) = {}
  BY <1>3 DEF Places
<1>4. /\ \A seed, k : [name |-> "Connect"] \notin ItemRequests(seed, k)
      /\ \A seed : [name |-> "Connect"] \notin ClearRequests(seed)
  BY Zenon DEF ItemRequests, ClearRequests
<1>5. Cardinality({}) = 0
  BY FS_EmptySet
<1>6. /\ \A seed, k : Count(requests[p], ItemRequests(seed, k)) = 0
      /\ \A seed : Count(requests[p], ClearRequests(seed)) = 0
      /\ \A M : Count(incoming[p], M) = 0
  BY <1>1, <1>2, <1>3, <1>4, <1>5, ZenonT(30) DEF Count
<1> QED
  BY <1>1, <1>6 DEF AwaitInv, ItemsAwaited, ClearAwaited, Owed, NonePending

\* The invariant, restated as the assertions of didSetItem, didRemoveItem and didClear need it.
LEMMA AwaitedAsStated ==
    ASSUME LinkInv, \A p \in Processes : AwaitInv(p)
    PROVE  PendingChangesAreAwaited
<1>1. SUFFICES ASSUME NEW p \in Processes
               PROVE  /\ LET m == UnderWay(p, {"SetItem", "RemoveItem", "DidSetItem", "DidRemoveItem"}) IN
                         \A k \in Keys :
                             pendingValueChanges[p][k] = Cardinality({i \in m.sent : requests[p][i].key = k})
                                                       + Cardinality({i \in m.acknowledged : incoming[p][i].key = k})
                      /\ LET m == UnderWay(p, {"Clear", "DidClear"}) IN
                         hasPendingClear[p] = (m.sent \cup m.acknowledged # {})
  BY DEF PendingChangesAreAwaited
<1>2. currentSeed[p] \in Nat /\ requests[p] \in Seq(Requests) /\ incoming[p] \in Seq(Replies)
      /\ hasPendingClear[p] \in BOOLEAN
  BY LinkFacts DEF TypesOf
<1>3. \A k \in Keys : pendingValueChanges[p][k] = Cardinality(Places(requests[p], ItemRequests(currentSeed[p], k)))
                                                + Cardinality(Places(incoming[p], ItemReplies(currentSeed[p], k)))
  BY <1>2 DEF AwaitInv, ItemsAwaited, Owed, Count
<1>4. hasPendingClear[p] = TRUE <=> \/ Places(requests[p], ClearRequests(currentSeed[p])) # {}
                                    \/ Places(incoming[p], ClearReplies(currentSeed[p])) # {}
  <2>1. Count(requests[p], ClearRequests(currentSeed[p])) + Count(incoming[p], ClearReplies(currentSeed[p]))
        = IF hasPendingClear[p] = TRUE THEN 1 ELSE 0
    BY <1>2 DEF AwaitInv, ClearAwaited, Owed
  <2>2. /\ Count(requests[p], ClearRequests(currentSeed[p])) \in Nat
        /\ Count(requests[p], ClearRequests(currentSeed[p])) = 0
           <=> Places(requests[p], ClearRequests(currentSeed[p])) = {}
    BY <1>2, CountFacts, SMTT(20)
  <2>3. /\ Count(incoming[p], ClearReplies(currentSeed[p])) \in Nat
        /\ Count(incoming[p], ClearReplies(currentSeed[p])) = 0
           <=> Places(incoming[p], ClearReplies(currentSeed[p])) = {}
    BY <1>2, CountFacts
  <2> QED
    BY <2>1, <2>2, <2>3, SMTT(20)
<1>5. LET m == UnderWay(p, {"SetItem", "RemoveItem", "DidSetItem", "DidRemoveItem"}) IN
      \A k \in Keys :
          pendingValueChanges[p][k] = Cardinality({i \in m.sent : requests[p][i].key = k})
                                    + Cardinality({i \in m.acknowledged : incoming[p][i].key = k})
  BY <1>3, UnderWayIsOwed, ZenonT(30)
<1>6. LET m == UnderWay(p, {"Clear", "DidClear"}) IN
      hasPendingClear[p] = (m.sent \cup m.acknowledged # {})
  <2> DEFINE m == UnderWay(p, {"Clear", "DidClear"})
  <2>1. /\ m.sent = Places(requests[p], ClearRequests(currentSeed[p]))
        /\ m.acknowledged = Places(incoming[p], ClearReplies(currentSeed[p]))
    BY UnderWayIsOwed
  <2> HIDE DEF m
  <2>2. hasPendingClear[p] = TRUE <=> m.sent \cup m.acknowledged # {}
    BY <1>4, <2>1, SMTT(20)
  <2>3. hasPendingClear[p] = (m.sent \cup m.acknowledged # {})
    BY <1>2, <2>2
  <2> QED
    BY <2>3 DEF m
<1> QED
  BY <1>5, <1>6

-----------------------------------------------------------------------------
(* The theorems *)

\* LinkInv is inductive.
LEMMA LinkInvStep ==
    ASSUME LinkInv, Undisturbed, [Next]_vars
    PROVE  LinkInv'
<1>1. LinkTypeOK'
  BY LinkTypeOKStep DEF LinkInv
<1>2. ItemsOK'
  BY NextIsTask, ItemsStayOK DEF LinkInv
<1>3. ASSUME NEW p \in Processes
      PROVE  TypesOf(p)' /\ Linked(p)'
  BY <1>2, <1>3, NextOutcome, TypesStay, LinkStays, SMTT(20)
<1> QED
  BY <1>1, <1>2, <1>3, ArraysStay, AreaStays, ZenonT(30) DEF LinkInv

\* For any number of web processes, keys and values: when everything sent has
\* arrived, the copy of a process that only reads, and that of the only process
\* that writes, is the map of the network process (ensureMap, applyChange,
\* dispatchEvents), as long as no StorageAreaMap is destroyed and made again, no
\* session is removed and the network process does not crash.
THEOREM CopiesAgree ==
    ASSUME Undisturbed
    PROVE  Spec => []ReadersAgree
<1>1. Init => LinkInv /\ CopiesInv
  <2>1. SUFFICES ASSUME Init
                 PROVE  LinkInv /\ CopiesInv
    BY Zenon
  <2>2. LinkInv /\ \A p \in Processes : Starts(p)
    BY <2>1, LinkInvStarts, SMTT(20)
  <2> QED
    BY <2>2, StartIsFine, SMTT(20) DEF CopiesInv
<1>2. LinkInv /\ CopiesInv /\ [Next]_vars => LinkInv' /\ CopiesInv'
  <2>1. SUFFICES ASSUME LinkInv, CopiesInv, [Next]_vars
                 PROVE  LinkInv' /\ CopiesInv'
    BY Zenon
  <2>2. LinkInv'
    BY <2>1, LinkInvStep
  <2>3. ASSUME NEW p \in Processes
        PROVE  (p \notin Writers => ReaderInv(p)') /\ (Writers = {p} => WriterInv(p)')
    <3>1. Outcome(p)
      BY <2>1, NextOutcome
    <3> QED
      BY <2>1, <3>1, ReaderStep, WriterStays, SMTT(20) DEF CopiesInv
  <2> QED
    BY <2>2, <2>3 DEF CopiesInv
<1> QED
  BY <1>1, <1>2, CopiesAgreeAtRest, PTL DEF Spec

\* Under the same assumption, a key is pending exactly as often as an
\* acknowledgement of a change with the current seed is to come, and a clear
\* exactly while its acknowledgement is: the counts that shouldApplyChangeForKey
\* relies on are right, for any number of processes, keys, values and changes.
THEOREM PendingsAreAwaited ==
    ASSUME Undisturbed
    PROVE  Spec => []PendingChangesAreAwaited
<1> DEFINE Inv == LinkInv /\ \A p \in Processes : AwaitInv(p)
<1>1. Init => Inv
  BY LinkInvStarts, AwaitStarts, SMTT(20)
<1>2. Inv /\ [Next]_vars => Inv'
  <2>1. SUFFICES ASSUME LinkInv, \A p \in Processes : AwaitInv(p), [Next]_vars
                 PROVE  LinkInv' /\ \A p \in Processes : AwaitInv(p)'
    BY Zenon
  <2>2. LinkInv'
    BY <2>1, LinkInvStep
  <2>3. ASSUME NEW p \in Processes
        PROVE  Starts(p)' \/ (Stays(p) /\ LocalStep(p))
    BY <2>1, NextOutcome, Zenon DEF Outcome
  <2>4. ASSUME NEW p \in Processes
        PROVE  AwaitInv(p)'
    <3>1. CASE Starts(p)'
      BY <3>1, AwaitStarts, PTL
    <3>2. CASE Stays(p) /\ LocalStep(p)
      BY <2>1, <3>2, OwedFactsHold, AwaitStays, ZenonT(30)
    <3> QED
      BY <2>3, <3>1, <3>2, ZenonT(30)
  <2> QED
    BY <2>1, <2>2, <2>4, SMTT(20)
<1>3. Inv => PendingChangesAreAwaited
  BY AwaitedAsStated
<1> QED
  BY <1>1, <1>2, <1>3, PTL DEF Spec

=============================================================================
