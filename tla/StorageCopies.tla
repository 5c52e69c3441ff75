---------------------------- MODULE StorageCopies ----------------------------
(***************************************************************************)
(* What the proofs about StorageAreaMap say of one web process: its link   *)
(* to the area, and what a step of StorageAreaMap may be to it (LocalStep). *)
(* StorageAreaMapProofs shows that every step is of that form for every    *)
(* process, StorageCopiesProofs and StoragePendingProofs what follows.     *)
(***************************************************************************)
EXTENDS StorageAreaMap

\* The messages of a web process, and what their fields are taken from.
Requests ==
    [name : {"Connect"}]
    \cup [name : {"GetValues", "Disconnect"}, area : Nat]
    \cup [name : {"Clear"}, area : Nat, seed : Nat]
    \cup [name : {"RemoveItem"}, area : Nat, seed : Nat, key : Keys]
    \cup [name : {"SetItem"}, area : Nat, seed : Nat, key : Keys, value : Values]

\* The handlers trust a message to name an item.
LinkTypeOK ==
    /\ areaID \in Nat
    /\ lastAreaID \in Nat
    /\ mapID \in [Processes -> Nat]
    /\ currentSeed \in [Processes -> Nat]
    /\ requests \in [Processes -> Seq(Requests)]

\* The messages of the network process.
Events ==
    [name : {"DispatchStorageEvent"}, area : Nat, own : BOOLEAN, key : Keys, value : Values \cup {Null}]
    \cup [name : {"DispatchStorageEvent"}, area : Nat, own : BOOLEAN, key : {AllKeys}, value : {Null}]
    \cup [name : {"ClearCache"}, area : Nat]

Replies ==
    Events
    \cup [name : {"DidSetItem"}, area : Nat, seed : Nat, key : Keys, quotaError : BOOLEAN]
    \cup [name : {"DidRemoveItem"}, area : Nat, seed : Nat, key : Keys]
    \cup [name : {"DidClear"}, area : Nat, seed : Nat]

(***************************************************************************)
(* The link: a process that is not connected has no copy and no messages,  *)
(* and one that is has a copy of the area that exists.                     *)
(***************************************************************************)

IsArray(f) == DOMAIN f = Processes /\ f = [p \in Processes |-> f[p]]

Arrays ==
    /\ IsArray(map) /\ IsArray(pendingValueChanges) /\ IsArray(hasPendingClear)
    /\ IsArray(waitingFor) /\ IsArray(connection) /\ IsArray(incoming) /\ IsArray(mainRunLoop)

TypesOf(p) ==
    /\ map[p] \in Maps \cup {Null}
    /\ pendingValueChanges[p] \in [Keys -> Nat]
    /\ hasPendingClear[p] \in BOOLEAN
    /\ waitingFor[p] \in {"nothing", "connect", "getValues"}
    /\ connection[p] \in {"none", "open"}
    /\ incoming[p] \in Seq(Replies)
    /\ mainRunLoop[p] \in Seq(Events)

NoCopy(p) ==
    /\ map[p] = Null
    /\ pendingValueChanges[p] = NonePending
    /\ hasPendingClear[p] = FALSE
    /\ incoming[p] = <<>>
    /\ mainRunLoop[p] = <<>>

Unconnected(p) ==
    /\ p \notin listeners
    /\ NoCopy(p)
    /\ \/ waitingFor[p] = "nothing" /\ connection[p] \in {"none", "open"} /\ requests[p] = <<>>
       \/ waitingFor[p] = "connect" /\ connection[p] = "open" /\ requests[p] = <<[name |-> "Connect"]>>

\* A process that waits for GetValues has sent nothing after it; only writers
\* send anything else.
RequestsOf(p) ==
    \A i \in 1..Len(requests[p]) :
        /\ requests[p][i].name \in {"GetValues", "SetItem", "RemoveItem", "Clear"}
        /\ requests[p][i].area = mapID[p]
        /\ requests[p][i].name = "GetValues" => i = Len(requests[p]) /\ waitingFor[p] = "getValues"
        /\ p \notin Writers => requests[p][i].name = "GetValues"

RepliesTo(p) ==
    /\ \A i \in 1..Len(incoming[p]) : incoming[p][i].area = mapID[p]
    /\ \A i \in 1..Len(mainRunLoop[p]) : mainRunLoop[p][i].area = mapID[p]

Connected(p) ==
    /\ p \in listeners /\ areaID = mapID[p] /\ connection[p] = "open"
    /\ waitingFor[p] = "nothing" \/ (waitingFor[p] = "getValues" /\ map[p] = Null)
    /\ RequestsOf(p)
    /\ RepliesTo(p)

Linked(p) == IF mapID[p] = 0 THEN Unconnected(p) ELSE Connected(p)

ItemsOK ==
    /\ items \in Maps
    /\ file \in Maps
    /\ changedItems \in [Keys -> Values \cup {Null, NoChange}]

LinkInv ==
    /\ LinkTypeOK
    /\ ItemsOK
    /\ Arrays
    /\ listeners \subseteq Processes
    /\ sessionExists = TRUE
    /\ \A p \in Processes : TypesOf(p) /\ Linked(p)

-----------------------------------------------------------------------------
(* What a step is to one process *)

KeepsCopy(p) ==
    /\ map'[p] = map[p]
    /\ pendingValueChanges'[p] = pendingValueChanges[p]
    /\ hasPendingClear'[p] = hasPendingClear[p]
    /\ currentSeed'[p] = currentSeed[p]

KeepsLink(p) ==
    /\ mapID'[p] = mapID[p]
    /\ waitingFor'[p] = waitingFor[p]
    /\ connection'[p] = connection[p]

Untouched(p) == KeepsCopy(p) /\ KeepsLink(p) /\ requests'[p] = requests[p] /\ incoming'[p] = incoming[p]

\* Nothing happens to it.
Rests(p) == Untouched(p) /\ mainRunLoop'[p] = mainRunLoop[p] /\ items' = items

\* ensureMap asks for the items, and gets them.
LoadsCopy(p) ==
    /\ waitingFor[p] = "nothing" /\ waitingFor'[p] = "getValues"
    /\ map[p] = Null
    /\ requests'[p] = Append(requests[p], [name |-> "GetValues", area |-> mapID[p]])
    /\ KeepsCopy(p) /\ incoming'[p] = incoming[p] /\ mainRunLoop'[p] = mainRunLoop[p] /\ items' = items

GetsCopy(p) ==
    /\ requests[p] # <<>> /\ Head(requests[p]).name = "GetValues" /\ requests'[p] = Tail(requests[p])
    /\ waitingFor'[p] = "nothing"
    /\ map'[p] = items
    /\ pendingValueChanges'[p] = pendingValueChanges[p]
    /\ hasPendingClear'[p] = hasPendingClear[p]
    /\ currentSeed'[p] = currentSeed[p]
    /\ incoming'[p] = incoming[p] /\ mainRunLoop'[p] = mainRunLoop[p] /\ items' = items

\* A script changes an item or all of them.
ChangesCopy(p, k, v, m) ==
    /\ p \in Writers /\ waitingFor[p] = "nothing" /\ waitingFor'[p] = "nothing"
    /\ map[p] # Null
    /\ map'[p] = [map[p] EXCEPT ![k] = v]
    /\ pendingValueChanges'[p] = [pendingValueChanges[p] EXCEPT ![k] = pendingValueChanges[p][k] + 1]
    /\ hasPendingClear'[p] = hasPendingClear[p]
    /\ currentSeed'[p] = currentSeed[p]
    /\ requests'[p] = Append(requests[p], m)
    /\ incoming'[p] = incoming[p] /\ mainRunLoop'[p] = mainRunLoop[p] /\ items' = items

SetRequest(p, k, v) ==
    [name |-> "SetItem", area |-> mapID[p], seed |-> currentSeed[p], key |-> k, value |-> v]
RemoveRequest(p, k) ==
    [name |-> "RemoveItem", area |-> mapID[p], seed |-> currentSeed[p], key |-> k]

ChangesOneItem(p) ==
    \E k \in Keys : \/ \E v \in Values : ChangesCopy(p, k, v, SetRequest(p, k, v))
                    \/ ChangesCopy(p, k, Null, RemoveRequest(p, k))

ClearsCopy(p) ==
    /\ p \in Writers /\ waitingFor[p] = "nothing" /\ waitingFor'[p] = "nothing"
    /\ map'[p] = Empty
    /\ pendingValueChanges'[p] = NonePending
    /\ hasPendingClear'[p] = TRUE
    /\ currentSeed'[p] = currentSeed[p] + 1
    /\ requests'[p] = Append(requests[p], [name |-> "Clear", area |-> mapID[p], seed |-> currentSeed[p] + 1])
    /\ incoming'[p] = incoming[p] /\ mainRunLoop'[p] = mainRunLoop[p] /\ items' = items

\* It handles a message of the network process.
Resets(p, m) ==
    /\ \/ m.name = "ClearCache"
       \/ m.name = "DidSetItem" /\ m.seed = currentSeed[p] /\ m.quotaError
    /\ map'[p] = Null
    /\ pendingValueChanges'[p] = NonePending
    /\ hasPendingClear'[p] = FALSE
    /\ currentSeed'[p] = currentSeed[p] + 1

Ignores(p, m) ==
    /\ \/ m.name \in {"DidSetItem", "DidRemoveItem", "DidClear"} /\ m.seed # currentSeed[p]
       \/ m.name = "DispatchStorageEvent" /\ (m.own \/ hasPendingClear[p])
    /\ KeepsCopy(p)

SettlesItem(p, m) ==
    /\ m.name \in {"DidSetItem", "DidRemoveItem"} /\ m.seed = currentSeed[p]
    /\ m.name = "DidSetItem" => ~m.quotaError
    /\ pendingValueChanges'[p] =
           [pendingValueChanges[p] EXCEPT ![m.key] = IF pendingValueChanges[p][m.key] = 0 THEN 0
                                                     ELSE pendingValueChanges[p][m.key] - 1]
    /\ map'[p] = map[p] /\ hasPendingClear'[p] = hasPendingClear[p] /\ currentSeed'[p] = currentSeed[p]

SettlesClear(p, m) ==
    /\ m.name = "DidClear" /\ m.seed = currentSeed[p]
    /\ hasPendingClear'[p] = FALSE
    /\ map'[p] = map[p]
    /\ pendingValueChanges'[p] = pendingValueChanges[p] /\ currentSeed'[p] = currentSeed[p]

Applies(p, m) ==
    /\ m.name = "DispatchStorageEvent" /\ ~m.own /\ ~hasPendingClear[p]
    /\ map'[p] = IF m.key = AllKeys THEN Empty
                 ELSE IF map[p] # Null /\ pendingValueChanges[p][m.key] = 0
                      THEN [map[p] EXCEPT ![m.key] = m.value] ELSE map[p]
    /\ pendingValueChanges'[p] = pendingValueChanges[p]
    /\ hasPendingClear'[p] = hasPendingClear[p] /\ currentSeed'[p] = currentSeed[p]

Handles(p, m) == Resets(p, m) \/ Ignores(p, m) \/ SettlesItem(p, m) \/ SettlesClear(p, m) \/ Applies(p, m)

Receives(p) ==
    /\ waitingFor[p] = "nothing" /\ waitingFor'[p] = "nothing"
    /\ incoming[p] # <<>> /\ incoming'[p] = Tail(incoming[p])
    /\ Handles(p, Head(incoming[p]))
    /\ requests'[p] = requests[p] /\ mainRunLoop'[p] = mainRunLoop[p] /\ items' = items

\* The area changes, and an event about it is on its way to the process.
Reports(p, own, k, v) ==
    /\ items' = IF k = AllKeys THEN Empty ELSE [items EXCEPT ![k] = v]
    /\ mainRunLoop'[p] = Append(mainRunLoop[p], Event(own, k, v))

\* A request of the process is handled, ...
IsDone(p, answer) ==
    /\ requests[p] # <<>> /\ requests'[p] = Tail(requests[p])
    /\ incoming'[p] = Append(incoming[p], answer)
    /\ KeepsCopy(p) /\ waitingFor'[p] = waitingFor[p]

SetIsDone(p, m) ==
    /\ m.name = "SetItem"
    /\ \/ /\ IsDone(p, [name |-> "DidSetItem", area |-> m.area, seed |-> m.seed, key |-> m.key, quotaError |-> TRUE])
          /\ mainRunLoop'[p] = mainRunLoop[p] /\ items' = items
       \/ /\ IsDone(p, [name |-> "DidSetItem", area |-> m.area, seed |-> m.seed, key |-> m.key, quotaError |-> FALSE])
          /\ Reports(p, TRUE, m.key, m.value)

RemoveIsDone(p, m) ==
    /\ m.name = "RemoveItem"
    /\ IsDone(p, [name |-> "DidRemoveItem", area |-> m.area, seed |-> m.seed, key |-> m.key])
    /\ \/ items[m.key] = Null /\ mainRunLoop'[p] = mainRunLoop[p] /\ items' = items
       \/ Reports(p, TRUE, m.key, Null)

ClearIsDone(p, m) ==
    /\ m.name = "Clear"
    /\ IsDone(p, [name |-> "DidClear", area |-> m.area, seed |-> m.seed])
    /\ \/ items = Empty /\ mainRunLoop'[p] = mainRunLoop[p] /\ items' = items
       \/ Reports(p, TRUE, AllKeys, Null)

RequestIsDone(p) ==
    LET m == Head(requests[p]) IN SetIsDone(p, m) \/ RemoveIsDone(p, m) \/ ClearIsDone(p, m)

\* ... or one of another process.
SeesChange(p) ==
    /\ Untouched(p)
    /\ Writers # {p}
    /\ \/ \E k \in Keys, v \in Values \cup {Null} : Reports(p, FALSE, k, v)
       \/ Reports(p, FALSE, AllKeys, Null)

IsSentEvent(p) ==
    /\ mainRunLoop[p] # <<>> /\ mainRunLoop'[p] = Tail(mainRunLoop[p])
    /\ incoming'[p] = Append(incoming[p], Head(mainRunLoop[p]))
    /\ KeepsCopy(p) /\ waitingFor'[p] = waitingFor[p] /\ requests'[p] = requests[p] /\ items' = items

SeesDeletion(p) ==
    /\ Untouched(p)
    /\ items' = Empty
    /\ mainRunLoop'[p] = Append(mainRunLoop[p], ClearCache)

LocalStep(p) ==
    \/ Rests(p) \/ LoadsCopy(p) \/ GetsCopy(p) \/ ChangesOneItem(p) \/ ClearsCopy(p)
    \/ Receives(p) \/ RequestIsDone(p) \/ SeesChange(p) \/ IsSentEvent(p) \/ SeesDeletion(p)

Stays(p) ==
    /\ mapID[p] # 0 /\ mapID'[p] = mapID[p] /\ areaID' = areaID
    /\ connection'[p] = connection[p] /\ p \in listeners'

\* A process that was just connected, or is not.
Starts(p) == Linked(p) /\ NoCopy(p) /\ (mapID[p] # 0 => requests[p] = <<>>)

Outcome(p) == Starts(p)' \/ (Stays(p) /\ LocalStep(p))

-----------------------------------------------------------------------------
(* The changes that wait for their acknowledgement *)

\* The messages about one change: the request, and the acknowledgement that comes back.
ItemRequests(seed, k) == {m \in Requests : m.name \in {"SetItem", "RemoveItem"} /\ m.seed = seed /\ m.key = k}

ItemReplies(seed, k) == {m \in Replies : m.name \in {"DidSetItem", "DidRemoveItem"} /\ m.seed = seed /\ m.key = k}

ClearRequests(seed) == {m \in Requests : m.name = "Clear" /\ m.seed = seed}

ClearReplies(seed) == {m \in Replies : m.name = "DidClear" /\ m.seed = seed}

Places(s, M) == {i \in DOMAIN s : s[i] \in M}

Count(s, M) == Cardinality(Places(s, M))

\* The acknowledgements to come, when the requests r and the messages in are on their way.
Owed(r, in, A, B) == Count(r, A) + Count(in, B)

\* With the current seed there are as many as are pending, and none has a later one.
ItemsAwaited(r, in, current, pending) ==
    \A k \in Keys, seed \in Nat :
        seed >= current => Owed(r, in, ItemRequests(seed, k), ItemReplies(seed, k))
                           = IF seed = current THEN pending[k] ELSE 0

ClearAwaited(r, in, current, pending) ==
    \A seed \in Nat :
        seed >= current => Owed(r, in, ClearRequests(seed), ClearReplies(seed))
                           = IF seed = current /\ pending = TRUE THEN 1 ELSE 0

AwaitInv(p) ==
    /\ ItemsAwaited(requests[p], incoming[p], currentSeed[p], pendingValueChanges[p])
    /\ ClearAwaited(requests[p], incoming[p], currentSeed[p], hasPendingClear[p])

\* What is owed, when a request is sent, when a message arrives or is handled, and
\* when a request is taken.
OwedRule(r, in, A, B) ==
    /\ Owed(r, in, A, B) \in Nat
    /\ \A m : Owed(Append(r, m), in, A, B) = Owed(r, in, A, B) + (IF m \in A THEN 1 ELSE 0)
    /\ \A m : Owed(r, Append(in, m), A, B) = Owed(r, in, A, B) + (IF m \in B THEN 1 ELSE 0)
    /\ r # <<>> => Owed(r, in, A, B) = Owed(Tail(r), in, A, B) + (IF Head(r) \in A THEN 1 ELSE 0)
    /\ in # <<>> => Owed(r, in, A, B) = Owed(r, Tail(in), A, B) + (IF Head(in) \in B THEN 1 ELSE 0)

OwedFacts == \A r \in Seq(Requests), in \in Seq(Replies) : \A A, B : OwedRule(r, in, A, B)

==============================================================================
