---------------------------- MODULE StorageAreaMap ----------------------------
(***************************************************************************)
(* Web storage of one origin across processes: every web process has a     *)
(* StorageAreaMap (WebProcess/WebStorage/StorageAreaMap.cpp), a copy of the *)
(* items that it changes at once and whose changes it sends to the network  *)
(* process, where the message handlers of StorageManagerSet apply them to   *)
(* the StorageArea.  Acknowledgements are sent from the work queue; events  *)
(* about the changes of other processes are sent from the main run loop.    *)
(*                                                                         *)
(* An action of a web process is one call of its main thread.  A call that  *)
(* sends a synchronous message is split where it waits for the reply        *)
(* (`waitingFor'): no message is dispatched there until the reply is in.    *)
(* Loading the copy (ensureMap) is an action of its own, which a script     *)
(* that only reads an item takes too; the other calls follow it.            *)
(***************************************************************************)
EXTENDS StorageArea

CONSTANTS
    Writers,        \* the processes whose scripts change items
    Changes,        \* the kinds of change they make, out of "set", "remove" and "clear"
    Disruptions,    \* what else happens, out of "crash", "removeSession", "delete", "destroy", "exit"
    MaxChanges,     \* bound: changes made in all
    MaxDisruptions  \* bound: disruptions in all

ASSUME MapAssumption == Writers \subseteq Processes

VARIABLES
    map,                   \* m_map, Null when it is not loaded
    pendingValueChanges,   \* m_pendingValueChanges, a count for every key
    hasPendingClear,       \* m_hasPendingClear
    currentSeed,           \* m_currentSeed
    mapID,                 \* m_mapID, 0 when not connected
    waitingFor,            \* the synchronous message whose reply the main thread waits for
    connection,            \* m_networkProcessConnection: "none", "open", or "closed" and not noticed
    requests,              \* messages to the network process
    incoming,              \* messages from the network process
    changes, disruptions   \* counters for the bounds

mapVars == <<map, pendingValueChanges, hasPendingClear, currentSeed>>
linkVars == <<mapID, waitingFor, connection>>
vars == <<areaVars, mapVars, linkVars, requests, incoming, changes, disruptions>>

NonePending == [k \in Keys |-> 0]

Init ==
    /\ AreaInit
    /\ map = [p \in Processes |-> Null]
    /\ pendingValueChanges = [p \in Processes |-> NonePending]
    /\ hasPendingClear = [p \in Processes |-> FALSE]
    /\ currentSeed = [p \in Processes |-> 0]
    /\ mapID = [p \in Processes |-> 0]
    /\ waitingFor = [p \in Processes |-> "nothing"]
    /\ connection = [p \in Processes |-> "none"]
    /\ requests = [p \in Processes |-> <<>>]
    /\ incoming = [p \in Processes |-> <<>>]
    /\ changes = 0
    /\ disruptions = 0

-----------------------------------------------------------------------------
(* Helpers *)

\* A message sent on a connection whose other end is gone is dropped.
Send(p, message) ==
    requests' = IF connection[p] = "open" THEN [requests EXCEPT ![p] = Append(@, message)]
                ELSE requests

Acknowledge(p, message) == incoming' = [incoming EXCEPT ![p] = Append(@, message)]

Change(kind) ==
    /\ kind \in Changes
    /\ changes < MaxChanges
    /\ changes' = changes + 1
    /\ UNCHANGED disruptions

Disruption(kind) ==
    /\ kind \in Disruptions
    /\ disruptions < MaxDisruptions
    /\ disruptions' = disruptions + 1
    /\ UNCHANGED changes

ResetValuesWithSeed(p, seed) ==
    /\ map' = [map EXCEPT ![p] = Null]
    /\ pendingValueChanges' = [pendingValueChanges EXCEPT ![p] = NonePending]
    /\ hasPendingClear' = [hasPendingClear EXCEPT ![p] = FALSE]
    /\ currentSeed' = [currentSeed EXCEPT ![p] = seed]

ResetValuesKeepingSeed(p) == ResetValuesWithSeed(p, currentSeed[p])

ResetValues(p) == ResetValuesWithSeed(p, currentSeed[p] + 1)

-----------------------------------------------------------------------------
(* The web process: calls from scripts *)

Runs(p) == waitingFor[p] = "nothing"

\* connect(), up to its synchronous message; a connection that was never made or
\* was seen to close is made first.
Connect(p) ==
    /\ Runs(p)
    /\ mapID[p] = 0
    /\ connection' = [connection EXCEPT ![p] = IF @ = "none" THEN "open" ELSE @]
    /\ waitingFor' = [waitingFor EXCEPT ![p] = "connect"]
    /\ requests' = IF connection[p] = "closed" THEN requests
                   ELSE [requests EXCEPT ![p] = Append(@, [name |-> "Connect"])]
    /\ UNCHANGED <<areaVars, mapVars, mapID, incoming, changes, disruptions>>

\* ensureMap(), up to its synchronous message.
EnsureMap(p) ==
    /\ Runs(p)
    /\ mapID[p] # 0
    /\ map[p] = Null
    /\ waitingFor' = [waitingFor EXCEPT ![p] = "getValues"]
    /\ Send(p, [name |-> "GetValues", area |-> mapID[p]])
    /\ UNCHANGED <<areaVars, mapVars, mapID, connection, incoming, changes, disruptions>>

\* The copy after setItem(k, v) and removeItem(k) that change it.
ChangeItem(p, values, k, v) ==
    /\ values[k] # v
    /\ v = Null \/ ~ExceedsQuota(values, k)
    /\ map' = [map EXCEPT ![p] = [values EXCEPT ![k] = v]]
    /\ pendingValueChanges' = [pendingValueChanges EXCEPT ![p][k] = @ + 1]
    /\ UNCHANGED <<hasPendingClear, currentSeed>>

ClearItems(p) ==
    /\ map' = [map EXCEPT ![p] = Empty]
    /\ pendingValueChanges' = [pendingValueChanges EXCEPT ![p] = NonePending]
    /\ hasPendingClear' = [hasPendingClear EXCEPT ![p] = TRUE]
    /\ currentSeed' = [currentSeed EXCEPT ![p] = @ + 1]

SetItemInMap(p, k, v) ==
    /\ Change("set")
    /\ Runs(p) /\ mapID[p] # 0 /\ map[p] # Null
    /\ ChangeItem(p, map[p], k, v)
    /\ Send(p, [name |-> "SetItem", area |-> mapID[p], seed |-> currentSeed[p], key |-> k, value |-> v])
    /\ UNCHANGED <<areaVars, linkVars, incoming>>

RemoveItemFromMap(p, k) ==
    /\ Change("remove")
    /\ Runs(p) /\ mapID[p] # 0 /\ map[p] # Null
    /\ ChangeItem(p, map[p], k, Null)
    /\ Send(p, [name |-> "RemoveItem", area |-> mapID[p], seed |-> currentSeed[p], key |-> k])
    /\ UNCHANGED <<areaVars, linkVars, incoming>>

ClearMap(p) ==
    /\ Change("clear")
    /\ Runs(p) /\ mapID[p] # 0
    /\ ClearItems(p)
    /\ Send(p, [name |-> "Clear", area |-> mapID[p], seed |-> currentSeed'[p]])
    /\ UNCHANGED <<areaVars, linkVars, incoming>>

\* The last StorageAreaImpl goes away, and the StorageAreaMap with it; a new one
\* starts with seed 0.
DestroyMap(p) ==
    /\ Disruption("destroy")
    /\ Runs(p)
    /\ ResetValuesWithSeed(p, 0)
    /\ mapID' = [mapID EXCEPT ![p] = 0]
    /\ IF mapID[p] = 0 THEN UNCHANGED requests
       ELSE Send(p, [name |-> "Disconnect", area |-> mapID[p]])
    /\ UNCHANGED <<areaVars, waitingFor, connection, incoming>>

\* connect() returns without an identifier, because the session is not there or
\* the network process died.  The call goes on: it may be the constructor, a
\* read, or a change that is made in this copy alone.
ConnectFails(p) ==
    LET values == IF map[p] = Null THEN Empty ELSE map[p] IN
    /\ waitingFor[p] = "connect"
    /\ \/ connection[p] = "closed" /\ UNCHANGED requests
       \/ /\ connection[p] = "open" /\ ~sessionExists
          /\ requests[p] # <<>> /\ Head(requests[p]).name = "Connect"
          /\ requests' = [requests EXCEPT ![p] = Tail(@)]
    /\ waitingFor' = [waitingFor EXCEPT ![p] = "nothing"]
    /\ \/ UNCHANGED <<mapVars, changes, disruptions>>
       \/ /\ map' = [map EXCEPT ![p] = values]
          /\ UNCHANGED <<pendingValueChanges, hasPendingClear, currentSeed, changes, disruptions>>
       \/ /\ p \in Writers
          /\ \/ Change("set") /\ \E k \in Keys, v \in Values : ChangeItem(p, values, k, v)
             \/ Change("remove") /\ \E k \in Keys : ChangeItem(p, values, k, Null)
             \/ Change("clear") /\ ClearItems(p)
    /\ UNCHANGED <<areaVars, mapID, connection, incoming>>

\* The synchronous GetValues fails: the copy is left empty.
GetValuesFails(p) ==
    /\ waitingFor[p] = "getValues"
    /\ connection[p] = "closed"
    /\ waitingFor' = [waitingFor EXCEPT ![p] = "nothing"]
    /\ map' = [map EXCEPT ![p] = Empty]
    /\ UNCHANGED <<areaVars, pendingValueChanges, hasPendingClear, currentSeed, mapID, connection,
                   requests, incoming, changes, disruptions>>

-----------------------------------------------------------------------------
(* The web process: messages from the network process *)

\* HashCountedSet::remove.
RemovePending(p, k) ==
    pendingValueChanges' = [pendingValueChanges EXCEPT ![p][k] = IF @ = 0 THEN 0 ELSE @ - 1]

DidSetItem(p, message) ==
    IF message.quotaError
    THEN ResetValues(p)
    ELSE RemovePending(p, message.key) /\ UNCHANGED <<map, hasPendingClear, currentSeed>>

DidRemoveItem(p, message) ==
    RemovePending(p, message.key) /\ UNCHANGED <<map, hasPendingClear, currentSeed>>

DidClear(p) ==
    /\ hasPendingClear' = [hasPendingClear EXCEPT ![p] = FALSE]
    /\ UNCHANGED <<map, pendingValueChanges, currentSeed>>

\* applyChange for a null key: a new map, in which the code stores a null string
\* (`oldValue', never assigned) for the changes that are still pending.
ApplyClear(p) == map' = [map EXCEPT ![p] = Empty]

\* applyChange for one key.
ApplyItem(p, k, v) ==
    map' = IF map[p] # Null /\ pendingValueChanges[p][k] = 0
           THEN [map EXCEPT ![p][k] = v] ELSE map

ApplyChange(p, k, v) ==
    /\ \/ hasPendingClear[p] /\ UNCHANGED map
       \/ ~hasPendingClear[p] /\ k = AllKeys /\ ApplyClear(p)
       \/ ~hasPendingClear[p] /\ k # AllKeys /\ ApplyItem(p, k, v)
    /\ UNCHANGED <<pendingValueChanges, hasPendingClear, currentSeed>>

\* dispatchStorageEvent; an event about this process's own change only goes to
\* the documents, which are not modelled.
DispatchStorageEvent(p, message) ==
    IF message.own THEN UNCHANGED mapVars ELSE ApplyChange(p, message.key, message.value)

HandleMessage(p, message) ==
    \/ /\ message.name \in {"DidSetItem", "DidRemoveItem", "DidClear"}
       /\ message.seed # currentSeed[p]
       /\ UNCHANGED mapVars
    \/ /\ message.name = "DidSetItem" /\ message.seed = currentSeed[p]
       /\ DidSetItem(p, message)
    \/ /\ message.name = "DidRemoveItem" /\ message.seed = currentSeed[p]
       /\ DidRemoveItem(p, message)
    \/ /\ message.name = "DidClear" /\ message.seed = currentSeed[p]
       /\ DidClear(p)
    \/ message.name = "DispatchStorageEvent" /\ DispatchStorageEvent(p, message)
    \/ message.name = "ClearCache" /\ ResetValues(p)

\* Messages are routed by the identifier of the area.
DidReceiveMessage(p) ==
    /\ Runs(p)
    /\ incoming[p] # <<>>
    /\ IF Head(incoming[p]).area = mapID[p]
       THEN HandleMessage(p, Head(incoming[p]))
       ELSE UNCHANGED mapVars
    /\ incoming' = [incoming EXCEPT ![p] = Tail(@)]
    /\ UNCHANGED <<areaVars, linkVars, requests, changes, disruptions>>

\* networkProcessConnectionClosed: connected maps are reset and disconnected.
NetworkProcessConnectionClosed(p) ==
    /\ Runs(p)
    /\ connection[p] = "closed"
    /\ incoming[p] = <<>>
    /\ connection' = [connection EXCEPT ![p] = "none"]
    /\ IF mapID[p] = 0 THEN UNCHANGED mapVars ELSE ResetValues(p)
    /\ mapID' = [mapID EXCEPT ![p] = 0]
    /\ UNCHANGED <<areaVars, waitingFor, requests, incoming, changes, disruptions>>

-----------------------------------------------------------------------------
(* The network process: message handlers of StorageManagerSet *)

Receive(p, name) ==
    /\ requests[p] # <<>>
    /\ Head(requests[p]).name = name
    /\ requests' = [requests EXCEPT ![p] = Tail(@)]
    /\ UNCHANGED <<connection, changes, disruptions>>

\* m_storageAreas.get(storageAreaID)
Finds(message) == Exists /\ message.area = areaID

HandleConnect(p) ==
    /\ Receive(p, "Connect")
    /\ ConnectToStorageArea(p)
    /\ mapID' = [mapID EXCEPT ![p] = areaID']
    /\ waitingFor' = [waitingFor EXCEPT ![p] = "nothing"]
    /\ UNCHANGED <<mapVars, incoming>>

HandleDisconnect(p) ==
    /\ Receive(p, "Disconnect")
    /\ IF Finds(Head(requests[p])) THEN DisconnectFromStorageArea(p) ELSE UNCHANGED areaVars
    /\ UNCHANGED <<mapVars, mapID, waitingFor, incoming>>

HandleGetValues(p) ==
    LET found == Finds(Head(requests[p])) IN
    /\ Receive(p, "GetValues")
    /\ IF found THEN GetItems ELSE UNCHANGED areaVars
    /\ map' = [map EXCEPT ![p] = IF found THEN items ELSE Empty]
    /\ waitingFor' = [waitingFor EXCEPT ![p] = "nothing"]
    /\ UNCHANGED <<pendingValueChanges, hasPendingClear, currentSeed, mapID, incoming>>

HandleSetItem(p) ==
    LET message == Head(requests[p]) IN
    /\ Receive(p, "SetItem")
    /\ IF Finds(message) THEN SetItem(p, message.key, message.value) ELSE UNCHANGED areaVars
    /\ Acknowledge(p, [name |-> "DidSetItem", area |-> message.area, seed |-> message.seed,
                       key |-> message.key,
                       quotaError |-> Finds(message) /\ ExceedsQuota(items, message.key)])
    /\ UNCHANGED <<mapVars, mapID, waitingFor>>

HandleRemoveItem(p) ==
    LET message == Head(requests[p]) IN
    /\ Receive(p, "RemoveItem")
    /\ IF Finds(message) THEN RemoveItem(p, message.key) ELSE UNCHANGED areaVars
    /\ Acknowledge(p, [name |-> "DidRemoveItem", area |-> message.area, seed |-> message.seed,
                       key |-> message.key])
    /\ UNCHANGED <<mapVars, mapID, waitingFor>>

HandleClear(p) ==
    LET message == Head(requests[p]) IN
    /\ Receive(p, "Clear")
    /\ IF Finds(message) THEN Clear(p) ELSE UNCHANGED areaVars
    /\ Acknowledge(p, [name |-> "DidClear", area |-> message.area, seed |-> message.seed])
    /\ UNCHANGED <<mapVars, mapID, waitingFor>>

\* The main run loop's send: behind the acknowledgements already sent.
SendStorageEvent(p) ==
    /\ SendEvent(p)
    /\ Acknowledge(p, Head(mainRunLoop[p]))
    /\ UNCHANGED <<mapVars, linkVars, requests, changes, disruptions>>

-----------------------------------------------------------------------------
(* Disruptions *)

DeleteData ==
    /\ Disruption("delete")
    /\ DeleteEntries
    /\ UNCHANGED <<mapVars, linkVars, requests, incoming>>

SessionIsRemoved ==
    /\ Disruption("removeSession")
    /\ RemoveSession
    /\ UNCHANGED <<mapVars, linkVars, requests, incoming>>

SessionIsAdded ==
    /\ AddSession
    /\ UNCHANGED <<mapVars, linkVars, requests, incoming, changes, disruptions>>

\* The web process exits; what it had sent and was not yet received is lost.
WebProcessExits(p) ==
    /\ Disruption("exit")
    /\ connection[p] = "open"
    /\ RemoveConnection(p)
    /\ ResetValuesWithSeed(p, 0)
    /\ mapID' = [mapID EXCEPT ![p] = 0]
    /\ waitingFor' = [waitingFor EXCEPT ![p] = "nothing"]
    /\ connection' = [connection EXCEPT ![p] = "none"]
    /\ requests' = [requests EXCEPT ![p] = <<>>]
    /\ incoming' = [incoming EXCEPT ![p] = <<>>]

\* The network process dies: what it was sent is lost, what it sent may arrive.
NetworkProcessCrashes ==
    /\ Disruption("crash")
    /\ Crash
    /\ connection' = [p \in Processes |-> IF connection[p] = "open" THEN "closed" ELSE connection[p]]
    /\ requests' = [p \in Processes |-> <<>>]
    /\ incoming' \in {incoming, [p \in Processes |-> <<>>]}
    /\ UNCHANGED <<mapVars, mapID, waitingFor>>

WriteOut ==
    /\ UpdateDatabase
    /\ UNCHANGED <<mapVars, linkVars, requests, incoming, changes, disruptions>>

WebProcessStep(p) ==
    \/ Connect(p) \/ EnsureMap(p) \/ DestroyMap(p)
    \/ ConnectFails(p) \/ GetValuesFails(p)
    \/ DidReceiveMessage(p) \/ NetworkProcessConnectionClosed(p)

WriterStep(p) ==
    \/ ClearMap(p)
    \/ \E k \in Keys : RemoveItemFromMap(p, k) \/ \E v \in Values : SetItemInMap(p, k, v)

HandleRequest(p) ==
    \/ HandleConnect(p) \/ HandleDisconnect(p) \/ HandleGetValues(p)
    \/ HandleSetItem(p) \/ HandleRemoveItem(p) \/ HandleClear(p)

Next ==
    \/ \E p \in Processes : WebProcessStep(p) \/ HandleRequest(p) \/ SendStorageEvent(p) \/ WebProcessExits(p)
    \/ \E p \in Writers : WriterStep(p)
    \/ WriteOut
    \/ DeleteData \/ SessionIsRemoved \/ SessionIsAdded \/ NetworkProcessCrashes

Spec == Init /\ [][Next]_vars

\* The work queue runs the updates it was given.
FairSpec == Spec /\ WF_vars(WriteOut)

-----------------------------------------------------------------------------
(* Properties *)

Quiescent ==
    \A p \in Processes :
        Runs(p) /\ requests[p] = <<>> /\ incoming[p] = <<>> /\ mainRunLoop[p] = <<>>

Agrees(p) == map[p] # Null => map[p] = items

\* When everything sent has arrived, the copy of a process that only reads, and
\* that of the only process that writes, is the map of the network process: the
\* events it applied, late ones that GetValues overtook included, leave nothing
\* stale (ensureMap, applyChange, dispatchEvents).
ReadersAgree ==
    Quiescent => \A p \in Processes : p \notin Writers \/ Writers = {p} => Agrees(p)

\* When everything sent has arrived, every copy is the map of the network process:
\* a process whose change was made last has ignored the changes it overrode
\* (shouldApplyChangeForKey).
EveryoneAgrees == Quiescent => \A p \in Processes : Agrees(p)

\* The messages of one change on their way: the request, or its acknowledgement.
UnderWay(p, names) ==
    LET Of(channel) == {i \in DOMAIN channel : /\ channel[i].name \in names
                                               /\ channel[i].area = mapID[p]
                                               /\ channel[i].seed = currentSeed[p]}
    IN [sent |-> Of(requests[p]), acknowledged |-> Of(incoming[p])]

\* A key is pending exactly as often as an acknowledgement with the current seed
\* is still to come, and a clear is pending exactly when its acknowledgement is:
\* the assertions of didSetItem, didRemoveItem and didClear hold, and no key is
\* left pending for ever, deaf to the changes of other processes.
PendingChangesAreAwaited ==
    \A p \in Processes :
        /\ LET m == UnderWay(p, {"SetItem", "RemoveItem", "DidSetItem", "DidRemoveItem"}) IN
           \A k \in Keys :
               pendingValueChanges[p][k] = Cardinality({i \in m.sent : requests[p][i].key = k})
                                         + Cardinality({i \in m.acknowledged : incoming[p][i].key = k})
        /\ LET m == UnderWay(p, {"Clear", "DidClear"}) IN
           hasPendingClear[p] = (m.sent \cup m.acknowledged # {})

\* Every change is written to the database file in the end: an update is
\* scheduled for it, and for what an update leaves over (scheduleDatabaseUpdate).
ChangesAreSaved == <>[](Contents = file)

=============================================================================
