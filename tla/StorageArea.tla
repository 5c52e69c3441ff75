----------------------------- MODULE StorageArea -----------------------------
(***************************************************************************)
(* The network process's side of web storage for one origin:               *)
(* NetworkProcess/WebStorage/StorageArea.cpp, the LocalStorageDatabase it   *)
(* writes to, the namespace that owns it and the tasks of StorageManagerSet *)
(* that reach it.  All of this runs on one serial work queue, so an action  *)
(* is one task of that queue; the exceptions are SendEvent, a task of the   *)
(* main run loop, and a crash.  The database is taken to work: SQLite       *)
(* failures are not modelled.                                               *)
(***************************************************************************)
EXTENDS Naturals, Sequences, FiniteSets

CONSTANTS
    Processes,             \* web processes; each has one connection to the network process
    Keys, Values,
    Null,                  \* the null string: no item
    NoChange,              \* no entry in m_changedItems
    AllKeys,               \* the null key of an event that reports a clear
    IsEphemeral,           \* the area has no LocalStorageNamespace, hence no database
    Quota,                 \* how many items fit in m_quotaInBytes
    MaximumItemsToUpdate   \* maximumItemsToUpdate, 100 in the code

ASSUME AreaAssumption ==
    /\ Null \notin Values
    /\ NoChange \notin Values \cup {Null}
    /\ AllKeys \notin Keys
    /\ IsEphemeral \in BOOLEAN
    /\ MaximumItemsToUpdate \in Nat \ {0}

VARIABLES
    sessionExists,               \* m_storageManagers has the session
    areaID,                      \* m_identifier of the area in its namespace, 0 when there is none
    lastAreaID,                  \* the last identifier this network process generated
    listeners,                   \* m_eventListeners
    items,                       \* m_storageMap
    database,                    \* m_localStorageDatabase: "none" or "open"
    changedItems,                \* m_changedItems, NoChange for the keys it lacks
    shouldClearItems,            \* m_shouldClearItems
    didScheduleDatabaseUpdate,   \* m_didScheduleDatabaseUpdate
    file,                        \* the rows of ItemTable on disk
    mainRunLoop                  \* per process, messages waiting for the main thread to send them

databaseVars == <<database, changedItems, shouldClearItems, didScheduleDatabaseUpdate, file>>
areaVars == <<sessionExists, areaID, lastAreaID, listeners, items, databaseVars, mainRunLoop>>

Maps      == [Keys -> Values \cup {Null}]
Empty     == [k \in Keys |-> Null]
NoChanges == [k \in Keys |-> NoChange]

Exists == areaID # 0

Event(own, k, v) ==
    [name |-> "DispatchStorageEvent", area |-> areaID, own |-> own, key |-> k, value |-> v]
ClearCache == [name |-> "ClearCache", area |-> areaID]

AreaInit ==
    /\ sessionExists = TRUE
    /\ areaID = 0
    /\ lastAreaID = 0
    /\ listeners = {}
    /\ items = Empty
    /\ database = "none"
    /\ changedItems = NoChanges
    /\ shouldClearItems = FALSE
    /\ didScheduleDatabaseUpdate = FALSE
    /\ file \in IF IsEphemeral THEN {Empty} ELSE Maps
    /\ mainRunLoop = [p \in Processes |-> <<>>]

-----------------------------------------------------------------------------
(* LocalStorageDatabase *)

ChangedKeys == {k \in Keys : changedItems[k] # NoChange}

\* updateDatabaseWithChangedItems: the table is cleared first if a clear is
\* outstanding, then the changes of the keys in S are written in a transaction.
FileWith(S) ==
    [k \in Keys |-> IF k \in S /\ changedItems[k] # NoChange THEN changedItems[k]
                    ELSE IF shouldClearItems THEN Null ELSE file[k]]

\* A LocalStorageDatabase object goes away, and what it had not written with it.
DatabaseIsGone ==
    /\ database' = "none"
    /\ changedItems' = NoChanges
    /\ shouldClearItems' = FALSE
    /\ didScheduleDatabaseUpdate' = FALSE

\* close() of a database that is then destroyed.  Deleting the file of an empty
\* table changes no row.
CloseDatabaseWithoutUpdate ==
    /\ DatabaseIsGone
    /\ UNCHANGED file

CloseDatabase ==
    /\ file' = IF didScheduleDatabaseUpdate THEN FileWith(Keys) ELSE file
    /\ DatabaseIsGone

OpenDatabaseIfNeeded == database' = IF IsEphemeral THEN "none" ELSE "open"

\* itemDidChange(k, v), Null standing for a removal.
ItemDidChangeUnscheduled(k, v) ==
    /\ changedItems' = IF IsEphemeral THEN changedItems ELSE [changedItems EXCEPT ![k] = v]
    /\ UNCHANGED <<shouldClearItems, didScheduleDatabaseUpdate, file>>

ItemDidChange(k, v) ==
    /\ changedItems' = IF IsEphemeral THEN changedItems ELSE [changedItems EXCEPT ![k] = v]
    /\ didScheduleDatabaseUpdate' = ~IsEphemeral
    /\ UNCHANGED <<shouldClearItems, file>>

\* clear(): changes that were not written yet are dropped with the rows.
ClearDatabase ==
    /\ changedItems' = NoChanges
    /\ shouldClearItems' = ~IsEphemeral
    /\ didScheduleDatabaseUpdate' = ~IsEphemeral
    /\ UNCHANGED file

\* updateDatabase(): all changes, or MaximumItemsToUpdate of them chosen by the
\* hash table's order, and another update for the rest.  The task is queued
\* whenever didScheduleDatabaseUpdate holds; a call from syncToDatabase comes
\* early, and without that there is nothing to write.
UpdateDatabase ==
    /\ didScheduleDatabaseUpdate
    /\ \/ /\ Cardinality(ChangedKeys) <= MaximumItemsToUpdate
          /\ file' = FileWith(Keys)
          /\ changedItems' = NoChanges
          /\ didScheduleDatabaseUpdate' = FALSE
       \/ /\ Cardinality(ChangedKeys) > MaximumItemsToUpdate
          /\ \E S \in SUBSET ChangedKeys :
                /\ Cardinality(S) = MaximumItemsToUpdate
                /\ file' = FileWith(S)
                /\ changedItems' = [k \in Keys |-> IF k \in S THEN NoChange ELSE changedItems[k]]
          /\ UNCHANGED didScheduleDatabaseUpdate
    /\ shouldClearItems' = FALSE
    /\ UNCHANGED <<sessionExists, areaID, lastAreaID, listeners, items, database, mainRunLoop>>

-----------------------------------------------------------------------------
(* StorageArea *)

\* dispatchEvents: a task of the main run loop for every listener; the one of the
\* process that made the change carries its StorageAreaImpl's identifier (`own').
DispatchEvents(p, k, v) ==
    mainRunLoop' = [q \in Processes |->
        IF q \in listeners THEN Append(mainRunLoop[q], Event(q = p, k, v)) ELSE mainRunLoop[q]]

\* connectTo...StorageArea for a session that exists: the area is created if
\* needed, and its items imported when its first listener is added.
ConnectToStorageArea(p) ==
    /\ sessionExists
    /\ IF Exists
       THEN UNCHANGED <<areaID, lastAreaID, items, databaseVars>>
       ELSE /\ lastAreaID' = lastAreaID + 1
            /\ areaID' = lastAreaID'
            /\ items' = IF IsEphemeral THEN Empty ELSE file
            /\ OpenDatabaseIfNeeded
            /\ UNCHANGED <<changedItems, shouldClearItems, didScheduleDatabaseUpdate, file>>
    /\ listeners' = listeners \cup {p}
    /\ UNCHANGED <<sessionExists, mainRunLoop>>

\* removeListener: an area with a database is written out and destroyed with its
\* last listener.
RemoveListener(p) ==
    /\ listeners' = listeners \ {p}
    /\ IF Exists /\ listeners' = {} /\ ~IsEphemeral
       THEN /\ file' = FileWith(Keys)
            /\ DatabaseIsGone
            /\ areaID' = 0
            /\ items' = Empty
       ELSE UNCHANGED <<areaID, items, databaseVars>>
    /\ UNCHANGED <<sessionExists, lastAreaID>>

DisconnectFromStorageArea(p) ==
    /\ Exists
    /\ RemoveListener(p)
    /\ UNCHANGED mainRunLoop

\* removeConnection: what the main run loop still has for the connection finds no
\* connection to send it to.
RemoveConnection(p) ==
    /\ RemoveListener(p)
    /\ mainRunLoop' = [mainRunLoop EXCEPT ![p] = <<>>]

\* StorageMap::setItem raises an exception instead of growing past the quota.
ExceedsQuota(map, k) == map[k] = Null /\ Cardinality({j \in Keys : map[j] # Null}) >= Quota

SetItemReportingFailures(p, k, v) ==
    /\ Exists
    /\ OpenDatabaseIfNeeded
    /\ IF ExceedsQuota(items, k)
       THEN UNCHANGED <<items, changedItems, shouldClearItems, didScheduleDatabaseUpdate, file>>
       ELSE items' = [items EXCEPT ![k] = v] /\ ItemDidChange(k, v)
    /\ DispatchEvents(p, k, v)
    /\ UNCHANGED <<sessionExists, areaID, lastAreaID, listeners>>

SetItem(p, k, v) ==
    /\ Exists
    /\ OpenDatabaseIfNeeded
    /\ IF ExceedsQuota(items, k)
       THEN UNCHANGED <<items, changedItems, shouldClearItems, didScheduleDatabaseUpdate,
                        file, mainRunLoop>>
       ELSE /\ items' = [items EXCEPT ![k] = v]
            /\ ItemDidChange(k, v)
            /\ DispatchEvents(p, k, v)
    /\ UNCHANGED <<sessionExists, areaID, lastAreaID, listeners>>

RemoveItem(p, k) ==
    /\ Exists
    /\ OpenDatabaseIfNeeded
    /\ IF items[k] = Null
       THEN UNCHANGED <<items, changedItems, shouldClearItems, didScheduleDatabaseUpdate,
                        file, mainRunLoop>>
       ELSE /\ items' = [items EXCEPT ![k] = Null]
            /\ ItemDidChange(k, Null)
            /\ DispatchEvents(p, k, Null)
    /\ UNCHANGED <<sessionExists, areaID, lastAreaID, listeners>>

Clear(p) ==
    /\ Exists
    /\ OpenDatabaseIfNeeded
    /\ IF items = Empty
       THEN UNCHANGED <<items, changedItems, shouldClearItems, didScheduleDatabaseUpdate,
                        file, mainRunLoop>>
       ELSE /\ items' = Empty
            /\ ClearDatabase
            /\ DispatchEvents(p, AllKeys, Null)
    /\ UNCHANGED <<sessionExists, areaID, lastAreaID, listeners>>

\* items(), the reply to GetValues.
GetItems ==
    /\ Exists
    /\ OpenDatabaseIfNeeded
    /\ UNCHANGED <<sessionExists, areaID, lastAreaID, listeners, items, changedItems,
                   shouldClearItems, didScheduleDatabaseUpdate, file, mainRunLoop>>

-----------------------------------------------------------------------------
(* Tasks of StorageManagerSet and StorageManager for a whole session *)

\* deleteLocalStorageEntriesForOrigins: StorageArea::clear() closes the database
\* and tells every listener to drop its copy; then the file is deleted.
DeleteEntriesWithoutClosing ==
    /\ sessionExists
    /\ file' = Empty
    /\ items' = Empty
    /\ mainRunLoop' = [q \in Processes |->
           IF q \in listeners THEN Append(mainRunLoop[q], ClearCache) ELSE mainRunLoop[q]]
    /\ UNCHANGED <<sessionExists, areaID, lastAreaID, listeners, database, changedItems,
                   shouldClearItems, didScheduleDatabaseUpdate>>

DeleteEntries ==
    /\ sessionExists
    /\ file' = Empty
    /\ DatabaseIsGone
    /\ items' = Empty
    /\ mainRunLoop' = [q \in Processes |->
           IF q \in listeners THEN Append(mainRunLoop[q], ClearCache) ELSE mainRunLoop[q]]
    /\ UNCHANGED <<sessionExists, areaID, lastAreaID, listeners>>

\* remove(sessionID): the session's areas are destroyed, each closing its database.
RemoveSession ==
    /\ sessionExists
    /\ sessionExists' = FALSE
    /\ CloseDatabase
    /\ areaID' = 0
    /\ listeners' = {}
    /\ items' = Empty
    /\ UNCHANGED <<lastAreaID, mainRunLoop>>

\* add(sessionID).
AddSession ==
    /\ ~sessionExists
    /\ sessionExists' = TRUE
    /\ UNCHANGED <<areaID, lastAreaID, listeners, items, databaseVars, mainRunLoop>>

-----------------------------------------------------------------------------
(* The rest of the network process *)

\* The main run loop sends the oldest message of one process.
SendEvent(p) ==
    /\ mainRunLoop[p] # <<>>
    /\ mainRunLoop' = [mainRunLoop EXCEPT ![p] = Tail(@)]
    /\ UNCHANGED <<sessionExists, areaID, lastAreaID, listeners, items, databaseVars>>

\* The process dies and is launched again, and the session added to it.  DELETE
\* FROM ItemTable runs outside the transaction: a crash may come between the two.
Crash ==
    /\ file' \in IF shouldClearItems THEN {file, Empty} ELSE {file}
    /\ DatabaseIsGone
    /\ sessionExists' = TRUE
    /\ areaID' = 0
    /\ listeners' = {}
    /\ items' = Empty
    /\ mainRunLoop' = [q \in Processes |-> <<>>]
    /\ lastAreaID' = 0

AreaNext ==
    \/ \E p \in Processes : \/ ConnectToStorageArea(p)
                           \/ DisconnectFromStorageArea(p)
                           \/ RemoveConnection(p)
                           \/ Clear(p)
                           \/ SendEvent(p)
    \/ \E p \in Processes, k \in Keys : RemoveItem(p, k) \/ \E v \in Values : SetItem(p, k, v)
    \/ GetItems
    \/ UpdateDatabase
    \/ DeleteEntries
    \/ RemoveSession
    \/ AddSession
    \/ Crash

AreaSpec == AreaInit /\ [][AreaNext]_areaVars

-----------------------------------------------------------------------------
(* What the area promises *)

\* The items an area has, or would import: those on disk when there is no area.
Contents == IF Exists THEN items ELSE file

Persistent == INSTANCE PersistentMap WITH items <- Contents, saved <- file, cleared <- shouldClearItems

\* Each task does to the persistent map what its name says and nothing else:
\* only setItem, removeItem, clear and the deletion of the data change the map,
\* only the death of the process takes changes back, and every other task
\* (connecting, closing, removing the session, updating the database) may at
\* most save.
PersistentMapStep ==
    \/ \E p \in Processes, k \in Keys, v \in Values : SetItem(p, k, v) /\ Persistent!Set(k, v)
    \/ \E p \in Processes, k \in Keys : RemoveItem(p, k) /\ Persistent!Remove(k)
    \/ \E p \in Processes : Clear(p) /\ Persistent!Clear
    \/ DeleteEntries /\ Persistent!Delete
    \/ Crash /\ Persistent!Crash
    \/ Persistent!Save

\* The area, its database and the file together behave as one persistent map:
\* but for a crash of the network process, no task of the work queue loses a
\* change, brings one back or saves what was never there, whether the area is
\* written in batches, closed with its last listener and opened again, or its
\* session removed (removeListener, updateDatabase and close).
ImplementsPersistentMap == Persistent!Spec /\ [][PersistentMapStep]_(Persistent!vars)

\* What is on disk, the outstanding clear and the outstanding changes always add
\* up to the map in memory, and an update is scheduled as long as there is
\* something to write: close() and updateDatabase() rely on the two.
DatabaseAddsUp ==
    Exists /\ ~IsEphemeral =>
        /\ items = FileWith(Keys)
        /\ didScheduleDatabaseUpdate <=> shouldClearItems \/ ChangedKeys # {}
        /\ didScheduleDatabaseUpdate => database = "open"

=============================================================================
