------------------------- MODULE StorageAreaMapProofs -------------------------
(***************************************************************************)
(* Proofs about StorageArea for an area with a database, and about the     *)
(* composition StorageAreaMap: any processes, keys and values, any quota   *)
(* and any size of a batch of updates.                                     *)
(***************************************************************************)
EXTENDS StorageCopies, TLAPS

(***************************************************************************)
(* DatabaseAddsUp is inductive with the types, and with what it leaves     *)
(* open: while there is no area nothing is outstanding, so that the file   *)
(* alone is what an area would import.                                     *)
(***************************************************************************)
AreaTypeOK ==
    /\ areaID \in Nat
    /\ lastAreaID \in Nat
    /\ items \in Maps
    /\ file \in Maps
    /\ changedItems \in [Keys -> Values \cup {Null, NoChange}]
    /\ shouldClearItems \in BOOLEAN
    /\ didScheduleDatabaseUpdate \in BOOLEAN

NothingOutstanding ==
    /\ changedItems = NoChanges
    /\ shouldClearItems = FALSE
    /\ didScheduleDatabaseUpdate = FALSE

AreaInv ==
    /\ AreaTypeOK
    /\ DatabaseAddsUp
    /\ ~Exists => NothingOutstanding

-----------------------------------------------------------------------------
(* What the operators compute *)

\* The file after an update is a map again, whatever part of the changes was written.
LEMMA FileWithType ==
    ASSUME AreaTypeOK, NEW S
    PROVE  FileWith(S) \in Maps
  BY AreaAssumption, Zenon DEF AreaTypeOK, FileWith, Maps

\* With nothing outstanding the file is what a complete update would leave.
LEMMA FileWithNothing ==
    ASSUME AreaTypeOK, NothingOutstanding
    PROVE  FileWith(Keys) = file /\ ChangedKeys = {}
  BY AreaAssumption, Zenon DEF AreaTypeOK, NothingOutstanding, FileWith, ChangedKeys, NoChanges, Maps

\* An update that is not scheduled would write nothing.
LEMMA UnscheduledIsSaved ==
    ASSUME AreaInv, ~IsEphemeral, Exists, ~didScheduleDatabaseUpdate
    PROVE  items = file /\ NothingOutstanding
<1>1. shouldClearItems = FALSE /\ ChangedKeys = {} /\ didScheduleDatabaseUpdate = FALSE
  BY Zenon DEF AreaInv, AreaTypeOK, DatabaseAddsUp
<1>2. changedItems = NoChanges
  BY <1>1, Zenon DEF AreaInv, AreaTypeOK, ChangedKeys, NoChanges
<1>3. NothingOutstanding
  BY <1>1, <1>2, Zenon DEF NothingOutstanding
<1> QED
  BY <1>3, FileWithNothing, Zenon DEF AreaInv, DatabaseAddsUp

\* The empty map and a map with one item changed are maps.
LEMMA MapsClosed ==
    /\ Empty \in Maps
    /\ \A m \in Maps, k \in Keys, v \in Values \cup {Null} : [m EXCEPT ![k] = v] \in Maps
  BY Zenon DEF Empty, Maps

-----------------------------------------------------------------------------
(* Every task preserves AreaInv, and does to the persistent map what its    *)
(* name says (PersistentMapStep) or leaves it alone.                        *)

PersistentStep == [PersistentMapStep]_(Persistent!vars)

\* Steps that touch neither the items nor the database: GetItems of an area
\* whose database is open, AddSession and SendEvent.
LEMMA InnerUnchanged ==
    ASSUME AreaInv, UNCHANGED <<areaID, lastAreaID, items, changedItems, shouldClearItems,
                                didScheduleDatabaseUpdate, file>>,
           database' = database \/ database' = "open"
    PROVE  AreaInv' /\ PersistentStep
<1>1. AreaTypeOK' /\ (~Exists => NothingOutstanding)'
  BY Zenon DEF AreaInv, AreaTypeOK, Exists, NothingOutstanding, NoChanges
<1>2. DatabaseAddsUp'
  BY Zenon DEF AreaInv, DatabaseAddsUp, Exists, FileWith, ChangedKeys
<1>3. UNCHANGED Persistent!vars
  BY Zenon DEF Persistent!vars, Contents, Exists
<1> QED
  BY <1>1, <1>2, <1>3 DEF AreaInv, PersistentStep

\* The area is created from the file.
LEMMA ConnectStep ==
    ASSUME AreaInv, ~IsEphemeral, NEW p, ConnectToStorageArea(p)
    PROVE  AreaInv' /\ PersistentStep
<1>1. CASE Exists
  <2>1. UNCHANGED <<areaID, lastAreaID, items, databaseVars>>
    BY <1>1, Zenon DEF ConnectToStorageArea
  <2> QED
    BY <2>1, InnerUnchanged, Zenon DEF databaseVars
<1>2. CASE ~Exists
  <2>1. /\ areaID' = lastAreaID + 1 /\ lastAreaID' = lastAreaID + 1 /\ items' = file
        /\ UNCHANGED <<changedItems, shouldClearItems, didScheduleDatabaseUpdate, file>>
    BY <1>2, Zenon DEF ConnectToStorageArea
  <2>2. AreaTypeOK' /\ Exists'
    BY <2>1 DEF AreaInv, AreaTypeOK, Exists
  <2>3. NothingOutstanding'
    BY <1>2, <2>1, Zenon DEF AreaInv, NothingOutstanding, NoChanges
  <2>4. FileWith(Keys)' = file /\ ChangedKeys' = {}
    BY <1>2, <2>1, FileWithNothing, Zenon DEF AreaInv, FileWith, ChangedKeys
  <2>5. DatabaseAddsUp'
    BY <2>1, <2>2, <2>3, <2>4, Zenon DEF DatabaseAddsUp, NothingOutstanding
  <2>6. UNCHANGED Persistent!vars
    BY <1>2, <2>1, <2>2, Zenon DEF Persistent!vars, Contents
  <2> QED
    BY <2>2, <2>5, <2>6, Zenon DEF AreaInv, PersistentStep
<1> QED
  BY <1>1, <1>2, Zenon

\* What closing the area with everything written comes to.
LEMMA AreaCloses ==
    ASSUME AreaInv, ~IsEphemeral, DatabaseIsGone, areaID' = 0, lastAreaID' = lastAreaID,
           items' = Empty, file' = Contents
    PROVE  AreaInv' /\ PersistentStep
<1>1. ~Exists' /\ NothingOutstanding'
  BY Zenon DEF Exists, NothingOutstanding, DatabaseIsGone, NoChanges
<1>2. AreaTypeOK'
  BY MapsClosed, Zenon DEF AreaInv, AreaTypeOK, DatabaseIsGone, NoChanges, Contents
<1>3. Contents' = Contents
  BY <1>1, Zenon DEF Contents
<1>4. Persistent!Save
  <2>1. Contents \in Persistent!Maps
    BY Zenon DEF AreaInv, AreaTypeOK, Contents, Maps, Persistent!Maps
  <2>2. \A k \in Keys : file'[k] \in {Contents[k], IF shouldClearItems THEN Null ELSE file[k]}
    BY Zenon
  <2>3. shouldClearItems' = FALSE
    BY Zenon DEF DatabaseIsGone
  <2> QED
    BY <1>3, <2>1, <2>2, <2>3, Zenon DEF Persistent!Save
<1> QED
  BY <1>1, <1>2, <1>4, Zenon DEF AreaInv, DatabaseAddsUp, PersistentStep, PersistentMapStep

\* A process leaves, and the area with the last one.
LEMMA RemoveListenerStep ==
    ASSUME AreaInv, ~IsEphemeral, NEW p, RemoveListener(p)
    PROVE  AreaInv' /\ PersistentStep
<1>1. CASE Exists /\ listeners' = {}
  <2>1. /\ DatabaseIsGone /\ areaID' = 0 /\ lastAreaID' = lastAreaID /\ items' = Empty
        /\ file' = FileWith(Keys)
    BY <1>1, Zenon DEF RemoveListener
  <2>2. FileWith(Keys) = Contents
    BY <1>1, Zenon DEF AreaInv, DatabaseAddsUp, Contents
  <2> QED
    BY <2>1, <2>2, AreaCloses, Zenon
<1>2. CASE ~(Exists /\ listeners' = {})
  <2>1. UNCHANGED <<areaID, lastAreaID, items, databaseVars>>
    BY <1>2, Zenon DEF RemoveListener
  <2> QED
    BY <2>1, InnerUnchanged, Zenon DEF databaseVars
<1> QED
  BY <1>1, <1>2, Zenon

\* One item is changed in the map and in the outstanding changes.
LEMMA ItemChanges ==
    ASSUME AreaInv, ~IsEphemeral, Exists, NEW k \in Keys, NEW v \in Values \cup {Null},
           items' = [items EXCEPT ![k] = v], ItemDidChange(k, v), database' = "open",
           UNCHANGED <<areaID, lastAreaID>>
    PROVE  /\ AreaInv'
           /\ Contents' = [Contents EXCEPT ![k] = v]
           /\ UNCHANGED <<file, shouldClearItems>>
<1>1. /\ changedItems' = [changedItems EXCEPT ![k] = v]
      /\ didScheduleDatabaseUpdate' = TRUE
      /\ UNCHANGED <<file, shouldClearItems>>
  BY Zenon DEF ItemDidChange
<1>2. v # NoChange
  BY AreaAssumption, Zenon
<1>3. AreaTypeOK' /\ Exists'
  BY <1>1, MapsClosed, Zenon DEF AreaInv, AreaTypeOK, Exists
<1>4. items' = FileWith(Keys)'
  <2>1. \A j \in Keys : items'[j] = FileWith(Keys)'[j]
    BY <1>1, <1>2, Zenon DEF AreaInv, AreaTypeOK, DatabaseAddsUp, FileWith, Maps
  <2> QED
    BY <1>3, <2>1, Zenon DEF AreaTypeOK, FileWith, Maps
<1>5. ChangedKeys' # {}
  <2>1. changedItems'[k] = v
    BY <1>1, Zenon DEF AreaInv, AreaTypeOK
  <2> QED
    BY <1>2, <2>1, Zenon DEF ChangedKeys
<1>6. DatabaseAddsUp'
  BY <1>1, <1>4, <1>5, Zenon DEF DatabaseAddsUp
<1>7. Contents' = [Contents EXCEPT ![k] = v]
  BY <1>3, Zenon DEF Contents
<1> QED
  BY <1>1, <1>3, <1>6, <1>7, Zenon DEF AreaInv

\* setItem sets the item, or changes nothing when the quota is exceeded.
LEMMA SetItemStep ==
    ASSUME AreaInv, ~IsEphemeral, NEW p \in Processes, NEW k \in Keys, NEW v \in Values, SetItem(p, k, v)
    PROVE  AreaInv' /\ PersistentStep
<1>1. Exists /\ database' = "open" /\ UNCHANGED <<areaID, lastAreaID>>
  BY Zenon DEF SetItem, OpenDatabaseIfNeeded
<1>2. CASE ExceedsQuota(items, k)
  <2>1. UNCHANGED <<items, changedItems, shouldClearItems, didScheduleDatabaseUpdate, file>>
    BY <1>2, Zenon DEF SetItem
  <2> QED
    BY <1>1, <2>1, InnerUnchanged, Zenon
<1>3. CASE ~ExceedsQuota(items, k)
  <2>1. items' = [items EXCEPT ![k] = v] /\ ItemDidChange(k, v)
    BY <1>3, Zenon DEF SetItem
  <2>2. /\ AreaInv' /\ Contents' = [Contents EXCEPT ![k] = v]
        /\ UNCHANGED <<file, shouldClearItems>>
    BY <1>1, <2>1, ItemChanges, Zenon
  <2>3. Persistent!Set(k, v)
    BY <2>2, Zenon DEF Persistent!Set
  <2> QED
    BY <2>2, <2>3, Zenon DEF PersistentStep, PersistentMapStep
<1> QED
  BY <1>2, <1>3, Zenon

\* removeItem removes the item, if there is one.
LEMMA RemoveItemStep ==
    ASSUME AreaInv, ~IsEphemeral, NEW p \in Processes, NEW k \in Keys, RemoveItem(p, k)
    PROVE  AreaInv' /\ PersistentStep
<1>1. Exists /\ database' = "open" /\ UNCHANGED <<areaID, lastAreaID>>
  BY Zenon DEF RemoveItem, OpenDatabaseIfNeeded
<1>2. CASE items[k] = Null
  <2>1. UNCHANGED <<items, changedItems, shouldClearItems, didScheduleDatabaseUpdate, file>>
    BY <1>2, Zenon DEF RemoveItem
  <2> QED
    BY <1>1, <2>1, InnerUnchanged, Zenon
<1>3. CASE items[k] # Null
  <2>1. items' = [items EXCEPT ![k] = Null] /\ ItemDidChange(k, Null)
    BY <1>3, Zenon DEF RemoveItem
  <2>2. /\ AreaInv' /\ Contents' = [Contents EXCEPT ![k] = Null]
        /\ UNCHANGED <<file, shouldClearItems>>
    BY <1>1, <2>1, ItemChanges, Zenon
  <2>3. Persistent!Remove(k)
    BY <2>2, Zenon DEF Persistent!Remove
  <2> QED
    BY <2>2, <2>3, Zenon DEF PersistentStep, PersistentMapStep
<1> QED
  BY <1>2, <1>3, Zenon

\* clear empties the map and drops the outstanding changes.
LEMMA ClearStep ==
    ASSUME AreaInv, ~IsEphemeral, NEW p \in Processes, Clear(p)
    PROVE  AreaInv' /\ PersistentStep
<1>1. Exists /\ database' = "open" /\ UNCHANGED <<areaID, lastAreaID>>
  BY Zenon DEF Clear, OpenDatabaseIfNeeded
<1>2. CASE items = Empty
  <2>1. UNCHANGED <<items, changedItems, shouldClearItems, didScheduleDatabaseUpdate, file>>
    BY <1>2, Zenon DEF Clear
  <2> QED
    BY <1>1, <2>1, InnerUnchanged, Zenon
<1>3. CASE items # Empty
  <2>1. /\ items' = Empty /\ changedItems' = NoChanges /\ shouldClearItems' = TRUE
        /\ didScheduleDatabaseUpdate' = TRUE /\ file' = file
    BY <1>3, Zenon DEF Clear, ClearDatabase
  <2>2. AreaTypeOK' /\ Exists'
    BY <1>1, <2>1, MapsClosed, Zenon DEF AreaInv, AreaTypeOK, Exists, NoChanges
  <2>3. FileWith(Keys)' = Empty
    BY <2>1, Zenon DEF FileWith, NoChanges, Empty
  <2>4. DatabaseAddsUp'
    BY <1>1, <2>1, <2>3, Zenon DEF DatabaseAddsUp
  <2>5. Persistent!Clear
    BY <2>1, <2>2, Zenon DEF Persistent!Clear, Persistent!Empty, Empty, Contents
  <2> QED
    BY <2>2, <2>4, <2>5 DEF AreaInv, PersistentStep, PersistentMapStep
<1> QED
  BY <1>2, <1>3, Zenon

\* Writing out the changes of some keys saves those and no others.
LEMMA FileWithSaves ==
    ASSUME AreaInv, ~IsEphemeral, Exists, NEW S,
           file' = FileWith(S), shouldClearItems' = FALSE, UNCHANGED <<areaID, items>>
    PROVE  PersistentStep
<1>1. file' \in Persistent!Maps
  BY FileWithType, Zenon DEF AreaInv, Maps, Persistent!Maps
<1>2. Contents = items /\ Contents' = Contents
  BY Zenon DEF Contents, Exists
<1>3. ASSUME NEW k \in Keys
      PROVE  file'[k] \in {Contents[k], IF shouldClearItems THEN Null ELSE file[k]}
  <2>1. items[k] = FileWith(Keys)[k]
    BY Zenon DEF AreaInv, DatabaseAddsUp
  <2>2. CASE k \in S /\ changedItems[k] # NoChange
    BY <1>2, <2>1, <2>2, Zenon DEF FileWith
  <2>3. CASE ~(k \in S /\ changedItems[k] # NoChange)
    BY <2>3, Zenon DEF FileWith
  <2> QED
    BY <2>2, <2>3, Zenon
<1> QED
  BY <1>1, <1>2, <1>3, Zenon DEF PersistentStep, PersistentMapStep, Persistent!Save

\* updateDatabase writes all changes, or a batch of them and keeps the rest.
LEMMA UpdateDatabaseStep ==
    ASSUME AreaInv, ~IsEphemeral, UpdateDatabase
    PROVE  AreaInv' /\ PersistentStep
<1>1. Exists
  BY Zenon DEF UpdateDatabase, AreaInv, NothingOutstanding
<1>2. /\ didScheduleDatabaseUpdate /\ shouldClearItems' = FALSE
      /\ UNCHANGED <<areaID, lastAreaID, items, database>>
  BY Zenon DEF UpdateDatabase
<1>3. CASE /\ file' = FileWith(Keys) /\ changedItems' = NoChanges
           /\ didScheduleDatabaseUpdate' = FALSE
  <2>1. AreaTypeOK' /\ Exists'
    BY <1>1, <1>2, <1>3, FileWithType, Zenon DEF AreaInv, AreaTypeOK, Exists, NoChanges
  <2>2. NothingOutstanding'
    BY <1>2, <1>3, Zenon DEF NothingOutstanding, NoChanges
  <2>3. FileWith(Keys)' = file' /\ ChangedKeys' = {}
    BY <2>1, <2>2, AreaAssumption, Zenon DEF AreaTypeOK, NothingOutstanding, FileWith, ChangedKeys, NoChanges, Maps
  <2>4. DatabaseAddsUp'
    BY <1>1, <1>2, <1>3, <2>3, Zenon DEF AreaInv, DatabaseAddsUp
  <2>5. PersistentStep
    BY <1>1, <1>2, <1>3, FileWithSaves, Zenon
  <2> QED
    BY <2>1, <2>4, <2>5, Zenon DEF AreaInv
<1>4. ASSUME Cardinality(ChangedKeys) > MaximumItemsToUpdate,
             NEW S \in SUBSET ChangedKeys, Cardinality(S) = MaximumItemsToUpdate, file' = FileWith(S),
             changedItems' = [k \in Keys |-> IF k \in S THEN NoChange ELSE changedItems[k]],
             UNCHANGED didScheduleDatabaseUpdate
      PROVE  AreaInv' /\ PersistentStep
  <2>1. AreaTypeOK' /\ Exists'
    BY <1>1, <1>2, <1>4, FileWithType, Zenon DEF AreaInv, AreaTypeOK, Exists
  <2>2. S \subseteq ChangedKeys /\ ChangedKeys \ S # {}
    <3>1. S \subseteq ChangedKeys /\ Cardinality(S) = MaximumItemsToUpdate
      BY <1>4, Zenon
    <3>2. S # ChangedKeys
      BY <1>4, <3>1, AreaAssumption
    <3> QED
      BY <3>1, <3>2, Zenon
  <2>3. ChangedKeys' # {}
    <3>1. PICK k \in ChangedKeys : k \notin S
      BY <2>2, Zenon
    <3>2. k \in Keys /\ changedItems'[k] # NoChange
      BY <1>4, <3>1, Zenon DEF ChangedKeys
    <3> QED
      BY <3>2, Zenon DEF ChangedKeys
  <2>4. items' = FileWith(Keys)'
    <3>1. ASSUME NEW k \in Keys PROVE items[k] = FileWith(Keys)'[k]
      <4>1. items[k] = FileWith(Keys)[k]
        BY <1>1, Zenon DEF AreaInv, DatabaseAddsUp
      <4>2. CASE k \in S
        <5>1. changedItems[k] # NoChange /\ changedItems'[k] = NoChange
          BY <1>4, <2>2, <4>2, Zenon DEF ChangedKeys
        <5> QED
          BY <1>2, <1>4, <4>1, <4>2, <5>1, Zenon DEF FileWith
      <4>3. CASE k \notin S
        <5>1. changedItems'[k] = changedItems[k]
          BY <1>4, <4>3, Zenon
        <5> QED
          BY <1>2, <1>4, <4>1, <4>3, <5>1, Zenon DEF FileWith
      <4> QED
        BY <4>2, <4>3, Zenon
    <3> QED
      BY <1>2, <2>1, <3>1, Zenon DEF AreaTypeOK, FileWith, Maps
  <2>5. DatabaseAddsUp'
    BY <1>1, <1>2, <1>4, <2>3, <2>4, Zenon DEF AreaInv, DatabaseAddsUp
  <2>6. PersistentStep
    BY <1>1, <1>2, <1>4, FileWithSaves, Zenon
  <2> QED
    BY <2>1, <2>5, <2>6, Zenon DEF AreaInv
<1> QED
  BY <1>3, <1>4, Zenon DEF UpdateDatabase

\* The data of the origin is deleted: a database that is open is closed first, so
\* that nothing outstanding is written to the new one.
LEMMA DeleteEntriesStep ==
    ASSUME AreaInv, ~IsEphemeral, DeleteEntries
    PROVE  AreaInv' /\ PersistentStep
<1>1. /\ file' = Empty /\ items' = Empty /\ UNCHANGED <<areaID, lastAreaID>>
      /\ NothingOutstanding'
  BY Zenon DEF DeleteEntries, DatabaseIsGone, NothingOutstanding, NoChanges
<1>2. AreaTypeOK'
  BY <1>1, MapsClosed, Zenon DEF AreaInv, AreaTypeOK, NothingOutstanding, NoChanges
<1>3. FileWith(Keys)' = file' /\ ChangedKeys' = {}
  BY <1>1, <1>2, AreaAssumption, Zenon
  DEF AreaTypeOK, NothingOutstanding, FileWith, ChangedKeys, NoChanges, Maps
<1>4. DatabaseAddsUp'
  BY <1>1, <1>3, Zenon DEF DatabaseAddsUp, NothingOutstanding
<1>5. Persistent!Delete
  BY <1>1, Zenon DEF Persistent!Delete, Persistent!Empty, Empty, Contents, NothingOutstanding
<1> QED
  BY <1>1, <1>2, <1>4, <1>5, Zenon DEF AreaInv, PersistentStep, PersistentMapStep

\* A removed session closes its areas.
LEMMA RemoveSessionStep ==
    ASSUME AreaInv, ~IsEphemeral, RemoveSession
    PROVE  AreaInv' /\ PersistentStep
<1>1. /\ DatabaseIsGone /\ areaID' = 0 /\ lastAreaID' = lastAreaID /\ items' = Empty
      /\ file' = IF didScheduleDatabaseUpdate THEN FileWith(Keys) ELSE file
  BY Zenon DEF RemoveSession, CloseDatabase
<1>2. file' = Contents
  <2>1. CASE Exists /\ didScheduleDatabaseUpdate
    BY <1>1, <2>1, Zenon DEF AreaInv, DatabaseAddsUp, Contents
  <2>2. CASE Exists /\ ~didScheduleDatabaseUpdate
    BY <1>1, <2>2, UnscheduledIsSaved, Zenon DEF Contents
  <2>3. CASE ~Exists
    BY <1>1, <2>3, Zenon DEF AreaInv, NothingOutstanding, Contents
  <2> QED
    BY <2>1, <2>2, <2>3, Zenon
<1> QED
  BY <1>1, <1>2, AreaCloses, Zenon

\* A crash leaves what was saved, or nothing when it comes right after a clear.
LEMMA CrashStep ==
    ASSUME AreaInv, ~IsEphemeral, Crash
    PROVE  AreaInv' /\ PersistentStep
<1>1. /\ file' \in IF shouldClearItems THEN {file, Empty} ELSE {file}
      /\ items' = Empty /\ areaID' = 0 /\ lastAreaID' = 0 /\ NothingOutstanding'
  BY Zenon DEF Crash, DatabaseIsGone, NothingOutstanding, NoChanges
<1>2. AreaTypeOK' /\ ~Exists'
  <2>1. file' \in Maps
    BY <1>1, MapsClosed DEF AreaInv, AreaTypeOK
  <2> QED
    BY <1>1, <2>1, MapsClosed, Zenon DEF AreaTypeOK, Exists, NothingOutstanding, NoChanges
<1>3. Persistent!Crash
  BY <1>1, <1>2, Zenon DEF Persistent!Crash, Persistent!Empty, Empty, Contents, NothingOutstanding
<1> QED
  BY <1>1, <1>2, <1>3, Zenon DEF AreaInv, DatabaseAddsUp, PersistentStep, PersistentMapStep

\* Every task of the network process preserves AreaInv and does to the persistent
\* map what its name says, or nothing.
LEMMA AreaStep ==
    ASSUME AreaInv, ~IsEphemeral, [AreaNext]_areaVars
    PROVE  AreaInv' /\ PersistentStep
<1>1. CASE \E p \in Processes : ConnectToStorageArea(p)
  BY <1>1, ConnectStep, Zenon
<1>2. CASE \E p \in Processes : DisconnectFromStorageArea(p) \/ RemoveConnection(p)
  BY <1>2, RemoveListenerStep, Zenon DEF DisconnectFromStorageArea, RemoveConnection
<1>3. CASE \E p \in Processes : Clear(p)
  BY <1>3, ClearStep, Zenon
<1>4. CASE \E p \in Processes, k \in Keys : RemoveItem(p, k)
  BY <1>4, RemoveItemStep, Zenon
<1>5. CASE \E p \in Processes, k \in Keys, v \in Values : SetItem(p, k, v)
  BY <1>5, SetItemStep, Zenon
<1>6. CASE (\E p \in Processes : SendEvent(p)) \/ AddSession \/ UNCHANGED areaVars
  <2>1. UNCHANGED <<areaID, lastAreaID, items, databaseVars>>
    BY <1>6, Zenon DEF SendEvent, AddSession, areaVars
  <2> QED
    BY <2>1, InnerUnchanged, Zenon DEF databaseVars
<1>7. CASE GetItems
  BY <1>7, InnerUnchanged, Zenon DEF GetItems, OpenDatabaseIfNeeded
<1>8. CASE UpdateDatabase
  BY <1>8, UpdateDatabaseStep, Zenon
<1>9. CASE DeleteEntries
  BY <1>9, DeleteEntriesStep, Zenon
<1>10. CASE RemoveSession
  BY <1>10, RemoveSessionStep, Zenon
<1>11. CASE Crash
  BY <1>11, CrashStep, Zenon
<1> QED
  BY <1>1, <1>2, <1>3, <1>4, <1>5, <1>6, <1>7, <1>8, <1>9, <1>10, <1>11 DEF AreaNext

\* A network process that has just started satisfies AreaInv, and has a map that
\* is the saved one.
LEMMA AreaStarts ==
    ASSUME AreaInit, ~IsEphemeral
    PROVE  AreaInv /\ Persistent!Init
<1>1. AreaTypeOK /\ NothingOutstanding /\ ~Exists
  BY MapsClosed, Zenon DEF AreaInit, AreaTypeOK, NothingOutstanding, NoChanges, Exists
<1>2. Contents = file /\ file \in Persistent!Maps /\ shouldClearItems = FALSE
  BY <1>1, Zenon DEF Contents, AreaTypeOK, Maps, Persistent!Maps, NothingOutstanding
<1> QED
  BY <1>1, <1>2, Zenon DEF AreaInv, DatabaseAddsUp, Persistent!Init

\* In every behaviour of an area with a database, the file, the outstanding clear
\* and the outstanding changes add up to the map in memory, and an update is
\* scheduled exactly as long as something is outstanding.
THEOREM AreaKeepsDatabase ==
    ASSUME ~IsEphemeral
    PROVE  AreaSpec => []DatabaseAddsUp
<1>1. AreaInit => AreaInv
  BY AreaStarts, Zenon
<1>2. AreaInv /\ [AreaNext]_areaVars => AreaInv'
  BY AreaStep, Zenon
<1>3. AreaInv => DatabaseAddsUp
  BY Zenon DEF AreaInv
<1> QED
  BY <1>1, <1>2, <1>3, PTL DEF AreaSpec

\* An area with a database implements a persistent map: no change is lost,
\* brought back or saved without having been made, by batches of updates, by
\* closing and reopening or by the removal of the session.  Only a crash of the
\* network process takes changes back, to what was saved.
THEOREM AreaIsPersistentMap ==
    ASSUME ~IsEphemeral
    PROVE  AreaSpec => ImplementsPersistentMap
<1>1. AreaInit => AreaInv /\ Persistent!Init
  BY AreaStarts, Zenon
<1>2. AreaInv /\ [AreaNext]_areaVars => AreaInv' /\ [PersistentMapStep]_(Persistent!vars)
  BY AreaStep, Zenon DEF PersistentStep
<1>3. [PersistentMapStep]_(Persistent!vars) => [Persistent!Next]_(Persistent!vars)
  BY Zenon DEF PersistentMapStep, Persistent!Next
<1> QED
  BY <1>1, <1>2, <1>3, PTL DEF AreaSpec, ImplementsPersistentMap, Persistent!Spec

-----------------------------------------------------------------------------
(***************************************************************************)
(* The web processes and the message handlers of StorageAreaMap use the    *)
(* area only through its tasks, so what is shown of the area holds of the  *)
(* whole.                                                                  *)
(***************************************************************************)

\* What a web process does by itself reaches the area only by messages.
LEMMA WebProcessStepLeavesArea ==
    ASSUME NEW p \in Processes, WebProcessStep(p) \/ WriterStep(p)
    PROVE  UNCHANGED areaVars
<1>1. CASE Connect(p) \/ EnsureMap(p) \/ DestroyMap(p)
  BY <1>1, Zenon DEF Connect, EnsureMap, DestroyMap
<1>2. CASE ConnectFails(p) \/ GetValuesFails(p)
  BY <1>2, Zenon DEF ConnectFails, GetValuesFails
<1>3. CASE DidReceiveMessage(p) \/ NetworkProcessConnectionClosed(p)
  BY <1>3, Zenon DEF DidReceiveMessage, NetworkProcessConnectionClosed
<1>4. CASE WriterStep(p)
  BY <1>4, Zenon DEF WriterStep, ClearMap, RemoveItemFromMap, SetItemInMap
<1> QED
  BY <1>1, <1>2, <1>3, <1>4, Zenon DEF WebProcessStep

\* What the handler of a message finds in it.
LEMMA HeadOfRequests ==
    ASSUME LinkTypeOK, NEW p \in Processes, requests[p] # <<>>
    PROVE  /\ Head(requests[p]).name = "RemoveItem" => Head(requests[p]).key \in Keys
           /\ Head(requests[p]).name = "SetItem" => /\ Head(requests[p]).key \in Keys
                                                   /\ Head(requests[p]).value \in Values
<1>1. Head(requests[p]) \in Requests
  BY DEF LinkTypeOK
<1> QED
  BY <1>1, Zenon DEF Requests

\* Every handler of a message is one task of the area, or finds no area.
LEMMA HandleRequestIsTask ==
    ASSUME LinkTypeOK, NEW p \in Processes, HandleRequest(p)
    PROVE  [AreaNext]_areaVars
<1> DEFINE message == Head(requests[p])
<1>1. CASE HandleConnect(p)
  BY <1>1, Zenon DEF HandleConnect, AreaNext
<1>2. CASE HandleDisconnect(p)
  BY <1>2, Zenon DEF HandleDisconnect, AreaNext
<1>3. CASE HandleGetValues(p)
  BY <1>3, Zenon DEF HandleGetValues, AreaNext
<1>4. CASE HandleSetItem(p)
  <2>1. message.key \in Keys /\ message.value \in Values
    BY <1>4, HeadOfRequests, Zenon DEF HandleSetItem, Receive
  <2>2. SetItem(p, message.key, message.value) \/ UNCHANGED areaVars
    BY <1>4, Zenon DEF HandleSetItem
  <2> QED
    BY <2>1, <2>2, Zenon DEF AreaNext
<1>5. CASE HandleRemoveItem(p)
  <2>1. message.key \in Keys
    BY <1>5, HeadOfRequests, Zenon DEF HandleRemoveItem, Receive
  <2>2. RemoveItem(p, message.key) \/ UNCHANGED areaVars
    BY <1>5, Zenon DEF HandleRemoveItem
  <2> QED
    BY <2>1, <2>2, Zenon DEF AreaNext
<1>6. CASE HandleClear(p)
  BY <1>6, Zenon DEF HandleClear, AreaNext
<1> QED
  BY <1>1, <1>2, <1>3, <1>4, <1>5, <1>6 DEF HandleRequest

\* Every step of the whole is a task of the area or leaves the area alone.
LEMMA NextIsTask ==
    ASSUME LinkTypeOK, [Next]_vars
    PROVE  [AreaNext]_areaVars
<1>1. CASE \E p \in Processes : WebProcessStep(p)
  BY <1>1, WebProcessStepLeavesArea, Zenon
<1>2. CASE \E p \in Writers : WriterStep(p)
  BY <1>2, WebProcessStepLeavesArea, MapAssumption, Zenon
<1>3. CASE \E p \in Processes : HandleRequest(p)
  BY <1>3, HandleRequestIsTask, Zenon
<1>4. CASE \E p \in Processes : SendStorageEvent(p) \/ WebProcessExits(p)
  BY <1>4, Zenon DEF SendStorageEvent, WebProcessExits, AreaNext
<1>5. CASE WriteOut \/ DeleteData \/ SessionIsRemoved \/ SessionIsAdded \/ NetworkProcessCrashes
  BY <1>5, Zenon DEF WriteOut, DeleteData, SessionIsRemoved, SessionIsAdded, NetworkProcessCrashes, AreaNext
<1>6. CASE UNCHANGED vars
  BY <1>6, Zenon DEF vars
<1> QED
  BY <1>1, <1>2, <1>3, <1>4, <1>5, <1>6 DEF Next

\* Identifiers of areas are numbers.
LEMMA AreaIDs ==
    ASSUME LinkTypeOK, [AreaNext]_areaVars
    PROVE  areaID' \in Nat /\ lastAreaID' \in Nat
<1>1. CASE \E p \in Processes : ConnectToStorageArea(p)
  BY <1>1 DEF LinkTypeOK, ConnectToStorageArea
<1>2. CASE \E p \in Processes : DisconnectFromStorageArea(p) \/ RemoveConnection(p)
  BY <1>2 DEF LinkTypeOK, DisconnectFromStorageArea, RemoveConnection, RemoveListener
<1>3. CASE \/ \E p \in Processes : Clear(p) \/ SendEvent(p)
           \/ \E p \in Processes, k \in Keys : RemoveItem(p, k) \/ \E v \in Values : SetItem(p, k, v)
           \/ GetItems \/ UpdateDatabase \/ DeleteEntries \/ AddSession \/ UNCHANGED areaVars
  BY <1>3, Zenon DEF LinkTypeOK, Clear, SendEvent, RemoveItem, SetItem, GetItems, UpdateDatabase,
     DeleteEntries, AddSession, areaVars
<1>4. CASE RemoveSession \/ Crash
  BY <1>4 DEF LinkTypeOK, RemoveSession, Crash
<1> QED
  BY <1>1, <1>2, <1>3, <1>4 DEF AreaNext

Channels == [Processes -> Seq(Requests)]

\* A message put into a channel.
LEMMA ChannelAppend ==
    ASSUME requests \in Channels, NEW p \in Processes, NEW m \in Requests,
           requests' = [requests EXCEPT ![p] = Append(@, m)]
    PROVE  requests' \in Channels
<1>1. requests[p] \in Seq(Requests)
  BY Zenon DEF Channels
<1>2. Append(requests[p], m) \in Seq(Requests)
  BY <1>1
<1> QED
  BY <1>2, Zenon DEF Channels

\* A message sent on a connection whose other end may be gone.
LEMMA ChannelSend ==
    ASSUME requests \in Channels, NEW p \in Processes, NEW m \in Requests, Send(p, m)
    PROVE  requests' \in Channels
  BY ChannelAppend, Zenon DEF Send

\* A message taken out of a channel by its handler.
LEMMA ChannelReceive ==
    ASSUME requests \in Channels, NEW p \in Processes, requests[p] # <<>>,
           requests' = [requests EXCEPT ![p] = Tail(@)]
    PROVE  requests' \in Channels
<1>1. requests[p] \in Seq(Requests)
  BY Zenon DEF Channels
<1>2. Tail(requests[p]) \in Seq(Requests)
  BY <1>1
<1> QED
  BY <1>2, Zenon DEF Channels

\* The seed only ever grows, or starts again with a new StorageAreaMap.
LEMMA SeedType ==
    ASSUME LinkTypeOK, NEW p \in Processes,
           \/ ResetValues(p) \/ ResetValuesWithSeed(p, 0) \/ ClearItems(p)
           \/ UNCHANGED currentSeed
    PROVE  currentSeed' \in [Processes -> Nat]
<1>1. currentSeed \in [Processes -> Nat] /\ currentSeed[p] + 1 \in Nat
  BY DEF LinkTypeOK
<1>2. \/ currentSeed' = [currentSeed EXCEPT ![p] = currentSeed[p] + 1]
      \/ currentSeed' = [currentSeed EXCEPT ![p] = 0]
      \/ currentSeed' = currentSeed
  BY Zenon DEF ResetValues, ResetValuesWithSeed, ClearItems
<1> QED
  BY <1>1, <1>2

\* Messages of the network process change the seed only by resetValues.
LEMMA HandleMessageSeed ==
    ASSUME NEW p, NEW message, HandleMessage(p, message)
    PROVE  ResetValues(p) \/ UNCHANGED currentSeed
<1>1. CASE DidSetItem(p, message)
  BY <1>1, Zenon DEF DidSetItem
<1>2. CASE DidRemoveItem(p, message) \/ DidClear(p)
  BY <1>2, Zenon DEF DidRemoveItem, DidClear
<1>3. CASE DispatchStorageEvent(p, message)
  BY <1>3, Zenon DEF DispatchStorageEvent, ApplyChange, mapVars
<1>4. CASE ResetValues(p) \/ UNCHANGED mapVars
  BY <1>4, Zenon DEF mapVars
<1> QED
  BY <1>1, <1>2, <1>3, <1>4 DEF HandleMessage

\* Calls from scripts.
LEMMA WriterStepTypes ==
    ASSUME LinkTypeOK, NEW p \in Processes, WriterStep(p)
    PROVE  /\ mapID' \in [Processes -> Nat] /\ currentSeed' \in [Processes -> Nat]
           /\ requests' \in Channels
<1>1. requests \in Channels /\ mapID[p] \in Nat /\ currentSeed[p] \in Nat
  BY Zenon DEF LinkTypeOK, Channels
<1>2. CASE ClearMap(p)
  <2>1. currentSeed' \in [Processes -> Nat]
    BY <1>2, SeedType, Zenon DEF ClearMap
  <2>2. [name |-> "Clear", area |-> mapID[p], seed |-> currentSeed'[p]] \in Requests
    BY <1>1, <2>1, Zenon DEF Requests
  <2>3. requests' \in Channels
    BY <1>1, <1>2, <2>2, ChannelSend, Zenon DEF ClearMap
  <2> QED
    BY <1>2, <2>1, <2>3, Zenon DEF ClearMap, linkVars, LinkTypeOK
<1>3. ASSUME NEW k \in Keys, RemoveItemFromMap(p, k)
      PROVE  UNCHANGED <<mapID, currentSeed>> /\ requests' \in Channels
  <2>1. [name |-> "RemoveItem", area |-> mapID[p], seed |-> currentSeed[p], key |-> k] \in Requests
    BY <1>1, Zenon DEF Requests
  <2> QED
    BY <1>1, <1>3, <2>1, ChannelSend, Zenon DEF RemoveItemFromMap, ChangeItem, linkVars
<1>4. ASSUME NEW k \in Keys, NEW v \in Values, SetItemInMap(p, k, v)
      PROVE  UNCHANGED <<mapID, currentSeed>> /\ requests' \in Channels
  <2>1. [name |-> "SetItem", area |-> mapID[p], seed |-> currentSeed[p], key |-> k, value |-> v] \in Requests
    BY <1>1, Zenon DEF Requests
  <2> QED
    BY <1>1, <1>4, <2>1, ChannelSend, Zenon DEF SetItemInMap, ChangeItem, linkVars
<1> QED
  BY <1>2, <1>3, <1>4, Zenon DEF WriterStep, LinkTypeOK

\* The other steps of a web process.
LEMMA WebProcessStepTypes ==
    ASSUME LinkTypeOK, NEW p \in Processes, WebProcessStep(p)
    PROVE  /\ mapID' \in [Processes -> Nat] /\ currentSeed' \in [Processes -> Nat]
           /\ requests' \in Channels
<1>1. /\ requests \in Channels /\ mapID[p] \in Nat /\ currentSeed[p] \in Nat
      /\ mapID \in [Processes -> Nat] /\ currentSeed \in [Processes -> Nat]
  BY Zenon DEF LinkTypeOK, Channels
<1>2. CASE Connect(p)
  <2>1. [name |-> "Connect"] \in Requests
    BY Zenon DEF Requests
  <2>2. requests' = requests \/ requests' = [requests EXCEPT ![p] = Append(@, [name |-> "Connect"])]
    BY <1>2, Zenon DEF Connect
  <2>3. requests' \in Channels
    BY <1>1, <2>1, <2>2, ChannelAppend, Zenon
  <2> QED
    BY <1>1, <1>2, <2>3, Zenon DEF Connect, mapVars
<1>3. CASE EnsureMap(p)
  <2>1. [name |-> "GetValues", area |-> mapID[p]] \in Requests
    BY <1>1, Zenon DEF Requests
  <2> QED
    BY <1>1, <1>3, <2>1, ChannelSend, Zenon DEF EnsureMap, mapVars
<1>4. CASE DestroyMap(p)
  <2>1. [name |-> "Disconnect", area |-> mapID[p]] \in Requests
    BY <1>1, Zenon DEF Requests
  <2>2. requests' \in Channels
    BY <1>1, <1>4, <2>1, ChannelSend, Zenon DEF DestroyMap
  <2>3. currentSeed' \in [Processes -> Nat]
    BY <1>4, SeedType, Zenon DEF DestroyMap
  <2> QED
    BY <1>1, <1>4, <2>2, <2>3, Zenon DEF DestroyMap
<1>5. CASE ConnectFails(p)
  <2>1. requests' \in Channels
    BY <1>1, <1>5, ChannelReceive, Zenon DEF ConnectFails
  <2>2. ClearItems(p) \/ UNCHANGED currentSeed
    BY <1>5, Zenon DEF ConnectFails, ChangeItem, mapVars
  <2>3. currentSeed' \in [Processes -> Nat]
    BY <2>2, SeedType, Zenon
  <2> QED
    BY <1>1, <1>5, <2>1, <2>3, Zenon DEF ConnectFails
<1>6. CASE GetValuesFails(p)
  BY <1>1, <1>6, Zenon DEF GetValuesFails
<1>7. CASE DidReceiveMessage(p)
  <2>1. ResetValues(p) \/ UNCHANGED currentSeed
    BY <1>7, HandleMessageSeed, Zenon DEF DidReceiveMessage, mapVars
  <2>2. currentSeed' \in [Processes -> Nat]
    BY <2>1, SeedType, Zenon
  <2> QED
    BY <1>1, <1>7, <2>2, Zenon DEF DidReceiveMessage, linkVars
<1>8. CASE NetworkProcessConnectionClosed(p)
  <2>1. ResetValues(p) \/ UNCHANGED currentSeed
    BY <1>8, Zenon DEF NetworkProcessConnectionClosed, mapVars
  <2>2. currentSeed' \in [Processes -> Nat]
    BY <2>1, SeedType, Zenon
  <2> QED
    BY <1>1, <1>8, <2>2, Zenon DEF NetworkProcessConnectionClosed
<1> QED
  BY <1>2, <1>3, <1>4, <1>5, <1>6, <1>7, <1>8, Zenon DEF WebProcessStep

\* A handler takes its message away; only a connection gives the map an identifier.
LEMMA HandleRequestTypes ==
    ASSUME LinkTypeOK, NEW p \in Processes, HandleRequest(p), areaID' \in Nat
    PROVE  /\ mapID' \in [Processes -> Nat] /\ currentSeed' \in [Processes -> Nat]
           /\ requests' \in Channels
<1>1. requests \in Channels /\ mapID \in [Processes -> Nat] /\ currentSeed \in [Processes -> Nat]
  BY Zenon DEF LinkTypeOK, Channels
<1>2. requests[p] # <<>> /\ requests' = [requests EXCEPT ![p] = Tail(@)]
  BY Zenon DEF HandleRequest, HandleConnect, HandleDisconnect, HandleGetValues, HandleSetItem,
     HandleRemoveItem, HandleClear, Receive
<1>3. requests' \in Channels
  BY <1>1, <1>2, ChannelReceive, Zenon
<1>4. UNCHANGED currentSeed
  BY Zenon DEF HandleRequest, HandleConnect, HandleDisconnect, HandleGetValues, HandleSetItem,
     HandleRemoveItem, HandleClear, mapVars
<1>5. mapID' = mapID \/ mapID' = [mapID EXCEPT ![p] = areaID']
  BY Zenon DEF HandleRequest, HandleConnect, HandleDisconnect, HandleGetValues, HandleSetItem,
     HandleRemoveItem, HandleClear
<1> QED
  BY <1>1, <1>3, <1>4, <1>5, Zenon

\* LinkTypeOK is inductive.
LEMMA LinkTypeOKStep ==
    ASSUME LinkTypeOK, [Next]_vars
    PROVE  LinkTypeOK'
<1>1. areaID' \in Nat /\ lastAreaID' \in Nat
  BY NextIsTask, AreaIDs, Zenon
<1>2. requests \in Channels /\ mapID \in [Processes -> Nat] /\ currentSeed \in [Processes -> Nat]
  BY Zenon DEF LinkTypeOK, Channels
<1> SUFFICES /\ mapID' \in [Processes -> Nat] /\ currentSeed' \in [Processes -> Nat]
             /\ requests' \in Channels
  BY <1>1, Zenon DEF LinkTypeOK, Channels
<1>3. CASE \E p \in Processes : WebProcessStep(p)
  BY <1>3, WebProcessStepTypes, Zenon
<1>4. CASE \E p \in Writers : WriterStep(p)
  BY <1>4, WriterStepTypes, MapAssumption, Zenon
<1>5. CASE \E p \in Processes : HandleRequest(p)
  BY <1>1, <1>5, HandleRequestTypes, Zenon
<1>6. ASSUME NEW p \in Processes, WebProcessExits(p)
      PROVE  /\ mapID' \in [Processes -> Nat] /\ currentSeed' \in [Processes -> Nat]
             /\ requests' \in Channels
  <2>1. currentSeed' \in [Processes -> Nat]
    BY <1>6, SeedType, Zenon DEF WebProcessExits
  <2>2. mapID' = [mapID EXCEPT ![p] = 0] /\ requests' = [requests EXCEPT ![p] = <<>>]
    BY <1>6, Zenon DEF WebProcessExits
  <2>3. <<>> \in Seq(Requests)
    OBVIOUS
  <2> QED
    BY <1>2, <2>1, <2>2, <2>3, Zenon DEF Channels
<1>7. CASE NetworkProcessCrashes
  <2>1. UNCHANGED <<mapID, currentSeed>> /\ requests' = [p \in Processes |-> <<>>]
    BY <1>7, Zenon DEF NetworkProcessCrashes, mapVars
  <2>2. <<>> \in Seq(Requests)
    OBVIOUS
  <2> QED
    BY <1>2, <2>1, <2>2, Zenon DEF Channels
<1>8. CASE \/ \E p \in Processes : SendStorageEvent(p)
           \/ WriteOut \/ DeleteData \/ SessionIsRemoved \/ SessionIsAdded \/ UNCHANGED vars
  BY <1>2, <1>8, Zenon DEF SendStorageEvent, WriteOut, DeleteData, SessionIsRemoved, SessionIsAdded,
     vars, mapVars, linkVars
<1> QED
  BY <1>3, <1>4, <1>5, <1>6, <1>7, <1>8, Zenon DEF Next

\* The web processes and the handlers of their messages use the area as
\* StorageArea lets anyone use it: the composition implements AreaSpec.
THEOREM MapsUseArea == Spec => AreaSpec
<1>1. Init => LinkTypeOK /\ AreaInit
  BY DEF Init, AreaInit, LinkTypeOK
<1>2. LinkTypeOK /\ [Next]_vars => LinkTypeOK' /\ [AreaNext]_areaVars
  BY LinkTypeOKStep, NextIsTask, Zenon
<1> QED
  BY <1>1, <1>2, PTL DEF Spec, AreaSpec

\* With any number of web processes that write, read, come and go, the database
\* of the area and what is outstanding add up to its items.
THEOREM StorageKeepsDatabase ==
    ASSUME ~IsEphemeral
    PROVE  Spec => []DatabaseAddsUp
  BY MapsUseArea, AreaKeepsDatabase, Zenon

\* So the origin's local storage is one persistent map to all of them: web
\* processes that leave, removal of the session and deletion of data lose no
\* other change, and a crash of the network process goes back to what was saved.
THEOREM StorageIsPersistentMap ==
    ASSUME ~IsEphemeral
    PROVE  Spec => ImplementsPersistentMap
  BY MapsUseArea, AreaIsPersistentMap, Zenon

-----------------------------------------------------------------------------
(* Every step is one of those of LocalStep to every process. *)

\* No StorageAreaMap is destroyed while its process lives, no session is removed and
\* the network process does not crash.
Undisturbed == Disruptions \cap {"destroy", "removeSession", "crash"} = {}

\* What LinkInv says of one process.
LEMMA LinkFacts ==
    ASSUME LinkInv, NEW p \in Processes
    PROVE  /\ TypesOf(p) /\ Linked(p)
           /\ mapID[p] \in Nat /\ currentSeed[p] \in Nat /\ requests[p] \in Seq(Requests)
           /\ DOMAIN mapID = Processes /\ DOMAIN currentSeed = Processes /\ DOMAIN requests = Processes
           /\ mapID[p] # 0 => Connected(p)
           /\ mapID[p] = 0 => Unconnected(p)
  BY Zenon DEF LinkInv, LinkTypeOK, Linked

\* A process that a step does not touch.
LEMMA UntouchedRests ==
    ASSUME NEW p \in Processes, Linked(p), Untouched(p), mainRunLoop'[p] = mainRunLoop[p],
           p \in listeners' <=> p \in listeners,
           mapID[p] = 0 \/ (areaID' = areaID /\ items' = items)
    PROVE  Outcome(p)
<1>1. CASE mapID[p] = 0
  <2>1. Unconnected(p)
    BY <1>1, Zenon DEF Linked
  <2>2. NoCopy(p)'
    BY <2>1, Zenon DEF Unconnected, NoCopy, Untouched, KeepsCopy
  <2>3. Unconnected(p)' /\ mapID'[p] = 0
    BY <1>1, <2>1, <2>2, Zenon DEF Unconnected, Untouched, KeepsLink
  <2> QED
    BY <2>2, <2>3, Zenon DEF Outcome, Starts, Linked
<1>2. CASE mapID[p] # 0
  <2>1. Connected(p)
    BY <1>2, Zenon DEF Linked
  <2> QED
    BY <1>2, <2>1, Zenon DEF Outcome, Stays, LocalStep, Rests, Connected, Untouched, KeepsLink
<1> QED
  BY <1>1, <1>2, Zenon

\* connect() asks for the area.
LEMMA ConnectOutcome ==
    ASSUME LinkInv, NEW p \in Processes, NEW q \in Processes, Connect(q)
    PROVE  Outcome(p)
<1>1. /\ connection' = [connection EXCEPT ![q] = "open"]
      /\ waitingFor' = [waitingFor EXCEPT ![q] = "connect"]
      /\ requests' = [requests EXCEPT ![q] = <<[name |-> "Connect"]>>]
      /\ mapID[q] = 0
      /\ UNCHANGED <<mapID, map, pendingValueChanges, hasPendingClear, currentSeed, incoming,
                     mainRunLoop, listeners, areaID, items>>
  <2>1. mapID[q] = 0 /\ waitingFor[q] = "nothing"
    BY Zenon DEF Connect, Runs
  <2>2. requests[q] = <<>> /\ connection[q] \in {"none", "open"}
    BY <2>1, LinkFacts, Zenon DEF Unconnected
  <2>3. Append(requests[q], [name |-> "Connect"]) = <<[name |-> "Connect"]>>
    BY <2>2
  <2> QED
    BY <2>1, <2>2, <2>3, Zenon DEF Connect, mapVars, areaVars
<1>2. CASE p # q
  <2>1. Untouched(p)
    BY <1>1, <1>2 DEF Untouched, KeepsCopy, KeepsLink
  <2> QED
    BY <1>1, <2>1, LinkFacts, UntouchedRests, Zenon
<1>3. CASE p = q
  <2>1. Unconnected(p)
    BY <1>1, <1>3, LinkFacts, Zenon
  <2>2. waitingFor'[p] = "connect" /\ connection'[p] = "open" /\ requests'[p] = <<[name |-> "Connect"]>>
    BY <1>1, <1>3, LinkFacts, Zenon DEF LinkInv, Arrays, IsArray
  <2>3. NoCopy(p)'
    BY <1>1, <2>1, Zenon DEF Unconnected, NoCopy
  <2> QED
    BY <1>1, <1>3, <2>1, <2>2, <2>3, Zenon DEF Outcome, Starts, Linked, Unconnected
<1> QED
  BY <1>2, <1>3, Zenon

\* A request of a connected process goes into its channel, and to no other process.
LEMMA ConnectedSends ==
    ASSUME LinkInv, NEW q \in Processes, mapID[q] # 0, NEW m, Send(q, m)
    PROVE  /\ requests'[q] = Append(requests[q], m)
           /\ \A p \in Processes : p # q => requests'[p] = requests[p]
<1>1. connection[q] = "open"
  BY LinkFacts, Zenon DEF Connected
<1> QED
  BY <1>1, LinkFacts, Zenon DEF Send

\* ensureMap() asks for the items.
LEMMA EnsureMapOutcome ==
    ASSUME LinkInv, NEW p \in Processes, NEW q \in Processes, EnsureMap(q)
    PROVE  Outcome(p)
<1>1. /\ waitingFor[q] = "nothing" /\ mapID[q] # 0 /\ map[q] = Null
      /\ waitingFor' = [waitingFor EXCEPT ![q] = "getValues"]
      /\ UNCHANGED <<mapID, connection, map, pendingValueChanges, hasPendingClear, currentSeed, incoming,
                     mainRunLoop, listeners, areaID, items>>
  BY Zenon DEF EnsureMap, Runs, mapVars, areaVars
<1>2. /\ requests'[q] = Append(requests[q], [name |-> "GetValues", area |-> mapID[q]])
      /\ \A r \in Processes : r # q => requests'[r] = requests[r]
  BY <1>1, ConnectedSends, Zenon DEF EnsureMap
<1>3. CASE p # q
  <2>1. Untouched(p)
    BY <1>1, <1>2, <1>3 DEF Untouched, KeepsCopy, KeepsLink
  <2> QED
    BY <1>1, <2>1, LinkFacts, UntouchedRests, Zenon
<1>4. CASE p = q
  <2>1. waitingFor'[p] = "getValues"
    BY <1>1, <1>4, Zenon DEF LinkInv, Arrays, IsArray
  <2>2. LoadsCopy(p)
    BY <1>1, <1>2, <1>4, <2>1, Zenon DEF LoadsCopy, KeepsCopy
  <2>3. Stays(p)
    BY <1>1, <1>4, LinkFacts, Zenon DEF Stays, Connected
  <2> QED
    BY <2>2, <2>3, Zenon DEF Outcome, LocalStep
<1> QED
  BY <1>3, <1>4

\* A script sets or removes an item of its copy.
LEMMA ItemOutcome ==
    ASSUME LinkInv, NEW p \in Processes, NEW q \in Writers,
           waitingFor[q] = "nothing", mapID[q] # 0, map[q] # Null,
           NEW k \in Keys, NEW v, NEW m,
           \/ v \in Values /\ m = SetRequest(q, k, v)
           \/ v = Null /\ m = RemoveRequest(q, k),
           ChangeItem(q, map[q], k, v), Send(q, m), UNCHANGED <<areaVars, linkVars, incoming>>
    PROVE  Outcome(p)
<1>1. /\ map' = [map EXCEPT ![q] = [map[q] EXCEPT ![k] = v]]
      /\ pendingValueChanges' = [pendingValueChanges EXCEPT ![q][k] = @ + 1]
      /\ UNCHANGED <<mapID, connection, waitingFor, hasPendingClear, currentSeed, incoming,
                     mainRunLoop, listeners, areaID, items>>
      /\ q \in Processes
  BY MapAssumption, Zenon DEF ChangeItem, linkVars, areaVars
<1>2. /\ requests'[q] = Append(requests[q], m)
      /\ \A r \in Processes : r # q => requests'[r] = requests[r]
  BY <1>1, ConnectedSends, Zenon
<1>3. CASE p # q
  <2>1. Untouched(p)
    BY <1>1, <1>2, <1>3 DEF Untouched, KeepsCopy, KeepsLink
  <2> QED
    BY <1>1, <2>1, LinkFacts, UntouchedRests, Zenon
<1>4. CASE p = q
  <2>1. /\ map'[p] = [map[p] EXCEPT ![k] = v]
        /\ pendingValueChanges'[p] = [pendingValueChanges[p] EXCEPT ![k] = pendingValueChanges[p][k] + 1]
    BY <1>1, <1>4, Zenon DEF LinkInv, Arrays, IsArray
  <2>2. ChangesCopy(p, k, v, m)
    BY <1>1, <1>2, <1>4, <2>1, Zenon DEF ChangesCopy
  <2>3. ChangesOneItem(p)
    BY <1>4, <2>2, Zenon DEF ChangesOneItem
  <2>4. Stays(p)
    BY <1>1, <1>4, LinkFacts, Zenon DEF Stays, Connected
  <2> QED
    BY <2>3, <2>4, Zenon DEF Outcome, LocalStep
<1> QED
  BY <1>3, <1>4, Zenon

\* A script clears its copy.
LEMMA ClearOutcome ==
    ASSUME LinkInv, NEW p \in Processes, NEW q \in Writers, ClearMap(q)
    PROVE  Outcome(p)
<1>1. /\ q \in Processes /\ waitingFor[q] = "nothing" /\ mapID[q] # 0
      /\ map' = [map EXCEPT ![q] = Empty]
      /\ pendingValueChanges' = [pendingValueChanges EXCEPT ![q] = NonePending]
      /\ hasPendingClear' = [hasPendingClear EXCEPT ![q] = TRUE]
      /\ currentSeed' = [currentSeed EXCEPT ![q] = currentSeed[q] + 1]
      /\ UNCHANGED <<mapID, connection, waitingFor, incoming, mainRunLoop, listeners, areaID, items>>
  BY MapAssumption, Zenon DEF ClearMap, ClearItems, Runs, linkVars, areaVars
<1>2. currentSeed'[q] = currentSeed[q] + 1
  BY <1>1, LinkFacts, Zenon
<1>3. /\ requests'[q] = Append(requests[q], [name |-> "Clear", area |-> mapID[q], seed |-> currentSeed[q] + 1])
      /\ \A r \in Processes : r # q => requests'[r] = requests[r]
  BY <1>1, <1>2, ConnectedSends, Zenon DEF ClearMap
<1>4. CASE p # q
  <2>1. Untouched(p)
    BY <1>1, <1>3, <1>4, LinkFacts DEF Untouched, KeepsCopy, KeepsLink
  <2> QED
    BY <1>1, <2>1, LinkFacts, UntouchedRests, Zenon
<1>5. CASE p = q
  <2>1. map'[p] = Empty /\ pendingValueChanges'[p] = NonePending /\ hasPendingClear'[p] = TRUE
    BY <1>1, <1>5, Zenon DEF LinkInv, Arrays, IsArray
  <2>2. ClearsCopy(p)
    BY <1>1, <1>2, <1>3, <1>5, <2>1, Zenon DEF ClearsCopy
  <2>3. Stays(p)
    BY <1>1, <1>5, LinkFacts, Zenon DEF Stays, Connected
  <2> QED
    BY <2>2, <2>3, Zenon DEF Outcome, LocalStep
<1> QED
  BY <1>4, <1>5, Zenon

\* A call of a script that changes items.
LEMMA WriterOutcome ==
    ASSUME LinkInv, NEW p \in Processes, NEW q \in Writers, WriterStep(q)
    PROVE  Outcome(p)
<1>1. CASE ClearMap(q)
  BY <1>1, ClearOutcome, Zenon
<1>2. ASSUME NEW k \in Keys, RemoveItemFromMap(q, k)
      PROVE  Outcome(p)
  BY <1>2, ItemOutcome, Zenon DEF RemoveItemFromMap, Runs, RemoveRequest
<1>3. ASSUME NEW k \in Keys, NEW v \in Values, SetItemInMap(q, k, v)
      PROVE  Outcome(p)
  BY <1>3, ItemOutcome, Zenon DEF SetItemInMap, Runs, SetRequest
<1> QED
  BY <1>1, <1>2, <1>3, Zenon DEF WriterStep

\* Where the copies change.
LEMMA CopyUpdates ==
    ASSUME LinkInv, NEW q \in Processes
    PROVE  /\ \A x : /\ [map EXCEPT ![q] = x][q] = x
                     /\ [pendingValueChanges EXCEPT ![q] = x][q] = x
                     /\ [hasPendingClear EXCEPT ![q] = x][q] = x
                     /\ [currentSeed EXCEPT ![q] = x][q] = x
           /\ \A x : \A p \in Processes :
                  p # q => /\ [map EXCEPT ![q] = x][p] = map[p]
                           /\ [pendingValueChanges EXCEPT ![q] = x][p] = pendingValueChanges[p]
                           /\ [hasPendingClear EXCEPT ![q] = x][p] = hasPendingClear[p]
                           /\ [currentSeed EXCEPT ![q] = x][p] = currentSeed[p]
  BY LinkFacts, Zenon DEF LinkInv, Arrays, IsArray

\* resetValues().
LEMMA ResetsOne ==
    ASSUME LinkInv, NEW q \in Processes, NEW seed, ResetValuesWithSeed(q, seed)
    PROVE  /\ map'[q] = Null /\ pendingValueChanges'[q] = NonePending
           /\ hasPendingClear'[q] = FALSE /\ currentSeed'[q] = seed
           /\ \A p \in Processes : p # q => KeepsCopy(p)
  BY CopyUpdates, SMTT(20) DEF ResetValuesWithSeed, KeepsCopy

\* What handling a message of the network process does to the copy.
LEMMA HandleMessageHandles ==
    ASSUME LinkInv, NEW q \in Processes, NEW m \in Replies, HandleMessage(q, m)
    PROVE  Handles(q, m) /\ \A p \in Processes : p # q => KeepsCopy(p)
<1>1. CASE /\ m.name \in {"DidSetItem", "DidRemoveItem", "DidClear"}
           /\ m.seed # currentSeed[q]
           /\ UNCHANGED mapVars
  BY <1>1, Zenon DEF Handles, Ignores, KeepsCopy, mapVars
<1>2. CASE m.name = "DidSetItem" /\ m.seed = currentSeed[q] /\ m.quotaError /\ ResetValues(q)
  BY <1>2, ResetsOne, Zenon DEF ResetValues, Handles, Resets
<1>3. CASE m.name = "ClearCache" /\ ResetValues(q)
  BY <1>3, ResetsOne, Zenon DEF ResetValues, Handles, Resets
<1>4. CASE /\ m.name \in {"DidSetItem", "DidRemoveItem"} /\ m.seed = currentSeed[q]
           /\ m.name = "DidSetItem" => ~m.quotaError
           /\ RemovePending(q, m.key) /\ UNCHANGED <<map, hasPendingClear, currentSeed>>
  <2>1. pendingValueChanges' =
            [pendingValueChanges EXCEPT ![q] =
                [pendingValueChanges[q] EXCEPT ![m.key] = IF pendingValueChanges[q][m.key] = 0 THEN 0
                                                          ELSE pendingValueChanges[q][m.key] - 1]]
    BY <1>4, Zenon DEF RemovePending
  <2>2. /\ pendingValueChanges'[q] =
                [pendingValueChanges[q] EXCEPT ![m.key] = IF pendingValueChanges[q][m.key] = 0 THEN 0
                                                          ELSE pendingValueChanges[q][m.key] - 1]
        /\ \A p \in Processes : p # q => pendingValueChanges'[p] = pendingValueChanges[p]
    BY <2>1, CopyUpdates
  <2> QED
    BY <1>4, <2>2, Zenon DEF Handles, SettlesItem, KeepsCopy
<1>5. CASE m.name = "DidClear" /\ m.seed = currentSeed[q] /\ DidClear(q)
  <2>1. hasPendingClear'[q] = FALSE /\ \A p \in Processes : p # q => hasPendingClear'[p] = hasPendingClear[p]
    BY <1>5, CopyUpdates DEF DidClear
  <2> QED
    BY <1>5, <2>1, Zenon DEF DidClear, Handles, SettlesClear, KeepsCopy
<1>6. CASE m.name = "DispatchStorageEvent" /\ m.own /\ UNCHANGED mapVars
  BY <1>6, Zenon DEF Handles, Ignores, KeepsCopy, mapVars
<1>7. CASE m.name = "DispatchStorageEvent" /\ ~m.own /\ ApplyChange(q, m.key, m.value)
  <2>1. UNCHANGED <<pendingValueChanges, hasPendingClear, currentSeed>>
    BY <1>7, Zenon DEF ApplyChange
  <2>2. CASE hasPendingClear[q] /\ UNCHANGED map
    BY <1>7, <2>1, <2>2, Zenon DEF Handles, Ignores, KeepsCopy
  <2>3. CASE ~hasPendingClear[q] /\ m.key = AllKeys /\ map' = [map EXCEPT ![q] = Empty]
    <3>1. map'[q] = Empty /\ \A p \in Processes : p # q => map'[p] = map[p]
      BY <2>3, CopyUpdates
    <3> QED
      BY <1>7, <2>1, <2>3, <3>1, Zenon DEF Handles, Applies, KeepsCopy
  <2>4. CASE ~hasPendingClear[q] /\ m.key # AllKeys /\ ApplyItem(q, m.key, m.value)
    <3>1. map' = [map EXCEPT ![q] = IF map[q] # Null /\ pendingValueChanges[q][m.key] = 0
                                    THEN [map[q] EXCEPT ![m.key] = m.value] ELSE map[q]]
      BY <2>4, Zenon DEF ApplyItem, LinkInv, Arrays, IsArray
    <3>2. /\ map'[q] = IF map[q] # Null /\ pendingValueChanges[q][m.key] = 0
                       THEN [map[q] EXCEPT ![m.key] = m.value] ELSE map[q]
          /\ \A p \in Processes : p # q => map'[p] = map[p]
      BY <3>1, CopyUpdates
    <3> QED
      BY <1>7, <2>1, <2>4, <3>2, Zenon DEF Handles, Applies, KeepsCopy
  <2> QED
    BY <1>7, <2>2, <2>3, <2>4, Zenon DEF ApplyChange, ApplyClear
<1>8. CASE m.name = "DidSetItem" /\ m.seed = currentSeed[q] /\ DidSetItem(q, m)
  BY <1>2, <1>4, <1>8, Zenon DEF DidSetItem
<1>9. CASE m.name = "DidRemoveItem" /\ m.seed = currentSeed[q] /\ DidRemoveItem(q, m)
  BY <1>4, <1>9, Zenon DEF DidRemoveItem
<1>10. CASE m.name = "DispatchStorageEvent" /\ DispatchStorageEvent(q, m)
  BY <1>6, <1>7, <1>10, Zenon DEF DispatchStorageEvent
<1> QED
  BY <1>1, <1>3, <1>5, <1>8, <1>9, <1>10 DEF HandleMessage

\* A web process handles its next message.
LEMMA ReceiveOutcome ==
    ASSUME LinkInv, NEW p \in Processes, NEW q \in Processes, DidReceiveMessage(q)
    PROVE  Outcome(p)
<1>1. /\ waitingFor[q] = "nothing" /\ incoming[q] # <<>>
      /\ incoming' = [incoming EXCEPT ![q] = Tail(@)]
      /\ UNCHANGED <<mapID, connection, waitingFor, requests, mainRunLoop, listeners, areaID, items>>
  BY Zenon DEF DidReceiveMessage, Runs, linkVars, areaVars
<1>2. Connected(q) /\ mapID[q] # 0
  BY <1>1, LinkFacts, Zenon DEF Unconnected, NoCopy
<1>3. Head(incoming[q]) \in Replies /\ Head(incoming[q]).area = mapID[q]
  <2>1. incoming[q] \in Seq(Replies) /\ incoming[q] # <<>>
    BY <1>1, LinkFacts, Zenon DEF TypesOf
  <2>2. Len(incoming[q]) > 0 /\ Head(incoming[q]) = incoming[q][1]
    BY <2>1
  <2> QED
    BY <1>2, <2>1, <2>2 DEF Connected, RepliesTo
<1>4. HandleMessage(q, Head(incoming[q]))
  BY <1>3, Zenon DEF DidReceiveMessage
<1>5. Handles(q, Head(incoming[q])) /\ \A r \in Processes : r # q => KeepsCopy(r)
  BY <1>3, <1>4, HandleMessageHandles, Zenon
<1>6. incoming'[q] = Tail(incoming[q]) /\ \A r \in Processes : r # q => incoming'[r] = incoming[r]
  BY <1>1, Zenon DEF LinkInv, Arrays, IsArray
<1>7. CASE p # q
  <2>1. Untouched(p)
    BY <1>1, <1>5, <1>6, <1>7, Zenon DEF Untouched, KeepsLink
  <2> QED
    BY <1>1, <2>1, LinkFacts, UntouchedRests, Zenon
<1>8. CASE p = q
  <2>1. Receives(p)
    BY <1>1, <1>5, <1>6, <1>8, Zenon DEF Receives
  <2>2. Stays(p)
    BY <1>1, <1>2, <1>8, Zenon DEF Stays, Connected
  <2> QED
    BY <2>1, <2>2, Zenon DEF Outcome, LocalStep
<1> QED
  BY <1>7, <1>8, Zenon

\* The request that a handler takes.
LEMMA ReceiveTakes ==
    ASSUME LinkInv, NEW q \in Processes, NEW name, Receive(q, name)
    PROVE  /\ requests[q] # <<>> /\ Head(requests[q]) = requests[q][1] /\ 1 \in 1..Len(requests[q])
           /\ Head(requests[q]) \in Requests /\ Head(requests[q]).name = name
           /\ requests'[q] = Tail(requests[q])
           /\ \A p \in Processes : p # q => requests'[p] = requests[p]
           /\ connection' = connection
<1>1. requests[q] # <<>> /\ requests[q] \in Seq(Requests)
  BY LinkFacts, Zenon DEF Receive
<1>2. Len(requests[q]) > 0 /\ Head(requests[q]) = requests[q][1]
  BY <1>1
<1> QED
  BY <1>1, <1>2, LinkFacts DEF Receive

\* A request other than connect finds the area.
LEMMA RequestFindsArea ==
    ASSUME LinkInv, NEW q \in Processes, NEW name, Receive(q, name), name # "Connect"
    PROVE  /\ mapID[q] # 0 /\ Connected(q)
           /\ Finds(Head(requests[q]))
           /\ name \in {"GetValues", "SetItem", "RemoveItem", "Clear"}
           /\ q \notin Writers => name = "GetValues"
<1>1. mapID[q] # 0
  <2>1. SUFFICES ASSUME Unconnected(q)
                 PROVE  FALSE
    BY LinkFacts, Zenon
  <2>2. requests[q] = <<[name |-> "Connect"]>>
    BY <2>1, ReceiveTakes, Zenon DEF Unconnected
  <2> QED
    BY <2>2, ReceiveTakes
<1>2. Connected(q)
  BY <1>1, LinkFacts, Zenon
<1> QED
  BY <1>1, <1>2, ReceiveTakes DEF Connected, RequestsOf, Finds, Exists

\* Taking the only message away.
LEMMA TailOfOne ==
    ASSUME NEW x
    PROVE  Tail(<<x>>) = <<>>
  OBVIOUS

\* connectToLocalStorageArea, which may create the area.
LEMMA HandleConnectOutcome ==
    ASSUME LinkInv, NEW p \in Processes, NEW q \in Processes, HandleConnect(q)
    PROVE  Outcome(p)
<1>1. /\ Receive(q, "Connect")
      /\ mapID' = [mapID EXCEPT ![q] = areaID']
      /\ waitingFor' = [waitingFor EXCEPT ![q] = "nothing"]
      /\ listeners' = listeners \cup {q}
      /\ UNCHANGED <<map, pendingValueChanges, hasPendingClear, currentSeed, incoming, mainRunLoop>>
  BY Zenon DEF HandleConnect, ConnectToStorageArea, mapVars
<1>2. areaID' # 0 /\ (areaID # 0 => areaID' = areaID /\ items' = items)
  BY DEF HandleConnect, ConnectToStorageArea, Exists, LinkInv, LinkTypeOK
<1>3. CASE p # q
  <2>1. Untouched(p)
    BY <1>1, <1>3, ReceiveTakes, LinkFacts DEF Untouched, KeepsCopy, KeepsLink
  <2>2. mapID[p] = 0 \/ areaID # 0
    BY LinkFacts, Zenon DEF Connected
  <2> QED
    BY <1>1, <1>2, <1>3, <2>1, <2>2, LinkFacts, UntouchedRests, ZenonT(30)
<1>4. CASE p = q
  <2>1. Unconnected(p)
    <3>1. SUFFICES ASSUME Connected(p)
                   PROVE  FALSE
      BY <1>4, LinkFacts, Zenon
    <3> QED
      BY <1>1, <1>4, <3>1, ReceiveTakes DEF Connected, RequestsOf
  <2>2. connection[p] = "open" /\ requests[p] = <<[name |-> "Connect"]>> /\ NoCopy(p)
    BY <1>1, <1>4, <2>1, ReceiveTakes, Zenon DEF Unconnected
  <2>3. requests'[p] = <<>>
    <3>1. requests'[p] = Tail(requests[p])
      BY <1>1, <1>4, ReceiveTakes, Zenon
    <3> QED
      BY <2>2, <3>1, TailOfOne, Zenon
  <2>4. mapID'[p] = areaID' /\ waitingFor'[p] = "nothing"
    BY <1>1, <1>4, LinkFacts, Zenon DEF LinkInv, Arrays, IsArray
  <2>5. NoCopy(p)'
    BY <1>1, <2>2, Zenon DEF NoCopy
  <2>6. connection'[p] = "open"
    BY <1>1, <1>4, <2>2, ReceiveTakes, Zenon
  <2>7. RequestsOf(p)' /\ RepliesTo(p)'
    BY <2>3, <2>5 DEF RequestsOf, RepliesTo, NoCopy
  <2>8. Connected(p)'
    BY <1>1, <1>4, <2>4, <2>6, <2>7 DEF Connected
  <2> QED
    BY <1>2, <2>3, <2>4, <2>5, <2>8 DEF Outcome, Starts, Linked
<1> QED
  BY <1>3, <1>4

\* getValues, the reply to which carries all items.
LEMMA HandleGetValuesOutcome ==
    ASSUME LinkInv, NEW p \in Processes, NEW q \in Processes, HandleGetValues(q)
    PROVE  Outcome(p)
<1>1. Receive(q, "GetValues") /\ mapID[q] # 0 /\ Connected(q) /\ Finds(Head(requests[q]))
  BY RequestFindsArea DEF HandleGetValues
<1>2. /\ map' = [map EXCEPT ![q] = items]
      /\ waitingFor' = [waitingFor EXCEPT ![q] = "nothing"]
      /\ UNCHANGED <<mapID, pendingValueChanges, hasPendingClear, currentSeed, incoming, mainRunLoop,
                     listeners, areaID, items>>
  BY <1>1, Zenon DEF HandleGetValues, GetItems
<1>3. CASE p # q
  <2>1. Untouched(p)
    BY <1>1, <1>2, <1>3, ReceiveTakes DEF Untouched, KeepsCopy, KeepsLink
  <2> QED
    BY <1>2, <2>1, LinkFacts, UntouchedRests
<1>4. CASE p = q
  <2>1. map'[p] = items /\ waitingFor'[p] = "nothing"
    BY <1>2, <1>4, CopyUpdates DEF LinkInv, Arrays, IsArray
  <2>2. GetsCopy(p)
    BY <1>1, <1>2, <1>4, <2>1, ReceiveTakes DEF GetsCopy
  <2>3. Stays(p)
    BY <1>1, <1>2, <1>4, ReceiveTakes, Zenon DEF Stays, Connected
  <2> QED
    BY <2>2, <2>3, Zenon DEF Outcome, LocalStep
<1> QED
  BY <1>3, <1>4

\* What a handler that may change the area is to the process that asked and to
\* the others.
LEMMA ChangeOutcome ==
    ASSUME LinkInv, NEW p \in Processes, NEW q \in Writers, q \in Processes,
           mapID[q] # 0, NEW answer, NEW k, NEW v, NEW changed,
           \/ k \in Keys /\ v \in Values \cup {Null}
           \/ k = AllKeys /\ v = Null,
           requests[q] # <<>>, requests'[q] = Tail(requests[q]),
           \A r \in Processes : r # q => requests'[r] = requests[r],
           Acknowledge(q, answer),
           IF changed THEN /\ items' = IF k = AllKeys THEN Empty ELSE [items EXCEPT ![k] = v]
                           /\ DispatchEvents(q, k, v)
           ELSE UNCHANGED <<items, mainRunLoop>>,
           UNCHANGED <<mapVars, linkVars, listeners, areaID>>,
           /\ IsDone(q, answer)
           /\ IF changed THEN Reports(q, TRUE, k, v) ELSE items' = items /\ mainRunLoop'[q] = mainRunLoop[q]
           => RequestIsDone(q)
    PROVE  Outcome(p)
<1>1. incoming'[q] = Append(incoming[q], answer) /\ \A r \in Processes : r # q => incoming'[r] = incoming[r]
  BY Zenon DEF Acknowledge, LinkInv, Arrays, IsArray
<1>2. CASE p # q
  <2>1. Untouched(p)
    BY <1>1, <1>2, Zenon DEF Untouched, KeepsCopy, KeepsLink, mapVars, linkVars
  <2>2. CASE ~changed \/ p \notin listeners
    <3>1. mainRunLoop'[p] = mainRunLoop[p]
      BY <2>2, Zenon DEF DispatchEvents
    <3>2. mapID[p] = 0 \/ items' = items
      BY <2>2, LinkFacts, Zenon DEF Connected
    <3> QED
      BY <2>1, <3>1, <3>2, LinkFacts, UntouchedRests
  <2>3. CASE changed /\ p \in listeners
    <3>1. mainRunLoop'[p] = Append(mainRunLoop[p], Event(FALSE, k, v))
      BY <1>2, <2>3, Zenon DEF DispatchEvents, Event
    <3>2. SeesChange(p)
      BY <1>2, <2>1, <2>3, <3>1, Zenon DEF SeesChange, Reports
    <3>3. Stays(p)
      BY <2>3, LinkFacts, Zenon DEF Stays, Connected, Unconnected, linkVars
    <3> QED
      BY <3>2, <3>3, Zenon DEF Outcome, LocalStep
  <2> QED
    BY <2>2, <2>3, Zenon
<1>3. CASE p = q
  <2>1. q \in listeners /\ Stays(q)
    BY LinkFacts, Zenon DEF Stays, Connected, linkVars
  <2>2. IsDone(q, answer)
    BY <1>1, Zenon DEF IsDone, KeepsCopy, mapVars, linkVars
  <2>3. changed => mainRunLoop'[q] = Append(mainRunLoop[q], Event(TRUE, k, v))
    BY <2>1, Zenon DEF DispatchEvents, Event
  <2>4. RequestIsDone(q)
    BY <2>2, <2>3, Zenon DEF Reports
  <2> QED
    BY <1>3, <2>1, <2>4 DEF Outcome, LocalStep
<1> QED
  BY <1>2, <1>3, Zenon

\* setItem of the area; a change that would exceed the quota is reported as such.
LEMMA HandleSetItemOutcome ==
    ASSUME LinkInv, NEW p \in Processes, NEW q \in Processes, HandleSetItem(q)
    PROVE  Outcome(p)
<1> DEFINE m == Head(requests[q])
           answer(b) == [name |-> "DidSetItem", area |-> m.area, seed |-> m.seed, key |-> m.key, quotaError |-> b]
<1>1. Receive(q, "SetItem") /\ mapID[q] # 0 /\ q \in Writers /\ Finds(m)
  BY RequestFindsArea, Zenon DEF HandleSetItem
<1>2. /\ requests[q] # <<>> /\ requests'[q] = Tail(requests[q])
      /\ \A r \in Processes : r # q => requests'[r] = requests[r]
      /\ m.name = "SetItem" /\ m.key \in Keys /\ m.value \in Values
      /\ connection' = connection
  BY <1>1, ReceiveTakes, HeadOfRequests, ZenonT(30) DEF LinkInv
<1>3. UNCHANGED <<mapVars, linkVars, listeners, areaID>> /\ SetItem(q, m.key, m.value)
  BY <1>1, <1>2, Zenon DEF HandleSetItem, SetItem, linkVars
<1>4. CASE ExceedsQuota(items, m.key)
  <2>1. Acknowledge(q, answer(Finds(m) /\ ExceedsQuota(items, m.key)))
    BY Zenon DEF HandleSetItem
  <2>2. (Finds(m) /\ ExceedsQuota(items, m.key)) = TRUE
    BY <1>1, <1>4, Zenon
  <2>3. Acknowledge(q, answer(TRUE))
    BY <2>1, <2>2, Zenon
  <2>4. UNCHANGED <<items, mainRunLoop>>
    BY <1>3, <1>4 DEF SetItem
  <2>5. IsDone(q, answer(TRUE)) /\ items' = items /\ mainRunLoop'[q] = mainRunLoop[q] => RequestIsDone(q)
    BY <1>2, Zenon DEF RequestIsDone, SetIsDone
  <2> QED
    BY <1>1, <1>2, <1>3, <2>3, <2>4, <2>5, ChangeOutcome, Zenon
<1>5. CASE ~ExceedsQuota(items, m.key)
  <2>1. Acknowledge(q, answer(Finds(m) /\ ExceedsQuota(items, m.key)))
    BY Zenon DEF HandleSetItem
  <2>2. (Finds(m) /\ ExceedsQuota(items, m.key)) = FALSE
    BY <1>5, Zenon
  <2>3. Acknowledge(q, answer(FALSE))
    BY <2>1, <2>2, Zenon
  <2>4. /\ items' = IF m.key = AllKeys THEN Empty ELSE [items EXCEPT ![m.key] = m.value]
        /\ DispatchEvents(q, m.key, m.value)
    BY <1>2, <1>3, <1>5, AreaAssumption, Zenon DEF SetItem
  <2>5. IsDone(q, answer(FALSE)) /\ Reports(q, TRUE, m.key, m.value) => RequestIsDone(q)
    BY <1>2, Zenon DEF RequestIsDone, SetIsDone
  <2> QED
    BY <1>1, <1>2, <1>3, <2>3, <2>4, <2>5, ChangeOutcome, Zenon
<1> QED
  BY <1>4, <1>5, Zenon

\* removeItem of the area.
LEMMA HandleRemoveItemOutcome ==
    ASSUME LinkInv, NEW p \in Processes, NEW q \in Processes, HandleRemoveItem(q)
    PROVE  Outcome(p)
<1> DEFINE m == Head(requests[q])
           answer == [name |-> "DidRemoveItem", area |-> m.area, seed |-> m.seed, key |-> m.key]
<1>1. Receive(q, "RemoveItem") /\ mapID[q] # 0 /\ q \in Writers /\ Finds(m)
  BY RequestFindsArea DEF HandleRemoveItem
<1>2. /\ requests[q] # <<>> /\ requests'[q] = Tail(requests[q])
      /\ \A r \in Processes : r # q => requests'[r] = requests[r]
      /\ m.name = "RemoveItem" /\ m.key \in Keys
      /\ connection' = connection
  BY <1>1, ReceiveTakes, HeadOfRequests DEF LinkInv
<1>3. /\ UNCHANGED <<mapVars, linkVars, listeners, areaID>> /\ RemoveItem(q, m.key)
      /\ Acknowledge(q, answer)
  BY <1>1, <1>2, Zenon DEF HandleRemoveItem, RemoveItem, linkVars
<1>4. CASE items[m.key] = Null
  <2>1. UNCHANGED <<items, mainRunLoop>>
    BY <1>3, <1>4, Zenon DEF RemoveItem
  <2>2. IsDone(q, answer) /\ items' = items /\ mainRunLoop'[q] = mainRunLoop[q] => RequestIsDone(q)
    BY <1>2, <1>4, Zenon DEF RequestIsDone, RemoveIsDone
  <2> QED
    BY <1>1, <1>2, <1>3, <2>1, <2>2, ChangeOutcome, Zenon
<1>5. CASE items[m.key] # Null
  <2>1. /\ items' = IF m.key = AllKeys THEN Empty ELSE [items EXCEPT ![m.key] = Null]
        /\ DispatchEvents(q, m.key, Null)
    BY <1>2, <1>3, <1>5, AreaAssumption, Zenon DEF RemoveItem
  <2>2. IsDone(q, answer) /\ Reports(q, TRUE, m.key, Null) => RequestIsDone(q)
    BY <1>2, Zenon DEF RequestIsDone, RemoveIsDone
  <2> QED
    BY <1>1, <1>2, <1>3, <2>1, <2>2, ChangeOutcome, Zenon
<1> QED
  BY <1>4, <1>5, Zenon

\* clear of the area.
LEMMA HandleClearOutcome ==
    ASSUME LinkInv, NEW p \in Processes, NEW q \in Processes, HandleClear(q)
    PROVE  Outcome(p)
<1> DEFINE m == Head(requests[q])
           answer == [name |-> "DidClear", area |-> m.area, seed |-> m.seed]
<1>1. Receive(q, "Clear") /\ mapID[q] # 0 /\ q \in Writers /\ Finds(m)
  BY RequestFindsArea, Zenon DEF HandleClear
<1>2. /\ requests[q] # <<>> /\ requests'[q] = Tail(requests[q])
      /\ \A r \in Processes : r # q => requests'[r] = requests[r]
      /\ m.name = "Clear"
      /\ connection' = connection
  BY <1>1, ReceiveTakes, Zenon
<1>3. UNCHANGED <<mapVars, linkVars, listeners, areaID>> /\ Clear(q) /\ Acknowledge(q, answer)
  BY <1>1, <1>2, Zenon DEF HandleClear, Clear, linkVars
<1>4. CASE items = Empty
  <2>1. UNCHANGED <<items, mainRunLoop>>
    BY <1>3, <1>4 DEF Clear
  <2>2. IsDone(q, answer) /\ items' = items /\ mainRunLoop'[q] = mainRunLoop[q] => RequestIsDone(q)
    BY <1>2, <1>4, Zenon DEF RequestIsDone, ClearIsDone
  <2> QED
    BY <1>1, <1>2, <1>3, <2>1, <2>2, ChangeOutcome, Zenon
<1>5. CASE items # Empty
  <2>1. /\ items' = IF AllKeys = AllKeys THEN Empty ELSE [items EXCEPT ![AllKeys] = Null]
        /\ DispatchEvents(q, AllKeys, Null)
    BY <1>3, <1>5, Zenon DEF Clear
  <2>2. IsDone(q, answer) /\ Reports(q, TRUE, AllKeys, Null) => RequestIsDone(q)
    BY <1>2, Zenon DEF RequestIsDone, ClearIsDone
  <2> QED
    BY <1>1, <1>2, <1>3, <2>1, <2>2, ChangeOutcome, Zenon
<1> QED
  BY <1>4, <1>5, Zenon

\* The main run loop sends an event or clearCache.
LEMMA SendEventOutcome ==
    ASSUME LinkInv, NEW p \in Processes, NEW q \in Processes, SendStorageEvent(q)
    PROVE  Outcome(p)
<1>1. /\ mainRunLoop[q] # <<>>
      /\ mainRunLoop' = [mainRunLoop EXCEPT ![q] = Tail(@)]
      /\ incoming' = [incoming EXCEPT ![q] = Append(@, Head(mainRunLoop[q]))]
      /\ UNCHANGED <<mapVars, linkVars, requests, listeners, areaID, items>>
  BY Zenon DEF SendStorageEvent, SendEvent, Acknowledge
<1>2. /\ mainRunLoop'[q] = Tail(mainRunLoop[q])
      /\ incoming'[q] = Append(incoming[q], Head(mainRunLoop[q]))
      /\ \A r \in Processes : r # q => incoming'[r] = incoming[r] /\ mainRunLoop'[r] = mainRunLoop[r]
  BY <1>1, Zenon DEF LinkInv, Arrays, IsArray
<1>3. CASE p # q
  <2>1. Untouched(p)
    BY <1>1, <1>2, <1>3, Zenon DEF Untouched, KeepsCopy, KeepsLink, mapVars, linkVars
  <2> QED
    BY <1>1, <1>2, <1>3, <2>1, LinkFacts, UntouchedRests
<1>4. CASE p = q
  <2>1. IsSentEvent(p)
    BY <1>1, <1>2, <1>4 DEF IsSentEvent, KeepsCopy, mapVars, linkVars
  <2>2. Stays(p)
    BY <1>1, <1>4, LinkFacts, Zenon DEF Stays, Connected, Unconnected, NoCopy, linkVars
  <2> QED
    BY <2>1, <2>2, Zenon DEF Outcome, LocalStep
<1> QED
  BY <1>3, <1>4

\* Data of the origin is deleted.
LEMMA DeleteOutcome ==
    ASSUME LinkInv, NEW p \in Processes, DeleteData
    PROVE  Outcome(p)
<1>1. /\ items' = Empty
      /\ mainRunLoop' = [q \in Processes |->
             IF q \in listeners THEN Append(mainRunLoop[q], ClearCache) ELSE mainRunLoop[q]]
      /\ UNCHANGED <<mapVars, linkVars, requests, incoming, listeners, areaID>>
  BY Zenon DEF DeleteData, DeleteEntries
<1>2. Untouched(p)
  BY <1>1, Zenon DEF Untouched, KeepsCopy, KeepsLink, mapVars, linkVars
<1>3. CASE mapID[p] = 0
  <2>1. mainRunLoop'[p] = mainRunLoop[p]
    BY <1>1, <1>3, LinkFacts, Zenon DEF Unconnected
  <2> QED
    BY <1>1, <1>2, <1>3, <2>1, LinkFacts, UntouchedRests
<1>4. CASE mapID[p] # 0
  <2>1. SeesDeletion(p)
    BY <1>1, <1>2, <1>4, LinkFacts, Zenon DEF SeesDeletion, Connected
  <2>2. Stays(p)
    BY <1>1, <1>4, LinkFacts, Zenon DEF Stays, Connected, linkVars
  <2> QED
    BY <2>1, <2>2, Zenon DEF Outcome, LocalStep
<1> QED
  BY <1>3, <1>4, Zenon

\* A web process exits, and the area may be closed with its last listener.
LEMMA ExitOutcome ==
    ASSUME LinkInv, NEW p \in Processes, NEW q \in Processes, WebProcessExits(q)
    PROVE  Outcome(p)
<1>1. /\ mapID' = [mapID EXCEPT ![q] = 0]
      /\ waitingFor' = [waitingFor EXCEPT ![q] = "nothing"]
      /\ connection' = [connection EXCEPT ![q] = "none"]
      /\ requests' = [requests EXCEPT ![q] = <<>>]
      /\ incoming' = [incoming EXCEPT ![q] = <<>>]
      /\ mainRunLoop' = [mainRunLoop EXCEPT ![q] = <<>>]
      /\ listeners' = listeners \ {q}
      /\ listeners' # {} => UNCHANGED <<areaID, items>>
  BY Zenon DEF WebProcessExits, RemoveConnection, RemoveListener
<1>2. /\ mapID'[q] = 0 /\ waitingFor'[q] = "nothing" /\ connection'[q] = "none" /\ requests'[q] = <<>>
      /\ incoming'[q] = <<>> /\ mainRunLoop'[q] = <<>>
  BY <1>1, LinkFacts, Zenon DEF LinkInv, Arrays, IsArray
<1>3. /\ map'[q] = Null /\ pendingValueChanges'[q] = NonePending /\ hasPendingClear'[q] = FALSE
      /\ \A r \in Processes : r # q => KeepsCopy(r)
  BY ResetsOne, Zenon DEF WebProcessExits
<1>4. CASE p # q
  <2>1. Untouched(p) /\ mainRunLoop'[p] = mainRunLoop[p]
    BY <1>1, <1>3, <1>4, LinkFacts, Zenon DEF Untouched, KeepsLink, LinkInv, Arrays, IsArray
  <2>2. mapID[p] # 0 => UNCHANGED <<areaID, items>>
    BY <1>1, <1>4, LinkFacts, Zenon DEF Connected
  <2> QED
    BY <1>1, <1>4, <2>1, <2>2, LinkFacts, UntouchedRests, Zenon
<1>5. CASE p = q
  <2>1. Unconnected(p)' /\ NoCopy(p)'
    BY <1>1, <1>2, <1>3, <1>5, Zenon DEF Unconnected, NoCopy
  <2> QED
    BY <1>2, <1>5, <2>1, Zenon DEF Outcome, Starts, Linked
<1> QED
  BY <1>4, <1>5, Zenon

\* What cannot happen while nothing disturbs the link.
LEMMA LinkHolds ==
    ASSUME LinkInv, Undisturbed
    PROVE  /\ ~SessionIsRemoved /\ ~SessionIsAdded /\ ~NetworkProcessCrashes
           /\ \A q \in Processes : /\ ~DestroyMap(q) /\ ~ConnectFails(q) /\ ~GetValuesFails(q)
                                   /\ ~NetworkProcessConnectionClosed(q) /\ ~HandleDisconnect(q)
<1>1. ~SessionIsRemoved /\ ~NetworkProcessCrashes
  BY Zenon DEF Undisturbed, SessionIsRemoved, NetworkProcessCrashes, Disruption
<1>2. ~SessionIsAdded
  BY Zenon DEF LinkInv, SessionIsAdded, AddSession
<1>3. ASSUME NEW q \in Processes
      PROVE  /\ ~DestroyMap(q) /\ ~ConnectFails(q) /\ ~GetValuesFails(q)
             /\ ~NetworkProcessConnectionClosed(q) /\ ~HandleDisconnect(q)
  <2>1. ~DestroyMap(q)
    BY Zenon DEF Undisturbed, DestroyMap, Disruption
  <2>2. connection[q] # "closed"
    BY LinkFacts, Zenon DEF TypesOf
  <2>3. ~ConnectFails(q) /\ ~GetValuesFails(q) /\ ~NetworkProcessConnectionClosed(q)
    BY <2>2, Zenon DEF LinkInv, ConnectFails, GetValuesFails, NetworkProcessConnectionClosed
  <2>4. ~HandleDisconnect(q)
    BY RequestFindsArea DEF HandleDisconnect
  <2> QED
    BY <2>1, <2>3, <2>4, Zenon
<1> QED
  BY <1>1, <1>2, <1>3, Zenon

\* The steps that can.
LEMMA NextOutcome ==
    ASSUME LinkInv, Undisturbed, [Next]_vars, NEW p \in Processes
    PROVE  Outcome(p)
<1>1. ASSUME NEW q \in Processes, WebProcessStep(q)
      PROVE  Outcome(p)
  BY <1>1, LinkHolds, ConnectOutcome, EnsureMapOutcome, ReceiveOutcome DEF WebProcessStep
<1>2. ASSUME NEW q \in Processes, HandleRequest(q)
      PROVE  Outcome(p)
  BY <1>2, LinkHolds, HandleConnectOutcome, HandleGetValuesOutcome, HandleSetItemOutcome,
     HandleRemoveItemOutcome, HandleClearOutcome, Zenon DEF HandleRequest
<1>3. ASSUME NEW q \in Processes, SendStorageEvent(q) \/ WebProcessExits(q)
      PROVE  Outcome(p)
  BY <1>3, SendEventOutcome, ExitOutcome
<1>4. ASSUME NEW q \in Writers, WriterStep(q)
      PROVE  Outcome(p)
  BY <1>4, WriterOutcome, Zenon
<1>5. CASE WriteOut \/ UNCHANGED vars
  <2>1. UNCHANGED <<mapVars, linkVars, requests, incoming, listeners, areaID, items, mainRunLoop>>
    BY <1>5, Zenon DEF WriteOut, UpdateDatabase, vars, areaVars
  <2>2. Untouched(p)
    BY <2>1, Zenon DEF Untouched, KeepsCopy, KeepsLink, mapVars, linkVars
  <2> QED
    BY <2>1, <2>2, LinkFacts, UntouchedRests, Zenon
<1>6. CASE DeleteData
  BY <1>6, DeleteOutcome, Zenon
<1> QED
  BY <1>1, <1>2, <1>3, <1>4, <1>5, <1>6, LinkHolds DEF Next

-----------------------------------------------------------------------------
(* LinkInv is inductive. *)

\* The file after an update is a map again.
LEMMA FileStaysMap ==
    ASSUME ItemsOK, NEW S
    PROVE  FileWith(S) \in Maps
  BY AreaAssumption, Zenon DEF ItemsOK, FileWith, Maps

\* The types of the area, with or without a database.
LEMMA ItemsStayOK ==
    ASSUME ItemsOK, [AreaNext]_areaVars
    PROVE  ItemsOK'
<1>1. CASE \E p \in Processes : ConnectToStorageArea(p)
  BY <1>1, MapsClosed, Zenon DEF ItemsOK, ConnectToStorageArea, databaseVars
<1>2. ASSUME NEW p \in Processes, RemoveListener(p)
      PROVE  ItemsOK'
  <2>1. CASE UNCHANGED <<items, file, changedItems>>
    BY <2>1, Zenon DEF ItemsOK
  <2>2. CASE items' = Empty /\ file' = FileWith(Keys) /\ changedItems' = NoChanges
    BY <2>2, MapsClosed, FileStaysMap, Zenon DEF ItemsOK, NoChanges
  <2> QED
    BY <1>2, <2>1, <2>2, Zenon DEF RemoveListener, DatabaseIsGone, databaseVars
<1>3. CASE \E p \in Processes : DisconnectFromStorageArea(p) \/ RemoveConnection(p)
  BY <1>2, <1>3, Zenon DEF DisconnectFromStorageArea, RemoveConnection
<1>4. CASE \E p \in Processes : Clear(p)
  BY <1>4, MapsClosed, Zenon DEF ItemsOK, Clear, ClearDatabase, NoChanges
<1>5. CASE \/ \E p \in Processes : SendEvent(p)
           \/ GetItems \/ AddSession \/ UNCHANGED areaVars
  BY <1>5, Zenon DEF ItemsOK, SendEvent, GetItems, AddSession, areaVars, databaseVars
<1>6. ASSUME NEW k \in Keys, NEW v \in Values \cup {Null},
             items' = [items EXCEPT ![k] = v], ItemDidChange(k, v)
      PROVE  ItemsOK'
  <2>1. items' \in Maps
    BY <1>6, MapsClosed, Zenon DEF ItemsOK
  <2> QED
    BY <1>6, <2>1, Zenon DEF ItemsOK, ItemDidChange
<1>7. CASE \E p \in Processes, k \in Keys : RemoveItem(p, k) \/ \E v \in Values : SetItem(p, k, v)
  <2>1. CASE UNCHANGED <<items, file, changedItems>>
    BY <2>1, Zenon DEF ItemsOK
  <2> QED
    BY <1>6, <1>7, <2>1 DEF RemoveItem, SetItem
<1>8. CASE UpdateDatabase
  <2>1. changedItems' \in [Keys -> Values \cup {Null, NoChange}]
    BY <1>8, Zenon DEF ItemsOK, UpdateDatabase, NoChanges
  <2>2. file' \in Maps
    BY <1>8, FileStaysMap, Zenon DEF UpdateDatabase
  <2> QED
    BY <1>8, <2>1, <2>2 DEF ItemsOK, UpdateDatabase
<1>9. CASE DeleteEntries \/ RemoveSession \/ Crash
  <2>1. file' \in {file, Empty, FileWith(Keys)}
    BY <1>9, Zenon DEF DeleteEntries, RemoveSession, CloseDatabase, Crash
  <2>2. items' = Empty /\ changedItems' = NoChanges
    BY <1>9, Zenon DEF DeleteEntries, RemoveSession, CloseDatabase, Crash, DatabaseIsGone
  <2> QED
    BY <2>1, <2>2, MapsClosed, FileStaysMap, Zenon DEF ItemsOK, NoChanges
<1> QED
  BY <1>1, <1>3, <1>4, <1>5, <1>7, <1>8, <1>9, SMTT(20) DEF AreaNext

\* The variables of the processes stay arrays.
LEMMA ArrayUpdate ==
    ASSUME NEW f, IsArray(f), NEW q, NEW x
    PROVE  IsArray([f EXCEPT ![q] = x])
  BY Zenon DEF IsArray

\* Whatever changes a copy changes the entries of one process.
LEMMA CopyArrays ==
    ASSUME Arrays, NEW q,
           \/ \E seed : ResetValuesWithSeed(q, seed)
           \/ \E k, v : ChangeItem(q, map[q], k, v)
           \/ ClearItems(q)
           \/ \E m : HandleMessage(q, m)
           \/ UNCHANGED mapVars
    PROVE  IsArray(map') /\ IsArray(pendingValueChanges') /\ IsArray(hasPendingClear')
<1>1. ASSUME NEW seed, ResetValuesWithSeed(q, seed)
      PROVE  IsArray(map') /\ IsArray(pendingValueChanges') /\ IsArray(hasPendingClear')
  BY <1>1, ArrayUpdate, Zenon DEF Arrays, ResetValuesWithSeed
<1>2. ASSUME NEW k, NEW v, ChangeItem(q, map[q], k, v)
      PROVE  IsArray(map') /\ IsArray(pendingValueChanges') /\ IsArray(hasPendingClear')
  BY <1>2, ArrayUpdate, Zenon DEF Arrays, ChangeItem
<1>3. CASE ClearItems(q)
  BY <1>3, ArrayUpdate, Zenon DEF Arrays, ClearItems
<1>4. CASE UNCHANGED mapVars
  BY <1>4, Zenon DEF Arrays, mapVars
<1>5. ASSUME NEW m, HandleMessage(q, m)
      PROVE  IsArray(map') /\ IsArray(pendingValueChanges') /\ IsArray(hasPendingClear')
  <2>1. CASE ResetValues(q)
    BY <1>1, <2>1, Zenon DEF ResetValues
  <2>2. CASE RemovePending(q, m.key) /\ UNCHANGED <<map, hasPendingClear>>
    BY <2>2, ArrayUpdate, Zenon DEF Arrays, RemovePending
  <2>3. CASE DidClear(q)
    BY <2>3, ArrayUpdate, Zenon DEF Arrays, DidClear
  <2>4. CASE ApplyChange(q, m.key, m.value)
    <3>1. IsArray(map')
      BY <2>4, ArrayUpdate DEF Arrays, ApplyChange, ApplyClear, ApplyItem
    <3> QED
      BY <2>4, <3>1, Zenon DEF Arrays, ApplyChange
  <2> QED
    BY <1>4, <1>5, <2>1, <2>2, <2>3, <2>4 DEF HandleMessage, DidSetItem, DidRemoveItem, DispatchStorageEvent
<1> QED
  BY <1>1, <1>2, <1>3, <1>4, <1>5

\* Every step leaves the variables of the processes arrays.
LEMMA ArraysStay ==
    ASSUME LinkInv, Undisturbed, [Next]_vars
    PROVE  Arrays'
<1> USE ArrayUpdate
<1>1. Arrays
  BY Zenon DEF LinkInv
<1>2. IsArray(mainRunLoop')
  <2>1. \/ mainRunLoop' = mainRunLoop
        \/ \E q, x : mainRunLoop' = [mainRunLoop EXCEPT ![q] = x]
        \/ \E q, k, v : DispatchEvents(q, k, v)
        \/ DeleteEntries
        \/ Crash
    <3>1. [AreaNext]_areaVars
      BY NextIsTask, Zenon DEF LinkInv
    <3>2. CASE \E p \in Processes : \/ ConnectToStorageArea(p) \/ DisconnectFromStorageArea(p)
                                   \/ RemoveConnection(p) \/ SendEvent(p)
      BY <3>2, Zenon DEF ConnectToStorageArea, DisconnectFromStorageArea, RemoveConnection, SendEvent
    <3>3. CASE \/ \E p \in Processes : Clear(p)
               \/ \E p \in Processes, k \in Keys : RemoveItem(p, k) \/ \E v \in Values : SetItem(p, k, v)
      BY <3>3, Zenon DEF Clear, RemoveItem, SetItem
    <3>4. CASE GetItems \/ UpdateDatabase \/ RemoveSession \/ AddSession \/ UNCHANGED areaVars
      BY <3>4, Zenon DEF GetItems, UpdateDatabase, RemoveSession, AddSession, areaVars
    <3> QED
      BY <3>1, <3>2, <3>3, <3>4, Zenon DEF AreaNext
  <2>2. CASE \E q, k, v : DispatchEvents(q, k, v)
    BY <2>2, Zenon DEF DispatchEvents, IsArray
  <2>3. CASE DeleteEntries \/ Crash
    BY <2>3, Zenon DEF DeleteEntries, Crash, IsArray
  <2> QED
    BY <1>1, <2>1, <2>2, <2>3 DEF Arrays
<1> DEFINE Rest == /\ IsArray(map') /\ IsArray(pendingValueChanges') /\ IsArray(hasPendingClear')
                   /\ IsArray(waitingFor') /\ IsArray(connection') /\ IsArray(incoming')
<1> SUFFICES Rest
  BY <1>2, Zenon DEF Arrays
<1>3. ASSUME NEW q \in Processes, WebProcessStep(q)
      PROVE  Rest
  <2>1. CASE Connect(q)
    BY <1>1, <2>1, Zenon DEF Arrays, Connect, mapVars
  <2>3. CASE EnsureMap(q)
    BY <1>1, <2>3, Zenon DEF Arrays, EnsureMap, mapVars
  <2>2. CASE DidReceiveMessage(q)
    <3>1. IsArray(map') /\ IsArray(pendingValueChanges') /\ IsArray(hasPendingClear')
      BY <1>1, <2>2, CopyArrays, Zenon DEF DidReceiveMessage
    <3> QED
      BY <1>1, <2>2, <3>1, Zenon DEF Arrays, DidReceiveMessage, linkVars
  <2> QED
    BY <1>3, <2>1, <2>2, <2>3, LinkHolds DEF WebProcessStep
<1>4. ASSUME NEW q \in Processes, HandleRequest(q)
      PROVE  Rest
  <2>1. CASE HandleConnect(q)
    BY <1>1, <2>1, Zenon DEF Arrays, HandleConnect, Receive, mapVars
  <2>2. CASE HandleGetValues(q)
    BY <1>1, <2>2, Zenon DEF Arrays, HandleGetValues, Receive
  <2>3. CASE HandleSetItem(q) \/ HandleRemoveItem(q) \/ HandleClear(q)
    <3>1. UNCHANGED <<map, pendingValueChanges, hasPendingClear, waitingFor, connection>>
      BY <2>3, Zenon DEF HandleSetItem, HandleRemoveItem, HandleClear, Receive, mapVars
    <3>2. PICK x : incoming' = [incoming EXCEPT ![q] = x]
      BY <2>3 DEF HandleSetItem, HandleRemoveItem, HandleClear, Acknowledge
    <3>3. IsArray([incoming EXCEPT ![q] = x])
      BY <1>1, Zenon DEF Arrays
    <3> QED
      BY <1>1, <3>1, <3>2, <3>3, Zenon DEF Arrays
  <2> QED
    BY <1>4, <2>1, <2>2, <2>3, LinkHolds DEF HandleRequest
<1>5. ASSUME NEW q \in Processes, SendStorageEvent(q)
      PROVE  Rest
  BY <1>1, <1>5, Zenon DEF Arrays, SendStorageEvent, Acknowledge, mapVars, linkVars
<1>6. ASSUME NEW q \in Processes, WebProcessExits(q)
      PROVE  Rest
  <2>1. IsArray(map') /\ IsArray(pendingValueChanges') /\ IsArray(hasPendingClear')
    BY <1>1, <1>6, CopyArrays, Zenon DEF WebProcessExits
  <2> QED
    BY <1>1, <1>6, <2>1, Zenon DEF Arrays, WebProcessExits
<1>7. ASSUME NEW q \in Writers, WriterStep(q)
      PROVE  Rest
  <2>1. IsArray(map') /\ IsArray(pendingValueChanges') /\ IsArray(hasPendingClear')
    BY <1>1, <1>7, CopyArrays, Zenon DEF WriterStep, ClearMap, RemoveItemFromMap, SetItemInMap
  <2> QED
    BY <1>1, <1>7, <2>1, Zenon DEF Arrays, WriterStep, ClearMap, RemoveItemFromMap, SetItemInMap, linkVars
<1>8. CASE WriteOut \/ DeleteData \/ UNCHANGED vars
  BY <1>1, <1>8, Zenon DEF Arrays, WriteOut, DeleteData, vars, mapVars, linkVars
<1> QED
  BY <1>3, <1>4, <1>5, <1>6, <1>7, <1>8, LinkHolds DEF Next

\* Only web processes listen, and the session stays.
LEMMA AreaStays ==
    ASSUME LinkInv, Undisturbed, [Next]_vars
    PROVE  listeners' \subseteq Processes /\ sessionExists' = TRUE
<1>1. listeners \subseteq Processes /\ sessionExists = TRUE
  BY Zenon DEF LinkInv
<1>2. CASE \E q \in Processes : WebProcessStep(q)
  BY <1>1, <1>2, WebProcessStepLeavesArea, Zenon DEF areaVars
<1>3. CASE \E q \in Writers : WriterStep(q)
  BY <1>1, <1>3, WebProcessStepLeavesArea, MapAssumption, Zenon DEF areaVars
<1>4. ASSUME NEW q \in Processes, HandleRequest(q)
      PROVE  listeners' \subseteq Processes /\ sessionExists' = TRUE
  BY <1>1, <1>4, LinkHolds, Zenon DEF HandleRequest, HandleConnect, HandleGetValues, HandleSetItem,
     HandleRemoveItem, HandleClear, ConnectToStorageArea, GetItems, SetItem, RemoveItem, Clear, areaVars
<1>5. CASE \E q \in Processes : SendStorageEvent(q) \/ WebProcessExits(q)
  BY <1>1, <1>5, Zenon DEF SendStorageEvent, SendEvent, WebProcessExits, RemoveConnection, RemoveListener
<1>6. CASE WriteOut \/ DeleteData \/ UNCHANGED vars
  BY <1>1, <1>6, Zenon DEF WriteOut, UpdateDatabase, DeleteData, DeleteEntries, vars, areaVars
<1> QED
  BY <1>2, <1>3, <1>4, <1>5, <1>6, LinkHolds, Zenon DEF Next

\* The initial state, in which no process has a copy.
LEMMA LinkInvStarts ==
    ASSUME Init
    PROVE  LinkInv /\ \A p \in Processes : Starts(p)
<1>1. LinkTypeOK
  BY DEF Init, AreaInit, LinkTypeOK
<1>2. ItemsOK
  BY MapsClosed, Zenon DEF Init, AreaInit, ItemsOK, NoChanges
<1>3. Arrays
  BY Zenon DEF Init, AreaInit, Arrays, IsArray
<1>4. ASSUME NEW p \in Processes
      PROVE  /\ Unconnected(p) /\ mapID[p] = 0
  BY <1>4, Zenon DEF Init, AreaInit, Unconnected, NoCopy
<1>5. ASSUME NEW p \in Processes
      PROVE  TypesOf(p)
  <2>1. NonePending \in [Keys -> Nat] /\ <<>> \in Seq(Replies) /\ <<>> \in Seq(Events)
    BY DEF NonePending
  <2> QED
    BY <1>4, <2>1, Zenon DEF Unconnected, NoCopy, TypesOf, Init
<1> QED
  BY <1>1, <1>2, <1>3, <1>4, <1>5, SMTT(20) DEF LinkInv, Init, AreaInit, Linked, Starts, Unconnected

==============================================================================
