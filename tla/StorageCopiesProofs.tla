------------------------ MODULE StorageCopiesProofs ------------------------
(***************************************************************************)
(* The copies that web processes keep of a storage area: what every step   *)
(* that a web process may see (LocalStep of StorageCopies) preserves.      *)
(***************************************************************************)
EXTENDS StorageCopies, TLAPS

-----------------------------------------------------------------------------
(* Queues, and the link *)

\* What a message added makes of a queue.
LEMMA QueueGrows ==
    ASSUME NEW S, NEW s \in Seq(S), NEW e
    PROVE  /\ Len(Append(s, e)) = Len(s) + 1 /\ Len(s) \in Nat
           /\ Append(s, e)[Len(s) + 1] = e
           /\ \A i \in 1..Len(s) : Append(s, e)[i] = s[i]
           /\ e \in S => Append(s, e) \in Seq(S)
  OBVIOUS

\* What a message taken away leaves of it.
LEMMA QueueShrinks ==
    ASSUME NEW S, NEW s \in Seq(S), s # <<>>
    PROVE  /\ Len(Tail(s)) = Len(s) - 1 /\ Len(s) \in Nat \ {0}
           /\ Head(s) = s[1] /\ Head(s) \in S
           /\ \A i \in 1..Len(s) - 1 : Tail(s)[i] = s[i + 1]
           /\ Tail(s) \in Seq(S)
  OBVIOUS

\* What LinkInv says of one process.
LEMMA ProcessFacts ==
    ASSUME LinkInv, NEW p \in Processes
    PROVE  /\ TypesOf(p) /\ Linked(p)
           /\ mapID[p] \in Nat /\ currentSeed[p] \in Nat /\ requests[p] \in Seq(Requests)
           /\ DOMAIN mapID = Processes /\ DOMAIN currentSeed = Processes /\ DOMAIN requests = Processes
           /\ mapID[p] # 0 => Connected(p)
           /\ mapID[p] = 0 => Unconnected(p)
  BY Zenon DEF LinkInv, LinkTypeOK, Linked

\* The types of one process follow its step.
LEMMA TypesStay ==
    ASSUME LinkInv, ItemsOK', NEW p \in Processes, Outcome(p)
    PROVE  TypesOf(p)'
<1>1. CASE Starts(p)'
  <2>1. NonePending \in [Keys -> Nat] /\ <<>> \in Seq(Replies) /\ <<>> \in Seq(Events)
    BY DEF NonePending
  <2>2. NoCopy(p)' /\ Linked(p)'
    BY <1>1, Zenon DEF Starts
  <2>3. waitingFor'[p] \in {"nothing", "connect", "getValues"} /\ connection'[p] \in {"none", "open"}
    BY <2>2, Zenon DEF Linked, Connected, Unconnected
  <2> QED
    BY <2>1, <2>2, <2>3, Zenon DEF NoCopy, TypesOf
<1>2. CASE Stays(p) /\ LocalStep(p)
  <2> USE DEF TypesOf
  <2>1. TypesOf(p) /\ Connected(p) /\ connection'[p] \in {"none", "open"}
    BY <1>2, ProcessFacts, Zenon DEF Stays
  <2>0. Empty \in Maps /\ \A m \in Maps, k \in Keys, v \in Values \cup {Null} : [m EXCEPT ![k] = v] \in Maps
    BY Zenon DEF Empty, Maps
  <2>2. items \in Maps /\ Empty \in Maps /\ NonePending \in [Keys -> Nat] /\ areaID \in Nat
    BY <2>0, Zenon DEF LinkInv, LinkTypeOK, ItemsOK, NonePending
  <2>3. incoming[p] \in Seq(Replies) /\ mainRunLoop[p] \in Seq(Events) /\ requests[p] \in Seq(Requests)
    BY <2>1, ProcessFacts, Zenon
  <2>4. CASE Rests(p) \/ LoadsCopy(p) \/ GetsCopy(p) \/ ClearsCopy(p)
    BY <2>1, <2>2, <2>4, Zenon DEF Rests, LoadsCopy, GetsCopy, ClearsCopy, Untouched, KeepsCopy, KeepsLink
  <2>5. CASE ChangesOneItem(p)
    <3>1. PICK k \in Keys, v \in Values \cup {Null} : \E m : ChangesCopy(p, k, v, m)
      BY <2>5, Zenon DEF ChangesOneItem
    <3>2. /\ map[p] # Null /\ map'[p] = [map[p] EXCEPT ![k] = v]
          /\ pendingValueChanges'[p] = [pendingValueChanges[p] EXCEPT ![k] = pendingValueChanges[p][k] + 1]
          /\ hasPendingClear'[p] = hasPendingClear[p] /\ waitingFor'[p] = "nothing"
          /\ incoming'[p] = incoming[p] /\ mainRunLoop'[p] = mainRunLoop[p]
      BY <3>1, Zenon DEF ChangesCopy
    <3>3. map'[p] \in Maps
      <4>1. map[p] \in Maps
        BY <2>1, <3>2, Zenon
      <4>2. [map[p] EXCEPT ![k] = v] \in Maps
        BY <2>0, <4>1, Zenon
      <4> QED
        BY <3>2, <4>2, Zenon
    <3>4. pendingValueChanges'[p] \in [Keys -> Nat]
      BY <2>1, <3>2
    <3> QED
      BY <2>1, <3>2, <3>3, <3>4, Zenon
  <2>6. CASE Receives(p)
    <3>1. Head(incoming[p]) \in Replies /\ Tail(incoming[p]) \in Seq(Replies)
      BY <2>3, <2>6, QueueShrinks, Zenon DEF Receives
    <3>2. /\ map'[p] \in Maps \cup {Null} /\ pendingValueChanges'[p] \in [Keys -> Nat]
          /\ hasPendingClear'[p] \in BOOLEAN
      <4> DEFINE m == Head(incoming[p])
      <4>1. CASE Resets(p, m) \/ Ignores(p, m) \/ SettlesClear(p, m)
        BY <2>1, <2>2, <4>1, Zenon DEF Resets, Ignores, SettlesClear, KeepsCopy
      <4>2. CASE SettlesItem(p, m)
        <5>1. m.key \in Keys
          BY <3>1, <4>2, Zenon DEF SettlesItem, Replies, Events
        <5>2. pendingValueChanges'[p] \in [Keys -> Nat]
          BY <2>1, <4>2, <5>1 DEF SettlesItem
        <5> QED
          BY <2>1, <4>2, <5>2, Zenon DEF SettlesItem
      <4>3. CASE Applies(p, m)
        <5>1. m.key = AllKeys \/ (m.key \in Keys /\ m.value \in Values \cup {Null})
          BY <3>1, <4>3, Zenon DEF Applies, Replies, Events
        <5>2. map'[p] = Empty \/ map'[p] = map[p]
              \/ (map[p] \in Maps /\ m.key \in Keys /\ m.value \in Values \cup {Null} /\ map'[p] = [map[p] EXCEPT ![m.key] = m.value])
          BY <2>1, <4>3, <5>1, Zenon DEF Applies
        <5>3. map'[p] \in Maps \cup {Null}
          <6>1. CASE map[p] \in Maps /\ m.key \in Keys /\ m.value \in Values \cup {Null}
                     /\ map'[p] = [map[p] EXCEPT ![m.key] = m.value]
            <7>1. [map[p] EXCEPT ![m.key] = m.value] \in Maps
              BY <2>0, <6>1, Zenon
            <7> QED
              BY <6>1, <7>1, Zenon
          <6> QED
            BY <2>1, <2>2, <5>2, <6>1, Zenon
        <5> QED
          BY <2>1, <4>3, <5>3, Zenon DEF Applies
      <4> QED
        BY <2>6, <4>1, <4>2, <4>3, Zenon DEF Receives, Handles
    <3> QED
      BY <2>1, <2>6, <3>1, <3>2, Zenon DEF Receives
  <2>7. CASE RequestIsDone(p)
    <3> DEFINE m == Head(requests[p])
    <3>1. requests[p] # <<>>
      BY <2>7, Zenon DEF RequestIsDone, SetIsDone, RemoveIsDone, ClearIsDone, IsDone
    <3>2. m \in Requests
      BY <2>3, <3>1, QueueShrinks, Zenon
    <3>3. PICK answer \in Replies : IsDone(p, answer)
      <4>1. CASE SetIsDone(p, m)
        <5>1. m.area \in Nat /\ m.seed \in Nat /\ m.key \in Keys
          BY <3>2, <4>1, Zenon DEF SetIsDone, Requests
        <5>2. \A b \in BOOLEAN : [name |-> "DidSetItem", area |-> m.area, seed |-> m.seed, key |-> m.key,
                                  quotaError |-> b] \in Replies
          BY <5>1, Zenon DEF Replies
        <5> QED
          BY <4>1, <5>2, Zenon DEF SetIsDone
      <4>2. CASE RemoveIsDone(p, m)
        <5>1. m.area \in Nat /\ m.seed \in Nat /\ m.key \in Keys
          BY <3>2, <4>2, Zenon DEF RemoveIsDone, Requests
        <5>2. [name |-> "DidRemoveItem", area |-> m.area, seed |-> m.seed, key |-> m.key] \in Replies
          BY <5>1, Zenon DEF Replies
        <5> QED
          BY <4>2, <5>2, Zenon DEF RemoveIsDone
      <4>3. CASE ClearIsDone(p, m)
        <5>1. m.area \in Nat /\ m.seed \in Nat
          BY <3>2, <4>3, Zenon DEF ClearIsDone, Requests
        <5>2. [name |-> "DidClear", area |-> m.area, seed |-> m.seed] \in Replies
          BY <5>1, Zenon DEF Replies
        <5> QED
          BY <4>3, <5>2, Zenon DEF ClearIsDone
      <4> QED
        BY <2>7, <4>1, <4>2, <4>3, Zenon DEF RequestIsDone
    <3>4. mainRunLoop'[p] \in Seq(Events)
      <4>1. \/ mainRunLoop'[p] = mainRunLoop[p]
            \/ \E e \in Events : mainRunLoop'[p] = Append(mainRunLoop[p], e)
        BY <2>2, <2>7, <3>2, Zenon DEF RequestIsDone, SetIsDone, RemoveIsDone, ClearIsDone, Reports, Event, Events, Requests
      <4>2. \A e \in Events : Append(mainRunLoop[p], e) \in Seq(Events)
        BY <2>3
      <4> QED
        BY <2>3, <4>1, <4>2, Zenon
    <3>5. incoming'[p] \in Seq(Replies)
      BY <2>3, <3>3, QueueGrows DEF IsDone
    <3> QED
      BY <2>1, <3>3, <3>4, <3>5, Zenon DEF IsDone, KeepsCopy
  <2>8. CASE SeesChange(p) \/ SeesDeletion(p)
    <3>1. \E e \in Events : mainRunLoop'[p] = Append(mainRunLoop[p], e)
      BY <2>2, <2>8, Zenon DEF SeesChange, SeesDeletion, Reports, Event, Events, ClearCache
    <3>2. mainRunLoop'[p] \in Seq(Events)
      BY <2>3, <3>1, QueueGrows
    <3> QED
      BY <2>1, <2>8, <3>2, Zenon DEF SeesChange, SeesDeletion, Untouched, KeepsCopy, KeepsLink
  <2>9. CASE IsSentEvent(p)
    <3>1. Head(mainRunLoop[p]) \in Replies /\ Tail(mainRunLoop[p]) \in Seq(Events)
      BY <2>3, <2>9, QueueShrinks, Zenon DEF IsSentEvent, Replies
    <3>2. Append(incoming[p], Head(mainRunLoop[p])) \in Seq(Replies)
      BY <2>3, <3>1, QueueGrows, Zenon
    <3> QED
      BY <2>1, <2>9, <3>1, <3>2, Zenon DEF IsSentEvent, KeepsCopy
  <2> QED
    BY <1>2, <2>4, <2>5, <2>6, <2>7, <2>8, <2>9, Zenon DEF LocalStep
<1> QED
  BY <1>1, <1>2, Zenon DEF Outcome

\* So does what its messages carry.
LEMMA RequestsStay ==
    ASSUME LinkInv, NEW p \in Processes, Stays(p), LocalStep(p)
    PROVE  RequestsOf(p)'
<1>1. Connected(p) /\ RequestsOf(p) /\ requests[p] \in Seq(Requests) /\ mapID'[p] = mapID[p]
  BY ProcessFacts, Zenon DEF Stays, Connected
<1> DEFINE Same == requests'[p] = requests[p] /\ waitingFor'[p] = waitingFor[p]
           Less == requests[p] # <<>> /\ requests'[p] = Tail(requests[p])
           More(m) == requests'[p] = Append(requests[p], m) /\ waitingFor[p] = "nothing"
<1>2. CASE Same
  BY <1>1, <1>2 DEF RequestsOf
<1>3. CASE Less /\ (waitingFor'[p] = waitingFor[p] \/ Len(requests[p]) = 1)
  <2>1. /\ Len(requests'[p]) = Len(requests[p]) - 1 /\ Len(requests[p]) \in Nat \ {0}
        /\ \A i \in 1..Len(requests[p]) - 1 : requests'[p][i] = requests[p][i + 1]
    BY <1>1, <1>3, QueueShrinks
  <2>2. CASE Len(requests[p]) = 1
    BY <2>1, <2>2 DEF RequestsOf
  <2>3. CASE waitingFor'[p] = waitingFor[p]
    <3>1. SUFFICES ASSUME NEW i \in 1..Len(requests[p]) - 1
                   PROVE  /\ requests[p][i + 1].name \in {"GetValues", "SetItem", "RemoveItem", "Clear"}
                          /\ requests[p][i + 1].area = mapID[p]
                          /\ requests[p][i + 1].name = "GetValues" =>
                                 i + 1 = Len(requests[p]) /\ waitingFor[p] = "getValues"
                          /\ p \notin Writers => requests[p][i + 1].name = "GetValues"
      BY <1>1, <2>1, <2>3, SMTT(20) DEF RequestsOf
    <3>2. i + 1 \in 1..Len(requests[p])
      BY <2>1
    <3> QED
      BY <1>1, <3>2, Zenon DEF RequestsOf
  <2> QED
    BY <1>3, <2>2, <2>3, Zenon
<1>4. ASSUME NEW m, More(m), m.area = mapID[p],
             \/ m.name = "GetValues" /\ waitingFor'[p] = "getValues"
             \/ p \in Writers /\ m.name \in {"SetItem", "RemoveItem", "Clear"}
      PROVE  RequestsOf(p)'
  <2>1. /\ Len(requests'[p]) = Len(requests[p]) + 1 /\ Len(requests[p]) \in Nat
        /\ requests'[p][Len(requests[p]) + 1] = m
        /\ \A i \in 1..Len(requests[p]) : requests'[p][i] = requests[p][i]
    BY <1>1, <1>4, QueueGrows
  <2>2. ASSUME NEW i \in 1..Len(requests'[p])
        PROVE  /\ requests'[p][i].name \in {"GetValues", "SetItem", "RemoveItem", "Clear"}
               /\ requests'[p][i].area = mapID[p]
               /\ requests'[p][i].name = "GetValues" =>
                      i = Len(requests'[p]) /\ waitingFor'[p] = "getValues"
               /\ p \notin Writers => requests'[p][i].name = "GetValues"
    <3>1. CASE i = Len(requests[p]) + 1
      BY <1>4, <2>1, <3>1, Zenon
    <3>2. CASE i \in 1..Len(requests[p])
      BY <1>1, <1>4, <2>1, <3>2, Zenon DEF RequestsOf
    <3> QED
      BY <2>1, <3>1, <3>2
  <2> QED
    BY <1>1, <2>2, Zenon DEF RequestsOf
<1>5. CASE LoadsCopy(p)
  BY <1>4, <1>5 DEF LoadsCopy
<1>6. CASE GetsCopy(p)
  <2>1. Len(requests[p]) = 1
    <3>1. Head(requests[p]) = requests[p][1] /\ Len(requests[p]) \in Nat \ {0}
      BY <1>1, <1>6, QueueShrinks, Zenon DEF GetsCopy
    <3>2. 1 \in 1..Len(requests[p])
      BY <3>1
    <3> QED
      BY <1>1, <1>6, <3>1, <3>2, Zenon DEF GetsCopy, RequestsOf
  <2> QED
    BY <1>3, <1>6, <2>1, Zenon DEF GetsCopy
<1>7. CASE ChangesOneItem(p)
  <2>1. PICK k \in Keys : \/ \E v \in Values : ChangesCopy(p, k, v, SetRequest(p, k, v))
                         \/ ChangesCopy(p, k, Null, RemoveRequest(p, k))
    BY <1>7, Zenon DEF ChangesOneItem
  <2>2. ASSUME NEW v \in Values, ChangesCopy(p, k, v, SetRequest(p, k, v))
        PROVE  RequestsOf(p)'
    BY <1>4, <2>2 DEF ChangesCopy, SetRequest
  <2>3. CASE ChangesCopy(p, k, Null, RemoveRequest(p, k))
    BY <1>4, <2>3 DEF ChangesCopy, RemoveRequest
  <2> QED
    BY <2>1, <2>2, <2>3, Zenon
<1>8. CASE ClearsCopy(p)
  BY <1>4, <1>8 DEF ClearsCopy
<1>9. CASE RequestIsDone(p)
  BY <1>3, <1>9, Zenon DEF RequestIsDone, SetIsDone, RemoveIsDone, ClearIsDone, IsDone
<1>10. CASE Rests(p) \/ Receives(p) \/ SeesChange(p) \/ IsSentEvent(p) \/ SeesDeletion(p)
  BY <1>2, <1>10, Zenon DEF Rests, Receives, SeesChange, IsSentEvent, SeesDeletion, Untouched, KeepsLink
<1> QED
  BY <1>5, <1>6, <1>7, <1>8, <1>9, <1>10, Zenon DEF LocalStep

\* Queues of messages about one area.
About(s, a) == \A i \in 1..Len(s) : s[i].area = a

\* A queue of messages about an area stays one when such a message is added, ...
LEMMA AboutGrows ==
    ASSUME NEW S, NEW s \in Seq(S), NEW a, About(s, a), NEW e, e.area = a
    PROVE  About(Append(s, e), a)
  BY QueueGrows DEF About

\* ... and when one is taken away.
LEMMA AboutShrinks ==
    ASSUME NEW S, NEW s \in Seq(S), NEW a, About(s, a), s # <<>>
    PROVE  About(Tail(s), a) /\ Head(s).area = a
<1>1. /\ Len(Tail(s)) = Len(s) - 1 /\ Len(s) \in Nat \ {0}
      /\ Head(s) = s[1] /\ \A i \in 1..Len(s) - 1 : Tail(s)[i] = s[i + 1]
  BY QueueShrinks, Zenon
<1>2. \A i \in 1..Len(s) - 1 : i + 1 \in 1..Len(s)
  BY <1>1
<1> QED
  BY <1>1, <1>2 DEF About

\* The messages to a process are about the area it is connected to.
LEMMA RepliesStay ==
    ASSUME LinkInv, NEW p \in Processes, Stays(p), LocalStep(p)
    PROVE  RepliesTo(p)'
<1>1. /\ Connected(p) /\ incoming[p] \in Seq(Replies) /\ mainRunLoop[p] \in Seq(Events)
      /\ requests[p] \in Seq(Requests) /\ mapID'[p] = mapID[p] /\ areaID = mapID[p]
  BY ProcessFacts, Zenon DEF Stays, Connected, TypesOf
<1>2. About(incoming[p], areaID) /\ About(mainRunLoop[p], areaID)
  BY <1>1, Zenon DEF Connected, RepliesTo, About
<1> SUFFICES About(incoming'[p], areaID) /\ About(mainRunLoop'[p], areaID)
  BY <1>1, Zenon DEF RepliesTo, About
<1>3. ASSUME NEW own, NEW k, NEW v, Reports(p, own, k, v)
      PROVE  About(mainRunLoop'[p], areaID)
  <2>1. Event(own, k, v).area = areaID
    BY Zenon DEF Event
  <2>2. About(Append(mainRunLoop[p], Event(own, k, v)), areaID)
    BY <1>1, <1>2, <2>1, AboutGrows, Zenon
  <2> QED
    BY <1>3, <2>2, Zenon DEF Reports
<1>8. CASE Rests(p) \/ LoadsCopy(p) \/ GetsCopy(p) \/ ClearsCopy(p) \/ ChangesOneItem(p)
  BY <1>2, <1>8, Zenon DEF Rests, LoadsCopy, GetsCopy, ClearsCopy, ChangesOneItem, ChangesCopy, Untouched
<1>4. CASE Receives(p)
  BY <1>1, <1>2, <1>4, AboutShrinks, Zenon DEF Receives
<1>5. CASE RequestIsDone(p)
  <2> DEFINE m == Head(requests[p])
  <2>1. m.area = areaID
    <3>1. requests[p] # <<>> /\ m.name # "Connect"
      BY <1>5, Zenon DEF RequestIsDone, SetIsDone, RemoveIsDone, ClearIsDone, IsDone
    <3>2. m = requests[p][1] /\ Len(requests[p]) \in Nat \ {0}
      BY <1>1, <3>1, QueueShrinks, Zenon
    <3> QED
      BY <1>1, <3>2 DEF Connected, RequestsOf
  <2>2. \A answer : answer.area = areaID => About(Append(incoming[p], answer), areaID)
    BY <1>1, <1>2, AboutGrows, Zenon
  <2>3. About(incoming'[p], areaID)
    <3>1. CASE SetIsDone(p, m)
      <4>1. PICK b \in BOOLEAN : IsDone(p, [name |-> "DidSetItem", area |-> m.area, seed |-> m.seed,
                                           key |-> m.key, quotaError |-> b])
        BY <3>1, Zenon DEF SetIsDone
      <4> QED
        BY <2>1, <2>2, <4>1, Zenon DEF IsDone
    <3>2. CASE RemoveIsDone(p, m)
      BY <2>1, <2>2, <3>2, Zenon DEF RemoveIsDone, IsDone
    <3>3. CASE ClearIsDone(p, m)
      BY <2>1, <2>2, <3>3, Zenon DEF ClearIsDone, IsDone
    <3> QED
      BY <1>5, <3>1, <3>2, <3>3, Zenon DEF RequestIsDone
  <2>4. About(mainRunLoop'[p], areaID)
    BY <1>2, <1>3, <1>5, Zenon DEF RequestIsDone, SetIsDone, RemoveIsDone, ClearIsDone
  <2> QED
    BY <2>3, <2>4, Zenon
<1>6. CASE SeesChange(p) \/ SeesDeletion(p)
  <2>1. About(Append(mainRunLoop[p], ClearCache), areaID)
    BY <1>1, <1>2, AboutGrows, Zenon DEF ClearCache
  <2> QED
    BY <1>2, <1>3, <1>6, <2>1, Zenon DEF SeesChange, SeesDeletion, Untouched
<1>7. CASE IsSentEvent(p)
  BY <1>1, <1>2, <1>7, AboutGrows, AboutShrinks DEF IsSentEvent
<1> QED
  BY <1>4, <1>5, <1>6, <1>7, <1>8 DEF LocalStep

\* A process stays linked, or becomes unconnected.
LEMMA LinkStays ==
    ASSUME LinkInv, NEW p \in Processes, Outcome(p)
    PROVE  Linked(p)'
<1>1. CASE Starts(p)'
  BY <1>1, Zenon DEF Starts
<1>2. CASE Stays(p) /\ LocalStep(p)
  <2>1. RequestsOf(p)' /\ RepliesTo(p)'
    BY <1>2, RequestsStay, RepliesStay, Zenon
  <2>2. Connected(p)
    BY <1>2, ProcessFacts, Zenon DEF Stays
  <2>3. waitingFor'[p] = "nothing" \/ (waitingFor'[p] = "getValues" /\ map'[p] = Null)
    <3>1. CASE Rests(p) \/ SeesChange(p) \/ SeesDeletion(p) \/ IsSentEvent(p) \/ RequestIsDone(p)
      BY <2>2, <3>1, Zenon DEF Rests, SeesChange, SeesDeletion, IsSentEvent, RequestIsDone, SetIsDone, RemoveIsDone,
         ClearIsDone, IsDone, Untouched, KeepsCopy, KeepsLink, Connected
    <3>2. CASE LoadsCopy(p) \/ GetsCopy(p) \/ ChangesOneItem(p) \/ ClearsCopy(p) \/ Receives(p)
      BY <3>2, Zenon DEF LoadsCopy, GetsCopy, ChangesOneItem, ChangesCopy, ClearsCopy, Receives, KeepsCopy
    <3> QED
      BY <1>2, <3>1, <3>2, Zenon DEF LocalStep
  <2> QED
    BY <1>2, <2>1, <2>2, <2>3, Zenon DEF Stays, Connected, Linked
<1> QED
  BY <1>1, <1>2, Zenon DEF Outcome

-----------------------------------------------------------------------------
(***************************************************************************)
(* The copies.  A copy is what the changes on their way make of it: the    *)
(* events a reader has not seen lead from its copy to the items, and the   *)
(* requests of the only writer lead from the items to its copy.            *)
(***************************************************************************)

\* What a change, on its way as a request or as an event, does to a key.
Affects(m, k) ==
    \/ m.name \in {"Clear", "ClearCache"}
    \/ m.name = "DispatchStorageEvent" /\ m.key \in {k, AllKeys}
    \/ m.name \in {"SetItem", "RemoveItem"} /\ m.key = k

ValueOf(m) == IF m.name \in {"SetItem", "DispatchStorageEvent"} THEN m.value ELSE Null

NoneAffects(s, k) == \A i \in 1..Len(s) : ~Affects(s[i], k)

\* The last of the changes in s to a key, if there is one, gives it the value v.
LastGives(s, k, v) ==
    \A i \in 1..Len(s) :
        Affects(s[i], k) /\ (\A j \in i + 1..Len(s) : ~Affects(s[j], k)) => ValueOf(s[i]) = v

\* A process that only reads is told of the changes of others only.
OthersEvents == {e \in Events : e.name = "ClearCache" \/ e.own = FALSE}

Unseen(p) == incoming[p] \o mainRunLoop[p]

ReaderInv(p) ==
    /\ pendingValueChanges[p] = NonePending
    /\ hasPendingClear[p] = FALSE
    /\ incoming[p] \in Seq(OthersEvents) /\ mainRunLoop[p] \in Seq(OthersEvents)
    /\ \A k \in Keys :
        /\ LastGives(Unseen(p), k, items[k])
        /\ map[p] # Null /\ NoneAffects(Unseen(p), k) => map[p][k] = items[k]

\* The only process that writes is told of no changes but its own and deletions.
OwnReplies == {m \in Replies : m.name = "DispatchStorageEvent" => m.own = TRUE}

\* It is about to drop its copy, ...
Drops(seed) ==
    {m \in Replies : \/ m.name = "ClearCache"
                     \/ m.name = "DidSetItem" /\ m.quotaError = TRUE /\ m.seed = seed}

Has(s, M) == \E i \in 1..Len(s) : s[i] \in M

WillReset(p) == Has(mainRunLoop[p], Drops(currentSeed[p])) \/ Has(incoming[p], Drops(currentSeed[p]))

\* ... or else its requests lead from the items to its copy, ...
RequestsLead(p) ==
    \A k \in Keys : /\ LastGives(requests[p], k, map[p][k])
                    /\ NoneAffects(requests[p], k) => map[p][k] = items[k]

\* ... and one that may be refused has the current seed, or a clear follows it.
RefusalsResetOrPrecedeClear(p) ==
    \A i \in 1..Len(requests[p]) :
        \/ requests[p][i].name # "SetItem"
        \/ requests[p][i].seed = currentSeed[p]
        \/ \E j \in i + 1..Len(requests[p]) : requests[p][j].name = "Clear"

WriterInv(p) ==
    /\ incoming[p] \in Seq(OwnReplies) /\ mainRunLoop[p] \in Seq(OwnReplies)
    /\ map[p] # Null /\ ~WillReset(p) => RequestsLead(p) /\ RefusalsResetOrPrecedeClear(p)

CopiesInv ==
    \A p \in Processes : /\ p \notin Writers => ReaderInv(p)
                         /\ Writers = {p} => WriterInv(p)

\* A change added at the end decides.
LEMMA LastOfMore ==
    ASSUME NEW S, NEW s \in Seq(S), NEW e, NEW k
    PROVE  /\ Affects(e, k) => /\ LastGives(Append(s, e), k, ValueOf(e))
                               /\ ~NoneAffects(Append(s, e), k)
           /\ ~Affects(e, k) => /\ \A v : LastGives(s, k, v) => LastGives(Append(s, e), k, v)
                                /\ NoneAffects(Append(s, e), k) => NoneAffects(s, k)
<1> DEFINE t == Append(s, e)
           n == Len(s) + 1
<1>1. /\ Len(t) = n /\ n \in Nat /\ n \in 1..n /\ t[n] = e /\ \A i \in 1..Len(s) : t[i] = s[i]
      /\ \A i \in 1..n : i = n \/ i \in 1..Len(s)
  BY QueueGrows
<1> HIDE DEF t, n
<1>2. CASE Affects(e, k)
  <2>1. ~NoneAffects(t, k)
    BY <1>1, <1>2, Zenon DEF NoneAffects
  <2>2. ASSUME NEW i \in 1..Len(t), \A j \in i + 1..Len(t) : ~Affects(t[j], k)
        PROVE  i = n
    <3>1. n \in i + 1..Len(t) \/ i = n
      BY <1>1
    <3> QED
      BY <1>1, <1>2, <2>2, <3>1, Zenon
  <2>3. LastGives(t, k, ValueOf(e))
    BY <1>1, <2>2, Zenon DEF LastGives
  <2> QED
    BY <1>2, <2>1, <2>3, Zenon DEF t
<1>3. CASE ~Affects(e, k)
  <2>1. NoneAffects(t, k) => NoneAffects(s, k)
    BY <1>1 DEF NoneAffects, n
  <2>2. ASSUME NEW v, LastGives(s, k, v)
        PROVE  LastGives(t, k, v)
    <3>1. SUFFICES ASSUME NEW i \in 1..Len(t), Affects(t[i], k), \A j \in i + 1..Len(t) : ~Affects(t[j], k)
                   PROVE  ValueOf(t[i]) = v
      BY Zenon DEF LastGives
    <3>2. i \in 1..Len(s) /\ t[i] = s[i]
      BY <1>1, <1>3, <3>1, Zenon
    <3>3. \A j \in i + 1..Len(s) : j \in i + 1..Len(t) /\ t[j] = s[j]
      BY <1>1, <3>2 DEF n
    <3> QED
      BY <2>2, <3>1, <3>2, <3>3, Zenon DEF LastGives
  <2> QED
    BY <1>3, <2>1, <2>2, Zenon DEF t
<1> QED
  BY <1>2, <1>3, Zenon

\* The first change taken away had been decisive if none is left.
LEMMA LastOfFewer ==
    ASSUME NEW S, NEW s \in Seq(S), s # <<>>, NEW k, NEW v, LastGives(s, k, v)
    PROVE  /\ LastGives(Tail(s), k, v)
           /\ NoneAffects(Tail(s), k) => IF Affects(Head(s), k) THEN ValueOf(Head(s)) = v
                                         ELSE NoneAffects(s, k)
<1> DEFINE t == Tail(s)
<1>1. /\ Len(t) = Len(s) - 1 /\ Len(s) \in Nat \ {0} /\ Head(s) = s[1]
      /\ \A i \in 1..Len(s) - 1 : t[i] = s[i + 1]
  BY QueueShrinks, Zenon
<1> HIDE DEF t
<1>2. LastGives(t, k, v)
  <2>1. SUFFICES ASSUME NEW i \in 1..Len(t), Affects(t[i], k), \A j \in i + 1..Len(t) : ~Affects(t[j], k)
                 PROVE  ValueOf(t[i]) = v
    BY Zenon DEF LastGives
  <2>2. i + 1 \in 1..Len(s) /\ t[i] = s[i + 1]
    BY <1>1
  <2>3. ASSUME NEW j \in (i + 1) + 1..Len(s)
        PROVE  ~Affects(s[j], k)
    <3>1. j - 1 \in i + 1..Len(t) /\ j - 1 \in 1..Len(s) - 1 /\ (j - 1) + 1 = j
      BY <1>1
    <3> QED
      BY <1>1, <2>1, <3>1, Zenon
  <2> QED
    BY <2>1, <2>2, <2>3, Zenon DEF LastGives
<1>3. ASSUME NoneAffects(t, k)
      PROVE  \A j \in 2..Len(s) : ~Affects(s[j], k)
  <2>1. SUFFICES ASSUME NEW j \in 2..Len(s)
                 PROVE  ~Affects(s[j], k)
    BY Zenon
  <2>2. j - 1 \in 1..Len(t) /\ j - 1 \in 1..Len(s) - 1 /\ (j - 1) + 1 = j
    BY <1>1
  <2> QED
    BY <1>1, <1>3, <2>2, Zenon DEF NoneAffects
<1>4. ASSUME NoneAffects(t, k), Affects(Head(s), k)
      PROVE  ValueOf(Head(s)) = v
  <2>1. 1 \in 1..Len(s) /\ 1 + 1 = 2
    BY <1>1
  <2> QED
    BY <1>1, <1>3, <1>4, <2>1, Zenon DEF LastGives
<1>5. ASSUME NoneAffects(t, k), ~Affects(Head(s), k)
      PROVE  NoneAffects(s, k)
  <2>1. \A j \in 1..Len(s) : j = 1 \/ j \in 2..Len(s)
    BY <1>1
  <2> QED
    BY <1>1, <1>3, <1>5, <2>1, Zenon DEF NoneAffects
<1> QED
  BY <1>2, <1>4, <1>5, Zenon DEF t

\* The unseen changes as one queue.
LEMMA UnseenQueue ==
    ASSUME NEW S, NEW a \in Seq(S), NEW b \in Seq(S)
    PROVE  /\ a \o b \in Seq(S)
           /\ a # <<>> => a \o b # <<>> /\ Head(a \o b) = Head(a) /\ Tail(a) \o b = Tail(a \o b)
           /\ b # <<>> => Append(a, Head(b)) \o Tail(b) = a \o b
<1>1. a \o b \in Seq(S)
  OBVIOUS
<1>2. a # <<>> => a \o b # <<>> /\ Head(a \o b) = Head(a)
  OBVIOUS
<1>3. a # <<>> => Tail(a) \o b = Tail(a \o b)
  BY SMTT(20)
<1>4. b # <<>> => Append(a, Head(b)) \o Tail(b) = a \o b
  BY SMTT(20)
<1> QED
  BY <1>1, <1>2, <1>3, <1>4, Zenon

\* A process without a copy and without messages.
LEMMA StartIsFine ==
    ASSUME NEW p \in Processes, Starts(p)
    PROVE  ReaderInv(p) /\ WriterInv(p)
<1>1. NoCopy(p) /\ <<>> \in Seq(OthersEvents) /\ <<>> \in Seq(OwnReplies)
  BY DEF Starts
<1>2. Unseen(p) = <<>>
  BY <1>1 DEF NoCopy, Unseen
<1>3. Len(Unseen(p)) = 0
  BY <1>2
<1>4. \A k \in Keys : LastGives(Unseen(p), k, items[k])
  BY <1>3 DEF LastGives
<1> QED
  BY <1>1, <1>4, Zenon DEF NoCopy, ReaderInv, WriterInv

\* A reader handles an event or clearCache.
LEMMA ReaderReceives ==
    ASSUME LinkInv, NEW p \in Processes, p \notin Writers, ReaderInv(p), Receives(p)
    PROVE  ReaderInv(p)'
<1> DEFINE m == Head(incoming[p])
<1>1. /\ incoming[p] \in Seq(OthersEvents) /\ mainRunLoop[p] \in Seq(OthersEvents) /\ incoming[p] # <<>>
      /\ incoming'[p] = Tail(incoming[p]) /\ mainRunLoop'[p] = mainRunLoop[p] /\ items' = items
      /\ pendingValueChanges[p] = NonePending /\ hasPendingClear[p] = FALSE
      /\ Handles(p, m)
  BY Zenon DEF ReaderInv, Receives
<1>2. m \in OthersEvents /\ Tail(incoming[p]) \in Seq(OthersEvents)
  BY <1>1, QueueShrinks, Zenon
<1>3. /\ Unseen(p) \in Seq(OthersEvents) /\ Unseen(p) # <<>> /\ Head(Unseen(p)) = m
      /\ Unseen(p)' = Tail(Unseen(p))
  <2>1. incoming[p] \o mainRunLoop[p] \in Seq(OthersEvents)
    BY <1>1, UnseenQueue, Zenon
  <2>2. incoming[p] \o mainRunLoop[p] # <<>> /\ Head(incoming[p] \o mainRunLoop[p]) = m
    BY <1>1, UnseenQueue, ZenonT(30)
  <2>3. Tail(incoming[p]) \o mainRunLoop[p] = Tail(incoming[p] \o mainRunLoop[p])
    BY <1>1, UnseenQueue, Zenon
  <2> QED
    BY <1>1, <2>1, <2>2, <2>3, Zenon DEF Unseen
<1>4. /\ m.name \in {"ClearCache", "DispatchStorageEvent"}
      /\ m.name = "DispatchStorageEvent" =>
             /\ m.own = FALSE
             /\ (m.key = AllKeys /\ m.value = Null) \/ m.key \in Keys
  BY <1>2, Zenon DEF OthersEvents, Events
<1>5. \/ map'[p] = Null /\ m.name = "ClearCache"
      \/ m.name = "DispatchStorageEvent" /\ Applies(p, m)
  <2>1. ~Ignores(p, m)
    <3>1. m.name \notin {"DidSetItem", "DidRemoveItem", "DidClear"}
      BY <1>4, Zenon
    <3> QED
      BY <1>1, <1>4, <3>1, Zenon DEF Ignores
  <2>2. ~SettlesItem(p, m) /\ ~SettlesClear(p, m)
    BY <1>4, Zenon DEF SettlesItem, SettlesClear
  <2>3. Resets(p, m) => map'[p] = Null /\ m.name = "ClearCache"
    BY <1>4, Zenon DEF Resets
  <2>4. Applies(p, m) => m.name = "DispatchStorageEvent"
    BY Zenon DEF Applies
  <2> QED
    BY <1>1, <2>1, <2>2, <2>3, <2>4, Zenon DEF Handles
<1>6. pendingValueChanges'[p] = NonePending /\ hasPendingClear'[p] = FALSE
  BY <1>1, <1>4, Zenon DEF Handles, Resets, Ignores, SettlesItem, SettlesClear, Applies, KeepsCopy
<1>7. ASSUME NEW k \in Keys
      PROVE  /\ LastGives(Tail(Unseen(p)), k, items[k])
             /\ map'[p] # Null /\ NoneAffects(Tail(Unseen(p)), k) => map'[p][k] = items[k]
  <2>1. /\ LastGives(Tail(Unseen(p)), k, items[k])
        /\ NoneAffects(Tail(Unseen(p)), k) => IF Affects(m, k) THEN ValueOf(m) = items[k]
                                              ELSE NoneAffects(Unseen(p), k)
    BY <1>3, LastOfFewer, Zenon DEF ReaderInv
  <2>2. ASSUME Applies(p, m), map'[p] # Null, NoneAffects(Tail(Unseen(p)), k)
        PROVE  map'[p][k] = items[k]
    <3>1. m.name = "DispatchStorageEvent" /\ ValueOf(m) = m.value
      BY <2>2, Zenon DEF Applies, ValueOf
    <3>2. CASE m.key = AllKeys
      <4>1. Affects(m, k) /\ m.value = Null
        BY <1>4, <3>1, <3>2, AreaAssumption, Zenon DEF Affects
      <4>2. map'[p] = Empty
        BY <2>2, <3>2, Zenon DEF Applies
      <4> QED
        BY <2>1, <2>2, <3>1, <4>1, <4>2, Zenon DEF Empty
    <3>3. CASE m.key # AllKeys
      <4>1. m.key \in Keys /\ map[p] # Null /\ map'[p] = [map[p] EXCEPT ![m.key] = m.value] /\ map[p] \in Maps
        BY <1>1, <1>4, <2>2, <3>1, <3>3, ProcessFacts DEF Applies, NonePending, TypesOf
      <4>2. CASE m.key = k
        <5>1. Affects(m, k)
          BY <3>1, <4>2, Zenon DEF Affects
        <5> QED
          BY <2>1, <2>2, <3>1, <4>1, <4>2, <5>1, Zenon DEF Maps
      <4>3. CASE m.key # k
        <5>1. ~Affects(m, k)
          BY <3>1, <3>3, <4>3, Zenon DEF Affects
        <5>2. map[p][k] = items[k]
          BY <2>1, <2>2, <4>1, <5>1, Zenon DEF ReaderInv
        <5> QED
          BY <4>1, <4>3, <5>2, Zenon DEF Maps
      <4> QED
        BY <4>2, <4>3, Zenon
    <3> QED
      BY <3>2, <3>3, Zenon
  <2> QED
    BY <1>5, <2>1, <2>2, Zenon
<1> QED
  BY <1>1, <1>2, <1>3, <1>6, <1>7, Zenon DEF ReaderInv

\* A reader is about to be told of a change.
LEMMA ReaderIsTold ==
    ASSUME LinkInv, NEW p \in Processes, ReaderInv(p), Untouched(p),
           NEW e \in OthersEvents, mainRunLoop'[p] = Append(mainRunLoop[p], e),
           \A k \in Keys : items'[k] = IF Affects(e, k) THEN ValueOf(e) ELSE items[k]
    PROVE  ReaderInv(p)'
<1>1. /\ incoming[p] \in Seq(OthersEvents) /\ mainRunLoop[p] \in Seq(OthersEvents)
      /\ incoming'[p] = incoming[p] /\ mainRunLoop'[p] \in Seq(OthersEvents)
      /\ map'[p] = map[p] /\ pendingValueChanges'[p] = NonePending /\ hasPendingClear'[p] = FALSE
  BY QueueGrows DEF ReaderInv, Untouched, KeepsCopy
<1>2. Unseen(p) \in Seq(OthersEvents) /\ Unseen(p)' = Append(Unseen(p), e)
  <2> DEFINE a == incoming[p]
             b == mainRunLoop[p]
  <2>1. a \in Seq(OthersEvents) /\ b \in Seq(OthersEvents)
    BY <1>1, Zenon
  <2> HIDE DEF a, b
  <2>2. a \o b \in Seq(OthersEvents) /\ a \o Append(b, e) = Append(a \o b, e)
    BY <2>1
  <2> QED
    BY <1>1, <2>2, Zenon DEF Unseen, a, b
<1>3. ASSUME NEW k \in Keys
      PROVE  /\ LastGives(Append(Unseen(p), e), k, items'[k])
             /\ map[p] # Null /\ NoneAffects(Append(Unseen(p), e), k) => map[p][k] = items'[k]
  <2>1. LastGives(Unseen(p), k, items[k]) /\ (map[p] # Null /\ NoneAffects(Unseen(p), k) => map[p][k] = items[k])
    BY Zenon DEF ReaderInv
  <2>2. CASE Affects(e, k)
    BY <1>2, <2>2, LastOfMore, Zenon
  <2>3. CASE ~Affects(e, k)
    BY <1>2, <2>1, <2>3, LastOfMore, Zenon
  <2> QED
    BY <2>2, <2>3, Zenon
<1> QED
  BY <1>1, <1>2, <1>3, Zenon DEF ReaderInv

\* Every step preserves ReaderInv.
LEMMA ReaderStep ==
    ASSUME LinkInv, NEW p \in Processes, p \notin Writers, ReaderInv(p), Outcome(p)
    PROVE  ReaderInv(p)'
<1>1. CASE Starts(p)'
  <2>1. ReaderInv(p)' /\ WriterInv(p)'
    BY <1>1, StartIsFine, PTL
  <2> QED
    BY <2>1, Zenon
<1>2. CASE Rests(p) \/ LoadsCopy(p) \/ GetsCopy(p)
  <2>1. /\ incoming'[p] = incoming[p] /\ mainRunLoop'[p] = mainRunLoop[p] /\ items' = items
        /\ map'[p] = map[p] \/ map'[p] = items
        /\ pendingValueChanges'[p] = pendingValueChanges[p] /\ hasPendingClear'[p] = hasPendingClear[p]
    BY <1>2, Zenon DEF Rests, LoadsCopy, GetsCopy, Untouched, KeepsCopy
  <2>2. Unseen(p)' = Unseen(p)
    BY <2>1, Zenon DEF Unseen
  <2> QED
    BY <2>1, <2>2, Zenon DEF ReaderInv
<1>3. CASE Receives(p)
  BY <1>3, ReaderReceives, Zenon
<1>4. ~ChangesOneItem(p) /\ ~ClearsCopy(p)
  BY Zenon DEF ChangesOneItem, ChangesCopy, ClearsCopy
<1>5. ASSUME Stays(p), RequestIsDone(p)
      PROVE  FALSE
  <2>1. Connected(p) /\ requests[p] \in Seq(Requests)
    BY <1>5, ProcessFacts, Zenon DEF Stays
  <2>2. requests[p] # <<>> /\ Head(requests[p]).name # "GetValues"
    BY <1>5, Zenon DEF RequestIsDone, SetIsDone, RemoveIsDone, ClearIsDone, IsDone
  <2>3. Head(requests[p]) = requests[p][1] /\ 1 \in 1..Len(requests[p])
    BY <2>1, <2>2, QueueShrinks
  <2> QED
    BY <2>1, <2>2, <2>3, Zenon DEF Connected, RequestsOf
<1>6. CASE IsSentEvent(p)
  <2>1. /\ incoming[p] \in Seq(OthersEvents) /\ mainRunLoop[p] \in Seq(OthersEvents) /\ mainRunLoop[p] # <<>>
        /\ incoming'[p] = Append(incoming[p], Head(mainRunLoop[p])) /\ mainRunLoop'[p] = Tail(mainRunLoop[p])
        /\ items' = items /\ KeepsCopy(p)
    BY <1>6, Zenon DEF IsSentEvent, ReaderInv
  <2>2. Unseen(p)' = Unseen(p)
    <3>1. Append(incoming[p], Head(mainRunLoop[p])) \o Tail(mainRunLoop[p]) = incoming[p] \o mainRunLoop[p]
      BY <2>1, UnseenQueue, ZenonT(30)
    <3> QED
      BY <2>1, <3>1, Zenon DEF Unseen
  <2>3. incoming'[p] \in Seq(OthersEvents) /\ mainRunLoop'[p] \in Seq(OthersEvents)
    BY <2>1, QueueGrows, QueueShrinks
  <2> QED
    BY <2>1, <2>2, <2>3, Zenon DEF ReaderInv, KeepsCopy
<1>7. CASE SeesDeletion(p)
  <2>1. ClearCache \in OthersEvents /\ ValueOf(ClearCache) = Null /\ \A k : Affects(ClearCache, k)
    BY Zenon DEF ClearCache, OthersEvents, Events, LinkInv, LinkTypeOK, ValueOf, Affects
  <2>2. \A k \in Keys : items'[k] = Null
    BY <1>7, Zenon DEF SeesDeletion, Empty
  <2> QED
    BY <1>7, <2>1, <2>2, ReaderIsTold, Zenon DEF SeesDeletion
<1>8. CASE SeesChange(p)
  <2>1. PICK k, v : /\ Reports(p, FALSE, k, v)
                    /\ (k \in Keys /\ v \in Values \cup {Null}) \/ (k = AllKeys /\ v = Null)
    BY <1>8, Zenon DEF SeesChange
  <2> DEFINE e == Event(FALSE, k, v)
  <2>2. e \in OthersEvents
    BY <2>1, Zenon DEF Event, OthersEvents, Events, LinkInv, LinkTypeOK
  <2>3. ValueOf(e) = v /\ \A j \in Keys : Affects(e, j) <=> (k = j \/ k = AllKeys)
    BY Zenon DEF Event, ValueOf, Affects
  <2>4. \A j \in Keys : items'[j] = IF Affects(e, j) THEN ValueOf(e) ELSE items[j]
    BY <2>1, <2>3, AreaAssumption, Zenon DEF Reports, Empty, LinkInv, ItemsOK, Maps
  <2>5. mainRunLoop'[p] = Append(mainRunLoop[p], e)
    BY <2>1, Zenon DEF Reports
  <2> QED
    BY <1>8, <2>2, <2>4, <2>5, ReaderIsTold, Zenon DEF SeesChange
<1> QED
  BY <1>1, <1>2, <1>3, <1>4, <1>5, <1>6, <1>7, <1>8 DEF Outcome, LocalStep

\* A message that is in a queue, after one more and after one less.
LEMMA HasGrows ==
    ASSUME NEW S, NEW s \in Seq(S), NEW e, NEW M
    PROVE  Has(Append(s, e), M) <=> Has(s, M) \/ e \in M
<1>1. /\ Len(Append(s, e)) = Len(s) + 1 /\ Len(s) \in Nat /\ Append(s, e)[Len(s) + 1] = e
      /\ \A i \in 1..Len(s) : Append(s, e)[i] = s[i]
  BY QueueGrows
<1>2. /\ Len(s) + 1 \in 1..Len(s) + 1 /\ \A i \in 1..Len(s) : i \in 1..Len(s) + 1
      /\ \A i \in 1..Len(s) + 1 : i \in 1..Len(s) \/ i = Len(s) + 1
  BY <1>1
<1>3. Has(Append(s, e), M) => Has(s, M) \/ e \in M
  BY <1>1, <1>2, Zenon DEF Has
<1>4. Has(s, M) \/ e \in M => Has(Append(s, e), M)
  BY <1>1, <1>2, Zenon DEF Has
<1> QED
  BY <1>3, <1>4, Zenon

\* A message that was in a queue is the one taken away or still in it.
LEMMA HasShrinks ==
    ASSUME NEW S, NEW s \in Seq(S), s # <<>>, NEW M
    PROVE  Has(s, M) => Head(s) \in M \/ Has(Tail(s), M)
<1>1. SUFFICES ASSUME NEW i \in 1..Len(s), s[i] \in M, i # 1
               PROVE  Has(Tail(s), M)
  BY QueueShrinks DEF Has
<1>2. /\ Len(Tail(s)) = Len(s) - 1 /\ Len(s) \in Nat \ {0}
      /\ \A j \in 1..Len(s) - 1 : Tail(s)[j] = s[j + 1]
  BY QueueShrinks, Zenon
<1>3. i - 1 \in 1..Len(s) - 1 /\ (i - 1) + 1 = i
  BY <1>1, <1>2
<1> QED
  BY <1>1, <1>2, <1>3, Zenon DEF Has

\* The writer changes its copy and asks the network process to do the same.
LEMMA WriterChanges ==
    ASSUME LinkInv, NEW p \in Processes, NEW m, requests'[p] = Append(requests[p], m),
           NEW v, map'[p] = [j \in Keys |-> IF Affects(m, j) THEN v ELSE map[p][j]], v = ValueOf(m),
           \/ RequestsLead(p) /\ RefusalsResetOrPrecedeClear(p) /\ currentSeed'[p] = currentSeed[p]
              /\ m.seed = currentSeed[p]
           \/ m.name = "Clear",
           items' = items
    PROVE  RequestsLead(p)' /\ RefusalsResetOrPrecedeClear(p)'
<1>1. requests[p] \in Seq(Requests)
  BY ProcessFacts, Zenon
<1>2. RequestsLead(p)'
  <2>1. SUFFICES ASSUME NEW k \in Keys
                 PROVE  /\ LastGives(requests'[p], k, map'[p][k])
                        /\ NoneAffects(requests'[p], k) => map'[p][k] = items'[k]
    BY Zenon DEF RequestsLead
  <2>2. CASE Affects(m, k)
    BY <1>1, <2>2, LastOfMore
  <2>3. CASE ~Affects(m, k)
    <3>1. m.name # "Clear"
      BY <2>3, Zenon DEF Affects
    <3>2. LastGives(requests[p], k, map[p][k]) /\ (NoneAffects(requests[p], k) => map[p][k] = items[k])
      BY <3>1, Zenon DEF RequestsLead
    <3> QED
      BY <1>1, <2>3, <3>2, LastOfMore
  <2> QED
    BY <2>2, <2>3, Zenon
<1>3. RefusalsResetOrPrecedeClear(p)'
  <2>1. /\ Len(requests'[p]) = Len(requests[p]) + 1 /\ Len(requests[p]) \in Nat
        /\ requests'[p][Len(requests[p]) + 1] = m
        /\ \A i \in 1..Len(requests[p]) : requests'[p][i] = requests[p][i]
    BY <1>1, QueueGrows
  <2>2. SUFFICES ASSUME NEW i \in 1..Len(requests'[p]), requests'[p][i].name = "SetItem"
                 PROVE  \/ requests'[p][i].seed = currentSeed'[p]
                        \/ \E j \in i + 1..Len(requests'[p]) : requests'[p][j].name = "Clear"
    BY Zenon DEF RefusalsResetOrPrecedeClear
  <2>3. CASE m.name = "Clear"
    <3>1. i # Len(requests[p]) + 1
      BY <2>1, <2>2, <2>3, Zenon
    <3>2. Len(requests[p]) + 1 \in i + 1..Len(requests'[p])
      BY <2>1, <3>1
    <3> QED
      BY <2>1, <2>3, <3>2, Zenon
  <2>4. CASE m.name # "Clear" /\ i = Len(requests[p]) + 1
    BY <2>1, <2>4, Zenon
  <2>5. CASE m.name # "Clear" /\ i \in 1..Len(requests[p])
    <3>1. \/ requests[p][i].seed = currentSeed[p]
          \/ \E j \in i + 1..Len(requests[p]) : requests[p][j].name = "Clear"
      BY <2>1, <2>2, <2>5, Zenon DEF RefusalsResetOrPrecedeClear
    <3>2. \A j \in i + 1..Len(requests[p]) : /\ j \in i + 1..Len(requests'[p]) /\ requests'[p][j] = requests[p][j]
      BY <2>1, <2>5
    <3> QED
      BY <2>1, <2>5, <3>1, <3>2, Zenon
  <2> QED
    BY <2>1, <2>3, <2>4, <2>5
<1> QED
  BY <1>2, <1>3, Zenon

\* A request of the writer is handled.
LEMMA WriterIsServed ==
    ASSUME LinkInv, NEW p \in Processes, RequestsLead(p), RefusalsResetOrPrecedeClear(p),
           requests[p] # <<>>, requests'[p] = Tail(requests[p]), KeepsCopy(p),
           \/ \A k \in Keys : items'[k] = IF Affects(Head(requests[p]), k) THEN ValueOf(Head(requests[p]))
                                          ELSE items[k]
           \/ Head(requests[p]).name = "SetItem" /\ Head(requests[p]).seed # currentSeed[p] /\ items' = items
    PROVE  RequestsLead(p)' /\ RefusalsResetOrPrecedeClear(p)'
<1> DEFINE m == Head(requests[p])
<1>1. requests[p] \in Seq(Requests) /\ map'[p] = map[p] /\ currentSeed'[p] = currentSeed[p]
  BY ProcessFacts, Zenon DEF KeepsCopy
<1>2. /\ Len(requests'[p]) = Len(requests[p]) - 1 /\ Len(requests[p]) \in Nat \ {0}
      /\ m = requests[p][1]
      /\ \A i \in 1..Len(requests[p]) - 1 : requests'[p][i] = requests[p][i + 1]
  BY <1>1, QueueShrinks
<1>3. RequestsLead(p)'
  <2>1. SUFFICES ASSUME NEW k \in Keys
                 PROVE  /\ LastGives(requests'[p], k, map[p][k])
                        /\ NoneAffects(requests'[p], k) => map[p][k] = items'[k]
    BY <1>1, Zenon DEF RequestsLead
  <2>2. /\ LastGives(requests[p], k, map[p][k])
        /\ NoneAffects(requests[p], k) => map[p][k] = items[k]
    BY Zenon DEF RequestsLead
  <2>3. /\ LastGives(requests'[p], k, map[p][k])
        /\ NoneAffects(requests'[p], k) => IF Affects(m, k) THEN ValueOf(m) = map[p][k]
                                           ELSE NoneAffects(requests[p], k)
    BY <1>1, <2>2, LastOfFewer
  <2>4. CASE items'[k] = IF Affects(m, k) THEN ValueOf(m) ELSE items[k]
    BY <2>2, <2>3, <2>4, Zenon
  <2>5. CASE m.name = "SetItem" /\ m.seed # currentSeed[p]
    <3>1. 1 \in 1..Len(requests[p])
      BY <1>2
    <3>2. PICK j \in 1 + 1..Len(requests[p]) : requests[p][j].name = "Clear"
      BY <1>2, <2>5, <3>1, Zenon DEF RefusalsResetOrPrecedeClear
    <3>3. j - 1 \in 1..Len(requests'[p]) /\ j - 1 \in 1..Len(requests[p]) - 1 /\ (j - 1) + 1 = j
      BY <1>2
    <3>4. Affects(requests'[p][j - 1], k)
      BY <1>2, <3>2, <3>3, Zenon DEF Affects
    <3> QED
      BY <2>3, <3>3, <3>4, Zenon DEF NoneAffects
  <2> QED
    BY <2>4, <2>5, Zenon
<1>4. RefusalsResetOrPrecedeClear(p)'
  <2>1. SUFFICES ASSUME NEW i \in 1..Len(requests'[p]), requests'[p][i].name = "SetItem",
                        requests'[p][i].seed # currentSeed[p]
                 PROVE  \E j \in i + 1..Len(requests'[p]) : requests'[p][j].name = "Clear"
    BY <1>1, Zenon DEF RefusalsResetOrPrecedeClear
  <2>2. i + 1 \in 1..Len(requests[p]) /\ requests'[p][i] = requests[p][i + 1]
    BY <1>2
  <2>3. PICK j \in (i + 1) + 1..Len(requests[p]) : requests[p][j].name = "Clear"
    BY <2>1, <2>2, Zenon DEF RefusalsResetOrPrecedeClear
  <2>4. j - 1 \in i + 1..Len(requests'[p]) /\ j - 1 \in 1..Len(requests[p]) - 1 /\ (j - 1) + 1 = j
    BY <1>2
  <2> QED
    BY <1>2, <2>3, <2>4, Zenon
<1> QED
  BY <1>3, <1>4, Zenon

\* What the handler of a request makes of the items, and what it answers.
LEMMA ServedItems ==
    ASSUME LinkInv, NEW p \in Processes, Stays(p), RequestIsDone(p)
    PROVE  LET m == Head(requests[p]) IN
           /\ requests[p] # <<>> /\ requests'[p] = Tail(requests[p]) /\ KeepsCopy(p)
           /\ \/ \A k \in Keys : items'[k] = IF Affects(m, k) THEN ValueOf(m) ELSE items[k]
              \/ /\ m.name = "SetItem" /\ items' = items
                 /\ \E e \in Drops(m.seed) : incoming'[p] = Append(incoming[p], e)
<1> DEFINE m == Head(requests[p])
<1>1. requests[p] # <<>> /\ requests'[p] = Tail(requests[p]) /\ KeepsCopy(p)
  BY Zenon DEF RequestIsDone, SetIsDone, RemoveIsDone, ClearIsDone, IsDone
<1>2. m \in Requests
  BY <1>1, ProcessFacts, QueueShrinks, Zenon
<1>3. items \in [Keys -> Values \cup {Null}] /\ AllKeys \notin Keys
  BY AreaAssumption, Zenon DEF LinkInv, ItemsOK, Maps
<1>4. CASE SetIsDone(p, m)
  <2>1. m.area \in Nat /\ m.seed \in Nat /\ m.key \in Keys /\ m.name = "SetItem"
    BY <1>2, <1>4, Zenon DEF SetIsDone, Requests
  <2>2. CASE Reports(p, TRUE, m.key, m.value)
    BY <1>1, <1>3, <2>1, <2>2, Zenon DEF Reports, Affects, ValueOf
  <2>3. CASE /\ incoming'[p] = Append(incoming[p], [name |-> "DidSetItem", area |-> m.area, seed |-> m.seed,
                                                    key |-> m.key, quotaError |-> TRUE])
             /\ items' = items
    <3>1. [name |-> "DidSetItem", area |-> m.area, seed |-> m.seed, key |-> m.key, quotaError |-> TRUE]
              \in Drops(m.seed)
      BY <2>1, Zenon DEF Drops, Replies
    <3> QED
      BY <1>1, <2>1, <2>3, <3>1, Zenon
  <2> QED
    BY <1>4, <2>2, <2>3, Zenon DEF SetIsDone, IsDone
<1>5. CASE RemoveIsDone(p, m)
  <2>1. m.key \in Keys /\ m.name = "RemoveItem"
    BY <1>2, <1>5, Zenon DEF RemoveIsDone, Requests
  <2>2. items' = [items EXCEPT ![m.key] = Null] \/ (items[m.key] = Null /\ items' = items)
    BY <1>3, <1>5, <2>1, Zenon DEF RemoveIsDone, Reports
  <2> QED
    BY <1>1, <1>3, <2>1, <2>2, Zenon DEF Affects, ValueOf
<1>6. CASE ClearIsDone(p, m)
  <2>1. items' = Empty /\ m.name = "Clear"
    BY <1>6, Zenon DEF ClearIsDone, Reports
  <2> QED
    BY <1>1, <2>1, Zenon DEF Affects, ValueOf, Empty
<1> QED
  BY <1>4, <1>5, <1>6, Zenon DEF RequestIsDone

\* The messages that are on their way to the only writer.
LEMMA WriterMessages ==
    ASSUME LinkInv, NEW p \in Processes, Writers = {p}, WriterInv(p), Stays(p), LocalStep(p)
    PROVE  incoming'[p] \in Seq(OwnReplies) /\ mainRunLoop'[p] \in Seq(OwnReplies)
<1>1. incoming[p] \in Seq(OwnReplies) /\ mainRunLoop[p] \in Seq(OwnReplies)
  BY Zenon DEF WriterInv
<1>2. CASE Rests(p) \/ LoadsCopy(p) \/ GetsCopy(p) \/ ChangesOneItem(p) \/ ClearsCopy(p)
  BY <1>1, <1>2, Zenon DEF Rests, LoadsCopy, GetsCopy, ChangesOneItem, ChangesCopy, ClearsCopy, Untouched
<1>3. CASE Receives(p)
  <2>1. incoming[p] # <<>> /\ incoming'[p] = Tail(incoming[p]) /\ mainRunLoop'[p] = mainRunLoop[p]
    BY <1>3, Zenon DEF Receives
  <2> QED
    BY <1>1, <2>1, QueueShrinks, Zenon
<1>4. CASE RequestIsDone(p)
  <2> DEFINE m == Head(requests[p])
  <2>1. requests[p] # <<>> /\ requests[p] \in Seq(Requests)
    BY <1>4, ProcessFacts, Zenon DEF RequestIsDone, SetIsDone, RemoveIsDone, ClearIsDone, IsDone
  <2>2. m \in Requests
    BY <2>1, QueueShrinks, Zenon
  <2>3. ASSUME NEW k, NEW v, (k \in Keys /\ v \in Values \cup {Null}) \/ (k = AllKeys /\ v = Null)
        PROVE  Event(TRUE, k, v) \in OwnReplies
    BY <2>3, Zenon DEF Event, OwnReplies, Replies, Events, LinkInv, LinkTypeOK
  <2> SUFFICES /\ \E a \in OwnReplies : incoming'[p] = Append(incoming[p], a)
               /\ mainRunLoop'[p] = mainRunLoop[p] \/ \E e \in OwnReplies : mainRunLoop'[p] = Append(mainRunLoop[p], e)
    <3>1. \A s \in Seq(OwnReplies), e \in OwnReplies : Append(s, e) \in Seq(OwnReplies)
      BY QueueGrows, Zenon
    <3> QED
      BY <1>1, <3>1, Zenon
  <2>4. CASE SetIsDone(p, m)
    <3>1. m.area \in Nat /\ m.seed \in Nat /\ m.key \in Keys /\ m.value \in Values
      BY <2>2, <2>4, Zenon DEF SetIsDone, Requests
    <3>2. \A refused \in BOOLEAN : [name |-> "DidSetItem", area |-> m.area, seed |-> m.seed, key |-> m.key,
                                    quotaError |-> refused] \in OwnReplies
      BY <3>1, Zenon DEF OwnReplies, Replies
    <3>3. Event(TRUE, m.key, m.value) \in OwnReplies
      BY <2>3, <3>1, Zenon
    <3>4. \E a \in OwnReplies : incoming'[p] = Append(incoming[p], a)
      BY <2>4, <3>2, Zenon DEF SetIsDone, IsDone
    <3>5. mainRunLoop'[p] = mainRunLoop[p] \/ \E e \in OwnReplies : mainRunLoop'[p] = Append(mainRunLoop[p], e)
      BY <2>4, <3>3, Zenon DEF SetIsDone, Reports
    <3> QED
      BY <3>4, <3>5, Zenon
  <2>5. CASE RemoveIsDone(p, m)
    <3>1. m.area \in Nat /\ m.seed \in Nat /\ m.key \in Keys
      BY <2>2, <2>5, Zenon DEF RemoveIsDone, Requests
    <3>2. [name |-> "DidRemoveItem", area |-> m.area, seed |-> m.seed, key |-> m.key] \in OwnReplies
      BY <3>1, Zenon DEF OwnReplies, Replies
    <3>3. Event(TRUE, m.key, Null) \in OwnReplies
      BY <2>3, <3>1, Zenon
    <3>4. \E a \in OwnReplies : incoming'[p] = Append(incoming[p], a)
      BY <2>5, <3>2, Zenon DEF RemoveIsDone, IsDone
    <3>5. mainRunLoop'[p] = mainRunLoop[p] \/ \E e \in OwnReplies : mainRunLoop'[p] = Append(mainRunLoop[p], e)
      BY <2>5, <3>3, Zenon DEF RemoveIsDone, Reports
    <3> QED
      BY <3>4, <3>5, Zenon
  <2>6. CASE ClearIsDone(p, m)
    <3>1. m.area \in Nat /\ m.seed \in Nat
      BY <2>2, <2>6, Zenon DEF ClearIsDone, Requests
    <3>2. [name |-> "DidClear", area |-> m.area, seed |-> m.seed] \in OwnReplies
      BY <3>1, Zenon DEF OwnReplies, Replies
    <3>3. Event(TRUE, AllKeys, Null) \in OwnReplies
      BY <2>3, Zenon
    <3>4. \E a \in OwnReplies : incoming'[p] = Append(incoming[p], a)
      BY <2>6, <3>2, Zenon DEF ClearIsDone, IsDone
    <3>5. mainRunLoop'[p] = mainRunLoop[p] \/ \E e \in OwnReplies : mainRunLoop'[p] = Append(mainRunLoop[p], e)
      BY <2>6, <3>3, Zenon DEF ClearIsDone, Reports
    <3> QED
      BY <3>4, <3>5, Zenon
  <2> QED
    BY <1>4, <2>4, <2>5, <2>6, Zenon DEF RequestIsDone
<1>5. ~SeesChange(p)
  BY Zenon DEF SeesChange
<1>6. CASE IsSentEvent(p)
  <2>1. /\ mainRunLoop[p] # <<>> /\ mainRunLoop'[p] = Tail(mainRunLoop[p])
        /\ incoming'[p] = Append(incoming[p], Head(mainRunLoop[p]))
    BY <1>6, Zenon DEF IsSentEvent
  <2> QED
    BY <1>1, <2>1, QueueGrows, QueueShrinks
<1>7. CASE SeesDeletion(p)
  <2>1. ClearCache \in OwnReplies
    BY Zenon DEF ClearCache, OwnReplies, Replies, Events, LinkInv, LinkTypeOK
  <2>2. incoming'[p] = incoming[p] /\ mainRunLoop'[p] = Append(mainRunLoop[p], ClearCache)
    BY <1>7, Zenon DEF SeesDeletion, Untouched
  <2> QED
    BY <1>1, <2>1, <2>2, QueueGrows
<1> QED
  BY <1>2, <1>3, <1>4, <1>5, <1>6, <1>7 DEF LocalStep

\* A reset that was on its way still is, or happens.
LEMMA ResetStays ==
    ASSUME LinkInv, NEW p \in Processes, Writers = {p}, WriterInv(p), Stays(p), LocalStep(p), ~ClearsCopy(p),
           map'[p] # Null
    PROVE  WillReset(p) => WillReset(p)'
<1>1. incoming[p] \in Seq(OwnReplies) /\ mainRunLoop[p] \in Seq(OwnReplies)
  BY Zenon DEF WriterInv
<1>2. CASE Rests(p) \/ LoadsCopy(p) \/ GetsCopy(p) \/ ChangesOneItem(p)
  BY <1>2, Zenon DEF Rests, LoadsCopy, GetsCopy, ChangesOneItem, ChangesCopy, Untouched, KeepsCopy, WillReset
<1>3. CASE Receives(p)
  <2> DEFINE m == Head(incoming[p])
  <2>1. incoming[p] # <<>> /\ incoming'[p] = Tail(incoming[p]) /\ mainRunLoop'[p] = mainRunLoop[p] /\ Handles(p, m)
    BY <1>3, Zenon DEF Receives
  <2>2. ~Resets(p, m)
    BY Zenon DEF Resets
  <2>3. currentSeed'[p] = currentSeed[p]
    BY <2>1, <2>2, Zenon DEF Handles, Ignores, SettlesItem, SettlesClear, Applies, KeepsCopy
  <2>4. m \notin Drops(currentSeed[p])
    <3>1. m.name # "ClearCache"
      BY <2>1, <2>2, Zenon DEF Handles, Ignores, SettlesItem, SettlesClear, Applies
    <3>2. ASSUME m.name = "DidSetItem", m.seed = currentSeed[p]
          PROVE  m.quotaError # TRUE
      BY <2>1, <2>2, <3>2, Zenon DEF Handles, Ignores, SettlesItem, SettlesClear, Applies
    <3> QED
      BY <3>1, <3>2, Zenon DEF Drops
  <2>5. Has(incoming[p], Drops(currentSeed[p])) => Has(incoming'[p], Drops(currentSeed[p]))
    BY <1>1, <2>1, <2>4, HasShrinks, Zenon
  <2> QED
    BY <2>1, <2>3, <2>5 DEF WillReset
<1>4. CASE RequestIsDone(p)
  <2>1. PICK a : incoming'[p] = Append(incoming[p], a) /\ currentSeed'[p] = currentSeed[p]
    BY <1>4, Zenon DEF RequestIsDone, SetIsDone, RemoveIsDone, ClearIsDone, IsDone, KeepsCopy
  <2>2. \/ mainRunLoop'[p] = mainRunLoop[p]
        \/ \E e : mainRunLoop'[p] = Append(mainRunLoop[p], e)
    BY <1>4, Zenon DEF RequestIsDone, SetIsDone, RemoveIsDone, ClearIsDone, Reports
  <2>3. Has(incoming[p], Drops(currentSeed[p])) => Has(incoming'[p], Drops(currentSeed[p]))
    BY <1>1, <2>1, HasGrows
  <2>4. Has(mainRunLoop[p], Drops(currentSeed[p])) => Has(mainRunLoop'[p], Drops(currentSeed[p]))
    <3>1. ASSUME NEW e, mainRunLoop'[p] = Append(mainRunLoop[p], e)
          PROVE  Has(mainRunLoop'[p], Drops(currentSeed[p])) <=>
                     Has(mainRunLoop[p], Drops(currentSeed[p])) \/ e \in Drops(currentSeed[p])
      BY <1>1, <3>1, HasGrows
    <3> QED
      BY <2>2, <3>1, Zenon
  <2> QED
    BY <2>1, <2>3, <2>4, Zenon DEF WillReset
<1>5. ~SeesChange(p)
  BY Zenon DEF SeesChange
<1>6. CASE IsSentEvent(p)
  <2>1. /\ mainRunLoop[p] # <<>> /\ mainRunLoop'[p] = Tail(mainRunLoop[p])
        /\ incoming'[p] = Append(incoming[p], Head(mainRunLoop[p])) /\ currentSeed'[p] = currentSeed[p]
    BY <1>6, Zenon DEF IsSentEvent, KeepsCopy
  <2>2. Has(mainRunLoop[p], Drops(currentSeed[p])) =>
            Head(mainRunLoop[p]) \in Drops(currentSeed[p]) \/ Has(mainRunLoop'[p], Drops(currentSeed[p]))
    BY <1>1, <2>1, HasShrinks, Zenon
  <2>3. Has(incoming'[p], Drops(currentSeed[p])) <=>
            Has(incoming[p], Drops(currentSeed[p])) \/ Head(mainRunLoop[p]) \in Drops(currentSeed[p])
    BY <1>1, <2>1, HasGrows
  <2> QED
    BY <2>1, <2>2, <2>3, Zenon DEF WillReset
<1>7. CASE SeesDeletion(p)
  <2>1. /\ incoming'[p] = incoming[p] /\ mainRunLoop'[p] = Append(mainRunLoop[p], ClearCache)
        /\ currentSeed'[p] = currentSeed[p]
    BY <1>7, Zenon DEF SeesDeletion, Untouched, KeepsCopy
  <2>2. Has(mainRunLoop[p], Drops(currentSeed[p])) => Has(mainRunLoop'[p], Drops(currentSeed[p]))
    BY <1>1, <2>1, HasGrows
  <2> QED
    BY <2>1, <2>2, Zenon DEF WillReset
<1> QED
  BY <1>2, <1>3, <1>4, <1>5, <1>6, <1>7 DEF LocalStep

\* Every step preserves WriterInv.
LEMMA WriterStays ==
    ASSUME LinkInv, NEW p \in Processes, Writers = {p}, WriterInv(p), Outcome(p)
    PROVE  WriterInv(p)'
<1>1. CASE Starts(p)'
  <2>1. ReaderInv(p)' /\ WriterInv(p)'
    BY <1>1, StartIsFine, PTL
  <2> QED
    BY <2>1, Zenon
<1>2. SUFFICES ASSUME Stays(p), LocalStep(p), map'[p] # Null, ~WillReset(p)'
               PROVE  RequestsLead(p)' /\ RefusalsResetOrPrecedeClear(p)'
  BY <1>1, WriterMessages, Zenon DEF Outcome, WriterInv
<1>3. CASE ClearsCopy(p)
  <2> DEFINE m == [name |-> "Clear", area |-> mapID[p], seed |-> currentSeed[p] + 1]
  <2>1. /\ requests'[p] = Append(requests[p], m) /\ m.name = "Clear" /\ items' = items /\ map'[p] = Empty
        /\ ValueOf(m) = Null
    BY <1>3, Zenon DEF ClearsCopy, ValueOf
  <2>2. map'[p] = [j \in Keys |-> IF Affects(m, j) THEN Null ELSE map[p][j]]
    BY <2>1, Zenon DEF Empty, Affects
  <2> HIDE DEF m
  <2> QED
    BY <2>1, <2>2, WriterChanges
<1>4. ASSUME ~ClearsCopy(p)
      PROVE  ~WillReset(p)
  BY <1>2, <1>4, ResetStays, Zenon
<1>5. ASSUME ~ClearsCopy(p), map[p] # Null
      PROVE  RequestsLead(p) /\ RefusalsResetOrPrecedeClear(p)
  BY <1>4, <1>5, Zenon DEF WriterInv
<1>6. CASE ~ClearsCopy(p) /\ map'[p] = map[p] /\ requests'[p] = requests[p] /\ items' = items
           /\ currentSeed'[p] = currentSeed[p]
  <2>1. RequestsLead(p) /\ RefusalsResetOrPrecedeClear(p)
    BY <1>2, <1>5, <1>6, Zenon
  <2> QED
    BY <1>6, <2>1 DEF RequestsLead, RefusalsResetOrPrecedeClear
<1>7. CASE Rests(p) \/ LoadsCopy(p) \/ IsSentEvent(p)
  <2>1. CASE ~ClearsCopy(p)
    BY <1>2, <1>6, <1>7, <2>1 DEF Rests, LoadsCopy, IsSentEvent, Untouched, KeepsCopy
  <2> QED
    BY <1>3, <2>1, Zenon
<1>8. CASE GetsCopy(p)
  <2>1. requests'[p] = Tail(requests[p]) /\ requests[p] # <<>> /\ Head(requests[p]).name = "GetValues"
        /\ map'[p] = items /\ items' = items
    BY <1>8, Zenon DEF GetsCopy
  <2>2. requests[p] \in Seq(Requests) /\ RequestsOf(p)
    BY <1>2, ProcessFacts, Zenon DEF Stays, Connected
  <2>3. /\ Head(requests[p]) = requests[p][1] /\ 1 \in 1..Len(requests[p])
        /\ Len(requests'[p]) = Len(requests[p]) - 1
    BY <2>1, <2>2, QueueShrinks
  <2>4. requests[p][1].name = "GetValues"
    BY <2>1, <2>3, Zenon
  <2>5. 1 = Len(requests[p])
    BY <2>2, <2>3, <2>4, Zenon DEF RequestsOf
  <2>6. 1..Len(requests'[p]) = {}
    <3>1. Len(requests'[p]) = 0
      BY <2>3, <2>5
    <3> QED
      BY <3>1
  <2>7. RequestsLead(p)'
    BY <2>1, <2>6 DEF RequestsLead, LastGives
  <2>8. RefusalsResetOrPrecedeClear(p)'
    BY <2>6, Zenon DEF RefusalsResetOrPrecedeClear
  <2> QED
    BY <2>7, <2>8, Zenon
<1>9. CASE ChangesOneItem(p) /\ ~ClearsCopy(p)
  <2>1. PICK k \in Keys, v \in Values \cup {Null}, m \in Requests :
            /\ ChangesCopy(p, k, v, m) /\ m.seed = currentSeed[p] /\ ValueOf(m) = v
            /\ m.name \in {"SetItem", "RemoveItem"} /\ m.key = k
    <3>1. \A k \in Keys, v \in Values :
              LET m == SetRequest(p, k, v) IN
              m \in Requests /\ m.seed = currentSeed[p] /\ ValueOf(m) = v /\ m.name = "SetItem" /\ m.key = k
      BY ProcessFacts DEF SetRequest, Requests, ValueOf
    <3>2. \A k \in Keys :
              LET m == RemoveRequest(p, k) IN
              m \in Requests /\ m.seed = currentSeed[p] /\ ValueOf(m) = Null /\ m.name = "RemoveItem" /\ m.key = k
      BY ProcessFacts, Zenon DEF RemoveRequest, Requests, ValueOf
    <3> QED
      BY <1>9, <3>1, <3>2 DEF ChangesOneItem
  <2>2. /\ requests'[p] = Append(requests[p], m) /\ map[p] # Null /\ map'[p] = [map[p] EXCEPT ![k] = v]
        /\ currentSeed'[p] = currentSeed[p] /\ items' = items
    BY <2>1, Zenon DEF ChangesCopy
  <2>3. \A j \in Keys : Affects(m, j) <=> j = k
    BY <2>1, Zenon DEF Affects
  <2>4. map'[p] = [j \in Keys |-> IF Affects(m, j) THEN v ELSE map[p][j]]
    BY <2>2, <2>3, ProcessFacts, Zenon DEF TypesOf, Maps
  <2> QED
    BY <1>5, <1>9, <2>1, <2>2, <2>4, WriterChanges
<1>10. CASE Receives(p) /\ ~ClearsCopy(p)
  <2> DEFINE m == Head(incoming[p])
  <2>1. incoming[p] # <<>> /\ incoming[p] \in Seq(OwnReplies) /\ Handles(p, m) /\ requests'[p] = requests[p] /\ items' = items
    BY <1>10, Zenon DEF Receives, WriterInv
  <2>2. m \in OwnReplies
    BY <2>1, QueueShrinks, Zenon
  <2>3. ~Applies(p, m)
    BY <2>2, Zenon DEF OwnReplies, Applies
  <2>4. ~Resets(p, m)
    BY <1>2, Zenon DEF Resets
  <2>5. map'[p] = map[p] /\ currentSeed'[p] = currentSeed[p]
    BY <2>1, <2>3, <2>4 DEF Handles, Ignores, SettlesItem, SettlesClear, KeepsCopy
  <2> QED
    BY <1>6, <1>10, <2>1, <2>5
<1>11. CASE RequestIsDone(p) /\ ~ClearsCopy(p)
  <2> DEFINE m == Head(requests[p])
  <2>1. /\ requests[p] # <<>> /\ requests'[p] = Tail(requests[p]) /\ KeepsCopy(p)
        /\ \/ \A k \in Keys : items'[k] = IF Affects(m, k) THEN ValueOf(m) ELSE items[k]
           \/ /\ m.name = "SetItem" /\ items' = items
              /\ \E e \in Drops(m.seed) : incoming'[p] = Append(incoming[p], e)
    BY <1>2, <1>11, ServedItems
  <2>2. RequestsLead(p) /\ RefusalsResetOrPrecedeClear(p)
    BY <1>2, <1>5, <1>11, <2>1 DEF KeepsCopy
  <2>3. ASSUME NEW e \in Drops(m.seed), incoming'[p] = Append(incoming[p], e)
        PROVE  m.seed # currentSeed[p]
    <3>1. Has(Append(incoming[p], e), Drops(m.seed))
      BY <2>3, HasGrows DEF WriterInv
    <3> QED
      BY <1>2, <2>1, <2>3, <3>1 DEF WillReset, KeepsCopy
  <2> QED
    BY <2>1, <2>2, <2>3, WriterIsServed, Zenon
<1>12. ~SeesChange(p)
  BY Zenon DEF SeesChange
<1>13. ~SeesDeletion(p)
  <2>1. SUFFICES ASSUME SeesDeletion(p)
                 PROVE  FALSE
    BY Zenon
  <2>2. ClearCache \in Drops(currentSeed[p])
    BY Zenon DEF ClearCache, Drops, Replies, Events, LinkInv, LinkTypeOK
  <2>3. Has(Append(mainRunLoop[p], ClearCache), Drops(currentSeed[p]))
    BY <2>2, HasGrows, Zenon DEF WriterInv
  <2> QED
    BY <1>2, <2>1, <2>3, Zenon DEF WillReset, SeesDeletion, Untouched, KeepsCopy
<1> QED
  BY <1>2, <1>3, <1>7, <1>8, <1>9, <1>10, <1>11, <1>12, <1>13 DEF LocalStep

\* When everything sent has arrived, nothing is left between a copy and the items.
LEMMA CopiesAgreeAtRest ==
    ASSUME LinkInv, CopiesInv
    PROVE  ReadersAgree
<1>1. SUFFICES ASSUME Quiescent, NEW p \in Processes, p \notin Writers \/ Writers = {p}, map[p] # Null
               PROVE  map[p] = items
  BY Zenon DEF ReadersAgree, Agrees
<1>2. requests[p] = <<>> /\ incoming[p] = <<>> /\ mainRunLoop[p] = <<>>
  BY <1>1, Zenon DEF Quiescent
<1>3. Len(requests[p]) = 0 /\ Len(incoming[p]) = 0 /\ Len(mainRunLoop[p]) = 0 /\ Unseen(p) = <<>>
  BY <1>2 DEF Unseen
<1>4. map[p] \in Maps /\ items \in Maps
  BY <1>1, ProcessFacts, Zenon DEF TypesOf, LinkInv, ItemsOK
<1>5. SUFFICES ASSUME NEW k \in Keys
               PROVE  map[p][k] = items[k]
  BY <1>4 DEF Maps
<1>6. CASE p \notin Writers
  <2>1. ReaderInv(p) /\ Len(Unseen(p)) = 0
    BY <1>3, <1>6, Zenon DEF CopiesInv
  <2> QED
    BY <1>1, <2>1 DEF ReaderInv, NoneAffects
<1>7. CASE Writers = {p}
  <2>1. WriterInv(p) /\ ~WillReset(p)
    BY <1>3, <1>7 DEF CopiesInv, WillReset, Has
  <2> QED
    BY <1>1, <1>3, <2>1 DEF WriterInv, RequestsLead, NoneAffects
<1> QED
  BY <1>1, <1>6, <1>7, Zenon

-----------------------------------------------------------------------------
(* The changes that wait for their acknowledgement *)

\* OwedFacts, for given queues.
LEMMA OwedChanges ==
    ASSUME OwedFacts, NEW r \in Seq(Requests), NEW in \in Seq(Replies), NEW A, NEW B
    PROVE  /\ Owed(r, in, A, B) \in Nat
           /\ \A m : Owed(Append(r, m), in, A, B) = Owed(r, in, A, B) + (IF m \in A THEN 1 ELSE 0)
           /\ \A m : Owed(r, Append(in, m), A, B) = Owed(r, in, A, B) + (IF m \in B THEN 1 ELSE 0)
           /\ r # <<>> => Owed(r, in, A, B) = Owed(Tail(r), in, A, B) + (IF Head(r) \in A THEN 1 ELSE 0)
           /\ in # <<>> => Owed(r, in, A, B) = Owed(r, Tail(in), A, B) + (IF Head(in) \in B THEN 1 ELSE 0)
<1>1. OwedRule(r, in, A, B)
  BY Zenon DEF OwedFacts
<1> QED
  BY <1>1, Zenon DEF OwedRule

\* One more item is pending when a request to change it is sent.
LEMMA AwaitsItem ==
    ASSUME OwedFacts, NEW r \in Seq(Requests), NEW in \in Seq(Replies), NEW c \in Nat, NEW pending \in [Keys -> Nat], NEW clear,
           ItemsAwaited(r, in, c, pending), ClearAwaited(r, in, c, clear),
           NEW k \in Keys, NEW m \in ItemRequests(c, k)
    PROVE  /\ ItemsAwaited(Append(r, m), in, c, [pending EXCEPT ![k] = pending[k] + 1])
           /\ ClearAwaited(Append(r, m), in, c, clear)
<1>1. m.name \in {"SetItem", "RemoveItem"} /\ m.seed = c /\ m.key = k /\ m \in Requests
  BY Zenon DEF ItemRequests
<1>2. \A j \in Keys, seed \in Nat : m \in ItemRequests(seed, j) <=> (seed = c /\ j = k)
  BY <1>1, Zenon DEF ItemRequests
<1>3. \A seed \in Nat : m \notin ClearRequests(seed)
  BY <1>1, Zenon DEF ClearRequests
<1>4. ItemsAwaited(Append(r, m), in, c, [pending EXCEPT ![k] = pending[k] + 1])
  <2>1. SUFFICES ASSUME NEW j \in Keys, NEW seed \in Nat, seed >= c
                 PROVE  Owed(Append(r, m), in, ItemRequests(seed, j), ItemReplies(seed, j))
                        = IF seed = c THEN [pending EXCEPT ![k] = pending[k] + 1][j] ELSE 0
    BY Zenon DEF ItemsAwaited
  <2>2. Owed(Append(r, m), in, ItemRequests(seed, j), ItemReplies(seed, j))
        = Owed(r, in, ItemRequests(seed, j), ItemReplies(seed, j)) + (IF seed = c /\ j = k THEN 1 ELSE 0)
    BY <1>2, OwedChanges
  <2>3. Owed(r, in, ItemRequests(seed, j), ItemReplies(seed, j)) = IF seed = c THEN pending[j] ELSE 0
    BY <2>1, Zenon DEF ItemsAwaited
  <2> QED
    BY <2>2, <2>3
<1>5. ClearAwaited(Append(r, m), in, c, clear)
  <2>1. ASSUME NEW seed \in Nat
        PROVE  Owed(Append(r, m), in, ClearRequests(seed), ClearReplies(seed))
               = Owed(r, in, ClearRequests(seed), ClearReplies(seed))
    <3>1. Owed(r, in, ClearRequests(seed), ClearReplies(seed)) \in Nat
      BY OwedChanges
    <3>2. Owed(Append(r, m), in, ClearRequests(seed), ClearReplies(seed))
          = Owed(r, in, ClearRequests(seed), ClearReplies(seed)) + 0
      BY <1>3, OwedChanges
    <3> QED
      BY <3>1, <3>2
  <2> QED
    BY <2>1, Zenon DEF ClearAwaited
<1> QED
  BY <1>4, <1>5, Zenon

\* A clear starts over with the next seed.
LEMMA AwaitsClear ==
    ASSUME OwedFacts, NEW r \in Seq(Requests), NEW in \in Seq(Replies), NEW c \in Nat, NEW pending, NEW clear,
           ItemsAwaited(r, in, c, pending), ClearAwaited(r, in, c, clear),
           NEW m \in ClearRequests(c + 1)
    PROVE  /\ ItemsAwaited(Append(r, m), in, c + 1, NonePending)
           /\ ClearAwaited(Append(r, m), in, c + 1, TRUE)
<1>1. m.name = "Clear" /\ m.seed = c + 1 /\ m \in Requests
  BY Zenon DEF ClearRequests
<1>2. \A j \in Keys, seed \in Nat : m \notin ItemRequests(seed, j)
  BY <1>1, Zenon DEF ItemRequests
<1>3. \A seed \in Nat : m \in ClearRequests(seed) <=> seed = c + 1
  BY <1>1, Zenon DEF ClearRequests
<1>4. ItemsAwaited(Append(r, m), in, c + 1, NonePending)
  <2>1. SUFFICES ASSUME NEW j \in Keys, NEW seed \in Nat, seed >= c + 1
                 PROVE  Owed(Append(r, m), in, ItemRequests(seed, j), ItemReplies(seed, j)) = 0
    BY Zenon DEF ItemsAwaited, NonePending
  <2>2. Owed(Append(r, m), in, ItemRequests(seed, j), ItemReplies(seed, j))
        = Owed(r, in, ItemRequests(seed, j), ItemReplies(seed, j)) + 0
    BY <1>2, OwedChanges
  <2>3. seed >= c /\ seed # c
    BY <2>1
  <2>4. Owed(r, in, ItemRequests(seed, j), ItemReplies(seed, j)) = 0
    BY <2>3, Zenon DEF ItemsAwaited
  <2> QED
    BY <2>2, <2>4
<1>5. ClearAwaited(Append(r, m), in, c + 1, TRUE)
  <2>1. SUFFICES ASSUME NEW seed \in Nat, seed >= c + 1
                 PROVE  Owed(Append(r, m), in, ClearRequests(seed), ClearReplies(seed)) = IF seed = c + 1 THEN 1 ELSE 0
    BY Zenon DEF ClearAwaited
  <2>2. Owed(Append(r, m), in, ClearRequests(seed), ClearReplies(seed))
        = Owed(r, in, ClearRequests(seed), ClearReplies(seed)) + (IF seed = c + 1 THEN 1 ELSE 0)
    BY <1>3, OwedChanges
  <2>3. seed >= c /\ seed # c
    BY <2>1
  <2>4. Owed(r, in, ClearRequests(seed), ClearReplies(seed)) = 0
    BY <2>3, Zenon DEF ClearAwaited
  <2> QED
    BY <2>2, <2>4
<1> QED
  BY <1>4, <1>5, Zenon

\* Nothing else that is sent or taken is awaited.
LEMMA AwaitsNothing ==
    ASSUME NEW r \in Seq(Requests), NEW in \in Seq(Replies), NEW c \in Nat, NEW pending, NEW clear,
           ItemsAwaited(r, in, c, pending), ClearAwaited(r, in, c, clear), NEW r2, NEW in2,
           \A A, B : (\A m \in A : m.name \in {"SetItem", "RemoveItem", "Clear"})
                     /\ (\A m \in B : m.name \in {"DidSetItem", "DidRemoveItem", "DidClear"})
                     => Owed(r2, in2, A, B) = Owed(r, in, A, B)
    PROVE  ItemsAwaited(r2, in2, c, pending) /\ ClearAwaited(r2, in2, c, clear)
<1>1. ASSUME NEW seed
      PROVE  Owed(r2, in2, ClearRequests(seed), ClearReplies(seed))
             = Owed(r, in, ClearRequests(seed), ClearReplies(seed))
  <2>1. /\ \A m \in ClearRequests(seed) : m.name \in {"SetItem", "RemoveItem", "Clear"}
        /\ \A m \in ClearReplies(seed) : m.name \in {"DidSetItem", "DidRemoveItem", "DidClear"}
    BY Zenon DEF ClearRequests, ClearReplies
  <2> QED
    BY <2>1, Zenon
<1>2. ASSUME NEW seed, NEW k
      PROVE  Owed(r2, in2, ItemRequests(seed, k), ItemReplies(seed, k))
             = Owed(r, in, ItemRequests(seed, k), ItemReplies(seed, k))
  <2>1. /\ \A m \in ItemRequests(seed, k) : m.name \in {"SetItem", "RemoveItem", "Clear"}
        /\ \A m \in ItemReplies(seed, k) : m.name \in {"DidSetItem", "DidRemoveItem", "DidClear"}
    BY Zenon DEF ItemRequests, ItemReplies
  <2> QED
    BY <2>1, Zenon
<1> QED
  BY <1>1, <1>2 DEF ItemsAwaited, ClearAwaited

\* A request that is answered is awaited as an acknowledgement.
LEMMA AwaitsAnswer ==
    ASSUME OwedFacts, NEW r \in Seq(Requests), NEW in \in Seq(Replies), NEW c \in Nat, NEW pending, NEW clear,
           ItemsAwaited(r, in, c, pending), ClearAwaited(r, in, c, clear), r # <<>>, NEW answer,
           \A seed \in Nat : /\ \A k \in Keys : Head(r) \in ItemRequests(seed, k) <=> answer \in ItemReplies(seed, k)
                             /\ Head(r) \in ClearRequests(seed) <=> answer \in ClearReplies(seed)
    PROVE  ItemsAwaited(Tail(r), Append(in, answer), c, pending) /\ ClearAwaited(Tail(r), Append(in, answer), c, clear)
<1>1. ASSUME NEW A, NEW B, Head(r) \in A <=> answer \in B
      PROVE  Owed(Tail(r), Append(in, answer), A, B) = Owed(r, in, A, B)
  <2> DEFINE t == Tail(r)
  <2>1. t \in Seq(Requests)
    BY QueueShrinks, Zenon
  <2>2. Owed(r, in, A, B) = Owed(t, in, A, B) + (IF Head(r) \in A THEN 1 ELSE 0)
    BY OwedChanges
  <2> HIDE DEF t
  <2>3. /\ Owed(t, in, A, B) \in Nat
        /\ Owed(t, Append(in, answer), A, B) = Owed(t, in, A, B) + (IF answer \in B THEN 1 ELSE 0)
    BY <2>1, OwedChanges
  <2>4. Owed(t, Append(in, answer), A, B) = Owed(r, in, A, B)
    BY <1>1, <2>2, <2>3
  <2> QED
    BY <2>4, Zenon DEF t
<1>2. ItemsAwaited(Tail(r), Append(in, answer), c, pending)
  BY <1>1 DEF ItemsAwaited
<1>3. ClearAwaited(Tail(r), Append(in, answer), c, clear)
  BY <1>1, Zenon DEF ClearAwaited
<1> QED
  BY <1>2, <1>3, Zenon

\* A message that is handled is awaited no more: an acknowledgement with another
\* seed was not, one with the current seed was, and a reset starts over.
LEMMA AwaitsLess ==
    ASSUME OwedFacts, NEW r \in Seq(Requests), NEW in \in Seq(Replies), NEW c \in Nat, NEW pending \in [Keys -> Nat], NEW clear,
           ItemsAwaited(r, in, c, pending), ClearAwaited(r, in, c, clear), in # <<>>
    PROVE  LET m == Head(in) IN
           /\ ItemsAwaited(r, Tail(in), c + 1, NonePending) /\ ClearAwaited(r, Tail(in), c + 1, FALSE)
           /\ (\A k \in Keys : m \notin ItemReplies(c, k)) => ItemsAwaited(r, Tail(in), c, pending)
           /\ m \notin ClearReplies(c) => ClearAwaited(r, Tail(in), c, clear)
           /\ \A k \in Keys : m \in ItemReplies(c, k) =>
                  ItemsAwaited(r, Tail(in), c, [pending EXCEPT ![k] = IF pending[k] = 0 THEN 0 ELSE pending[k] - 1])
           /\ m \in ClearReplies(c) => ClearAwaited(r, Tail(in), c, FALSE)
<1> DEFINE m == Head(in)
<1>1. ASSUME NEW A, NEW B
      PROVE  /\ Owed(r, Tail(in), A, B) \in Nat
             /\ Owed(r, in, A, B) = Owed(r, Tail(in), A, B) + (IF m \in B THEN 1 ELSE 0)
  <2> DEFINE t == Tail(in)
  <2>1. t \in Seq(Replies)
    BY QueueShrinks, Zenon
  <2>2. Owed(r, in, A, B) = Owed(r, t, A, B) + (IF m \in B THEN 1 ELSE 0)
    BY OwedChanges
  <2> HIDE DEF t
  <2>3. Owed(r, t, A, B) \in Nat
    BY <2>1, OwedChanges
  <2> QED
    BY <2>2, <2>3, Zenon DEF t
<1> HIDE DEF m
<1>2. ASSUME NEW seed \in Nat, seed > c
      PROVE  /\ \A k \in Keys : Owed(r, Tail(in), ItemRequests(seed, k), ItemReplies(seed, k)) = 0
             /\ Owed(r, Tail(in), ClearRequests(seed), ClearReplies(seed)) = 0
  <2>1. seed >= c /\ seed # c
    BY <1>2
  <2>2. ASSUME NEW A, NEW B, Owed(r, in, A, B) = 0
        PROVE  Owed(r, Tail(in), A, B) = 0
    BY <1>1, <2>2
  <2>3. \A k \in Keys : Owed(r, in, ItemRequests(seed, k), ItemReplies(seed, k)) = 0
    BY <2>1, Zenon DEF ItemsAwaited
  <2>4. Owed(r, in, ClearRequests(seed), ClearReplies(seed)) = 0
    BY <2>1, Zenon DEF ClearAwaited
  <2> QED
    BY <2>2, <2>3, <2>4
<1>3. /\ \A k \in Keys : Owed(r, in, ItemRequests(c, k), ItemReplies(c, k)) = pending[k]
      /\ Owed(r, in, ClearRequests(c), ClearReplies(c)) = IF clear = TRUE THEN 1 ELSE 0
  BY DEF ItemsAwaited, ClearAwaited
<1>4. ItemsAwaited(r, Tail(in), c + 1, NonePending) /\ ClearAwaited(r, Tail(in), c + 1, FALSE)
  <2>1. \A seed \in Nat : seed >= c + 1 => seed > c
    OBVIOUS
  <2> QED
    BY <1>2, <2>1, Zenon DEF ItemsAwaited, ClearAwaited, NonePending
<1>5. \A seed \in Nat : seed >= c => seed = c \/ seed > c
  OBVIOUS
<1>6. ASSUME \A k \in Keys : m \notin ItemReplies(c, k)
      PROVE  ItemsAwaited(r, Tail(in), c, pending)
  <2>1. \A k \in Keys : Owed(r, Tail(in), ItemRequests(c, k), ItemReplies(c, k)) = pending[k]
    BY <1>1, <1>3, <1>6
  <2> QED
    BY <1>2, <1>5, <2>1 DEF ItemsAwaited
<1>7. ASSUME m \notin ClearReplies(c)
      PROVE  ClearAwaited(r, Tail(in), c, clear)
  <2>1. Owed(r, Tail(in), ClearRequests(c), ClearReplies(c)) = IF clear = TRUE THEN 1 ELSE 0
    BY <1>1, <1>3, <1>7
  <2> QED
    BY <1>2, <1>5, <2>1, Zenon DEF ClearAwaited
<1>8. ASSUME NEW k \in Keys, m \in ItemReplies(c, k)
      PROVE  ItemsAwaited(r, Tail(in), c, [pending EXCEPT ![k] = IF pending[k] = 0 THEN 0 ELSE pending[k] - 1])
  <2>1. \A j \in Keys : m \in ItemReplies(c, j) <=> j = k
    BY <1>8, Zenon DEF ItemReplies
  <2>2. ASSUME NEW j \in Keys
        PROVE  Owed(r, Tail(in), ItemRequests(c, j), ItemReplies(c, j))
               = [pending EXCEPT ![k] = IF pending[k] = 0 THEN 0 ELSE pending[k] - 1][j]
    <3>1. /\ Owed(r, Tail(in), ItemRequests(c, j), ItemReplies(c, j)) \in Nat
          /\ pending[j] = Owed(r, Tail(in), ItemRequests(c, j), ItemReplies(c, j)) + (IF j = k THEN 1 ELSE 0)
      BY <1>1, <1>3, <2>1, Zenon
    <3>2. CASE j = k
      BY <3>1, <3>2
    <3>3. CASE j # k
      BY <3>1, <3>3
    <3> QED
      BY <3>2, <3>3, Zenon
  <2> QED
    BY <1>2, <1>5, <2>2, Zenon DEF ItemsAwaited
<1>9. ASSUME m \in ClearReplies(c)
      PROVE  ClearAwaited(r, Tail(in), c, FALSE)
  <2>1. /\ Owed(r, Tail(in), ClearRequests(c), ClearReplies(c)) \in Nat
        /\ Owed(r, in, ClearRequests(c), ClearReplies(c))
           = Owed(r, Tail(in), ClearRequests(c), ClearReplies(c)) + 1
    BY <1>1, <1>9, Zenon
  <2>2. Owed(r, in, ClearRequests(c), ClearReplies(c)) \in {0, 1}
    BY <1>3, Zenon
  <2>3. Owed(r, Tail(in), ClearRequests(c), ClearReplies(c)) = 0
    BY <2>1, <2>2
  <2> QED
    BY <1>2, <1>5, <2>3, Zenon DEF ClearAwaited
<1> QED
  BY <1>4, <1>6, <1>7, <1>8, <1>9, ZenonT(30) DEF m

\* Every step preserves AwaitInv.
LEMMA AwaitStays ==
    ASSUME OwedFacts, LinkInv, NEW p \in Processes, AwaitInv(p), Stays(p), LocalStep(p)
    PROVE  AwaitInv(p)'
<1> DEFINE r == requests[p]
           in == incoming[p]
           c == currentSeed[p]
           pending == pendingValueChanges[p]
           clear == hasPendingClear[p]
<1>3. /\ r \in Seq(Requests) /\ in \in Seq(Replies) /\ c \in Nat /\ pending \in [Keys -> Nat] /\ clear \in BOOLEAN
      /\ mainRunLoop[p] \in Seq(Events) /\ mapID[p] \in Nat
  BY ProcessFacts, Zenon DEF TypesOf
<1>4. ItemsAwaited(r, in, c, pending) /\ ClearAwaited(r, in, c, clear)
  BY Zenon DEF AwaitInv
<1>5. SUFFICES /\ ItemsAwaited(requests'[p], incoming'[p], currentSeed'[p], pendingValueChanges'[p])
               /\ ClearAwaited(requests'[p], incoming'[p], currentSeed'[p], hasPendingClear'[p])
  BY Zenon DEF AwaitInv
<1>6. CASE Rests(p) \/ SeesChange(p) \/ SeesDeletion(p)
  BY <1>4, <1>6, Zenon DEF Rests, SeesChange, SeesDeletion, Untouched, KeepsCopy
<1> DEFINE Still == currentSeed'[p] = c /\ pendingValueChanges'[p] = pending /\ hasPendingClear'[p] = clear
<1>7. ASSUME Still,
             \A A, B : (\A m \in A : m.name \in {"SetItem", "RemoveItem", "Clear"})
                       /\ (\A m \in B : m.name \in {"DidSetItem", "DidRemoveItem", "DidClear"})
                       => Owed(requests'[p], incoming'[p], A, B) = Owed(r, in, A, B)
      PROVE  /\ ItemsAwaited(requests'[p], incoming'[p], currentSeed'[p], pendingValueChanges'[p])
             /\ ClearAwaited(requests'[p], incoming'[p], currentSeed'[p], hasPendingClear'[p])
  <2>1. ItemsAwaited(requests'[p], incoming'[p], c, pending) /\ ClearAwaited(requests'[p], incoming'[p], c, clear)
    BY <1>3, <1>4, <1>7, AwaitsNothing
  <2> QED
    BY <1>7, <2>1, Zenon
<1>8. CASE LoadsCopy(p)
  <2> DEFINE m == [name |-> "GetValues", area |-> mapID[p]]
  <2>1. requests'[p] = Append(r, m) /\ incoming'[p] = in /\ Still
    BY <1>8, Zenon DEF LoadsCopy, KeepsCopy
  <2>2. m.name = "GetValues"
    BY Zenon
  <2> HIDE DEF m, Still
  <2>3. ASSUME NEW A, NEW B, \A x \in A : x.name \in {"SetItem", "RemoveItem", "Clear"}
        PROVE  Owed(Append(r, m), in, A, B) = Owed(r, in, A, B)
    <3>1. m \notin A
      BY <2>2, <2>3, Zenon
    <3>2. Owed(Append(r, m), in, A, B) = Owed(r, in, A, B) + 0 /\ Owed(r, in, A, B) \in Nat
      BY <1>3, <3>1, OwedChanges
    <3> QED
      BY <3>2
  <2> QED
    BY <1>7, <2>1, <2>3, Zenon
<1>9. CASE GetsCopy(p)
  <2>1. r # <<>> /\ requests'[p] = Tail(r) /\ incoming'[p] = in /\ Head(r).name = "GetValues" /\ Still
    BY <1>9, Zenon DEF GetsCopy
  <2>2. requests'[p] \in Seq(Requests)
    BY <1>3, <2>1, QueueShrinks
  <2> HIDE DEF Still
  <2>3. ASSUME NEW A, NEW B, \A x \in A : x.name \in {"SetItem", "RemoveItem", "Clear"}
        PROVE  Owed(requests'[p], in, A, B) = Owed(r, in, A, B)
    <3>1. Head(r) \notin A
      BY <2>1, <2>3, Zenon
    <3>2. Owed(r, in, A, B) = Owed(requests'[p], in, A, B) + 0
      BY <1>3, <2>1, <3>1, OwedChanges
    <3>3. Owed(requests'[p], in, A, B) \in Nat
      BY <1>3, <2>2, OwedChanges
    <3> QED
      BY <3>2, <3>3
  <2> QED
    BY <1>7, <2>1, <2>3
<1>10. CASE IsSentEvent(p)
  <2> DEFINE e == Head(mainRunLoop[p])
  <2>1. mainRunLoop[p] # <<>> /\ requests'[p] = r /\ incoming'[p] = Append(in, e) /\ Still
    BY <1>10, Zenon DEF IsSentEvent, KeepsCopy
  <2>2. e \in Events
    BY <1>3, <2>1, QueueShrinks
  <2>3. e.name \in {"DispatchStorageEvent", "ClearCache"}
    BY <2>2, Zenon DEF Events
  <2> HIDE DEF e, Still
  <2>4. ASSUME NEW A, NEW B, \A x \in B : x.name \in {"DidSetItem", "DidRemoveItem", "DidClear"}
        PROVE  Owed(r, Append(in, e), A, B) = Owed(r, in, A, B)
    <3>1. e \notin B
      BY <2>3, <2>4, Zenon
    <3>2. Owed(r, Append(in, e), A, B) = Owed(r, in, A, B) + 0 /\ Owed(r, in, A, B) \in Nat
      BY <1>3, <3>1, OwedChanges
    <3> QED
      BY <3>2
  <2> QED
    BY <1>7, <2>1, <2>4
<1>11. CASE ChangesOneItem(p)
  <2>1. PICK k \in Keys, m \in Requests : m \in ItemRequests(c, k) /\ \E v : ChangesCopy(p, k, v, m)
    <3>1. \A k \in Keys, v \in Values :
              SetRequest(p, k, v) \in ItemRequests(c, k) /\ SetRequest(p, k, v) \in Requests
      BY <1>3, Zenon DEF SetRequest, ItemRequests, Requests
    <3>2. \A k \in Keys :
              RemoveRequest(p, k) \in ItemRequests(c, k) /\ RemoveRequest(p, k) \in Requests
      BY <1>3, Zenon DEF RemoveRequest, ItemRequests, Requests
    <3> QED
      BY <1>11, <3>1, <3>2 DEF ChangesOneItem
  <2>2. /\ requests'[p] = Append(r, m) /\ incoming'[p] = in /\ currentSeed'[p] = c /\ hasPendingClear'[p] = clear
        /\ pendingValueChanges'[p] = [pending EXCEPT ![k] = pending[k] + 1]
    BY <2>1, Zenon DEF ChangesCopy
  <2>3. /\ ItemsAwaited(Append(r, m), in, c, [pending EXCEPT ![k] = pending[k] + 1])
        /\ ClearAwaited(Append(r, m), in, c, clear)
    BY <1>3, <1>4, <2>1, AwaitsItem, Zenon
  <2> QED
    BY <2>2, <2>3, Zenon
<1>12. CASE ClearsCopy(p)
  <2> DEFINE m == [name |-> "Clear", area |-> mapID[p], seed |-> currentSeed[p] + 1]
  <2>1. /\ requests'[p] = Append(r, m) /\ incoming'[p] = in /\ currentSeed'[p] = c + 1
        /\ hasPendingClear'[p] = TRUE /\ pendingValueChanges'[p] = NonePending
    BY <1>12, Zenon DEF ClearsCopy
  <2>2. m \in ClearRequests(c + 1)
    BY <1>3 DEF ClearRequests, Requests
  <2> HIDE DEF m
  <2>3. ItemsAwaited(Append(r, m), in, c + 1, NonePending) /\ ClearAwaited(Append(r, m), in, c + 1, TRUE)
    BY <1>3, <1>4, <2>2, AwaitsClear, Zenon
  <2> QED
    BY <2>1, <2>3, Zenon
<1>13. CASE Receives(p)
  <2> DEFINE m == Head(in)
  <2>1. in # <<>> /\ incoming'[p] = Tail(in) /\ requests'[p] = r /\ Handles(p, m)
    BY <1>13, Zenon DEF Receives
  <2>2. m \in Replies
    BY <1>3, <2>1, QueueShrinks
  <2>3. /\ ItemsAwaited(r, Tail(in), c + 1, NonePending) /\ ClearAwaited(r, Tail(in), c + 1, FALSE)
        /\ (\A k \in Keys : m \notin ItemReplies(c, k)) => ItemsAwaited(r, Tail(in), c, pending)
        /\ m \notin ClearReplies(c) => ClearAwaited(r, Tail(in), c, clear)
        /\ \A k \in Keys : m \in ItemReplies(c, k) =>
               ItemsAwaited(r, Tail(in), c, [pending EXCEPT ![k] = IF pending[k] = 0 THEN 0 ELSE pending[k] - 1])
        /\ m \in ClearReplies(c) => ClearAwaited(r, Tail(in), c, FALSE)
    BY <1>3, <1>4, <2>1, AwaitsLess, Zenon
  <2>4. CASE Resets(p, m)
    <3>1. currentSeed'[p] = c + 1 /\ hasPendingClear'[p] = FALSE /\ pendingValueChanges'[p] = NonePending
      BY <2>4, Zenon DEF Resets
    <3> QED
      BY <2>1, <2>3, <3>1, Zenon
  <2>5. CASE Ignores(p, m) \/ Applies(p, m)
    <3>1. Still
      BY <2>5, Zenon DEF Ignores, Applies, KeepsCopy
    <3>2. /\ \A k \in Keys : m \notin ItemReplies(c, k)
          /\ m \notin ClearReplies(c)
      BY <2>5, Zenon DEF Ignores, Applies, ItemReplies, ClearReplies
    <3> QED
      BY <2>1, <2>3, <3>1, <3>2
  <2>6. CASE SettlesItem(p, m)
    <3>1. m.name \in {"DidSetItem", "DidRemoveItem"} /\ m.seed = c
      BY <2>6, Zenon DEF SettlesItem
    <3>2. m.key \in Keys
      BY <2>2, <3>1, Zenon DEF Replies, Events
    <3>3. m \in ItemReplies(c, m.key) /\ m \notin ClearReplies(c)
      BY <2>2, <3>1, Zenon DEF ItemReplies, ClearReplies
    <3>4. /\ currentSeed'[p] = c /\ hasPendingClear'[p] = clear
          /\ pendingValueChanges'[p] =
                 [pending EXCEPT ![m.key] = IF pending[m.key] = 0 THEN 0 ELSE pending[m.key] - 1]
      BY <2>6, Zenon DEF SettlesItem
    <3> QED
      BY <2>1, <2>3, <3>2, <3>3, <3>4, Zenon
  <2>7. CASE SettlesClear(p, m)
    <3>1. m.name = "DidClear" /\ m.seed = c
      BY <2>7, Zenon DEF SettlesClear
    <3>2. m \in ClearReplies(c) /\ \A k \in Keys : m \notin ItemReplies(c, k)
      BY <2>2, <3>1, Zenon DEF ItemReplies, ClearReplies
    <3>3. currentSeed'[p] = c /\ hasPendingClear'[p] = FALSE /\ pendingValueChanges'[p] = pending
      BY <2>7, Zenon DEF SettlesClear
    <3> QED
      BY <2>1, <2>3, <3>2, <3>3, Zenon
  <2> QED
    BY <2>1, <2>4, <2>5, <2>6, <2>7 DEF Handles
<1>14. CASE RequestIsDone(p)
  <2> DEFINE m == Head(r)
  <2>1. r # <<>> /\ requests'[p] = Tail(r) /\ Still
    BY <1>14, Zenon DEF RequestIsDone, SetIsDone, RemoveIsDone, ClearIsDone, IsDone, KeepsCopy
  <2>2. m \in Requests
    BY <1>3, <2>1, QueueShrinks, Zenon
  <2>3. PICK answer \in Replies :
            /\ incoming'[p] = Append(in, answer)
            /\ \A seed \in Nat : /\ \A k \in Keys : m \in ItemRequests(seed, k) <=> answer \in ItemReplies(seed, k)
                                 /\ m \in ClearRequests(seed) <=> answer \in ClearReplies(seed)
    <3>1. CASE SetIsDone(p, m)
      <4>1. m.area \in Nat /\ m.seed \in Nat /\ m.key \in Keys /\ m.name = "SetItem"
        BY <2>2, <3>1, Zenon DEF SetIsDone, Requests
      <4>2. PICK refused \in BOOLEAN :
                incoming'[p] = Append(in, [name |-> "DidSetItem", area |-> m.area, seed |-> m.seed, key |-> m.key,
                                           quotaError |-> refused])
        BY <3>1, Zenon DEF SetIsDone, IsDone
      <4> DEFINE answer == [name |-> "DidSetItem", area |-> m.area, seed |-> m.seed, key |-> m.key,
                            quotaError |-> refused]
      <4>3. answer \in Replies
        BY <4>1, Zenon DEF Replies
      <4>4. answer.name = "DidSetItem" /\ answer.seed = m.seed /\ answer.key = m.key
        BY Zenon
      <4> HIDE DEF answer
      <4>5. \A seed \in Nat : /\ \A k \in Keys : m \in ItemRequests(seed, k) <=> answer \in ItemReplies(seed, k)
                              /\ m \in ClearRequests(seed) <=> answer \in ClearReplies(seed)
        BY <2>2, <4>1, <4>3, <4>4 DEF ItemRequests, ItemReplies, ClearRequests, ClearReplies
      <4> QED
        BY <4>2, <4>3, <4>5, Zenon DEF answer
    <3>2. CASE RemoveIsDone(p, m)
      <4> DEFINE answer == [name |-> "DidRemoveItem", area |-> m.area, seed |-> m.seed, key |-> m.key]
      <4>1. m.area \in Nat /\ m.seed \in Nat /\ m.key \in Keys /\ m.name = "RemoveItem"
        BY <2>2, <3>2, Zenon DEF RemoveIsDone, Requests
      <4>2. incoming'[p] = Append(in, answer)
        BY <3>2, Zenon DEF RemoveIsDone, IsDone
      <4>3. answer \in Replies
        BY <4>1, Zenon DEF Replies
      <4>4. answer.name = "DidRemoveItem" /\ answer.seed = m.seed /\ answer.key = m.key
        BY Zenon
      <4> HIDE DEF answer
      <4>5. \A seed \in Nat : /\ \A k \in Keys : m \in ItemRequests(seed, k) <=> answer \in ItemReplies(seed, k)
                              /\ m \in ClearRequests(seed) <=> answer \in ClearReplies(seed)
        BY <2>2, <4>1, <4>3, <4>4 DEF ItemRequests, ItemReplies, ClearRequests, ClearReplies
      <4> QED
        BY <4>2, <4>3, <4>5, Zenon
    <3>3. CASE ClearIsDone(p, m)
      <4> DEFINE answer == [name |-> "DidClear", area |-> m.area, seed |-> m.seed]
      <4>1. m.area \in Nat /\ m.seed \in Nat /\ m.name = "Clear"
        BY <2>2, <3>3, Zenon DEF ClearIsDone, Requests
      <4>2. incoming'[p] = Append(in, answer)
        BY <3>3, Zenon DEF ClearIsDone, IsDone
      <4>3. answer \in Replies
        BY <4>1, Zenon DEF Replies
      <4>4. answer.name = "DidClear" /\ answer.seed = m.seed
        BY Zenon
      <4> HIDE DEF answer
      <4>5. \A seed \in Nat : /\ \A k \in Keys : m \in ItemRequests(seed, k) <=> answer \in ItemReplies(seed, k)
                              /\ m \in ClearRequests(seed) <=> answer \in ClearReplies(seed)
        BY <2>2, <4>1, <4>3, <4>4, Zenon DEF ItemRequests, ItemReplies, ClearRequests, ClearReplies
      <4> QED
        BY <4>2, <4>3, <4>5, Zenon
    <3> QED
      BY <1>14, <3>1, <3>2, <3>3 DEF RequestIsDone
  <2>4. ItemsAwaited(Tail(r), Append(in, answer), c, pending) /\ ClearAwaited(Tail(r), Append(in, answer), c, clear)
    BY <1>3, <1>4, <2>1, <2>3, AwaitsAnswer, Zenon
  <2> QED
    BY <2>1, <2>3, <2>4, Zenon
<1> QED
  BY <1>6, <1>8, <1>9, <1>10, <1>11, <1>12, <1>13, <1>14 DEF LocalStep

\* The messages the property counts are those of the invariant.
LEMMA UnderWayIsOwed ==
    ASSUME LinkInv, NEW p \in Processes
    PROVE  /\ LET m == UnderWay(p, {"SetItem", "RemoveItem", "DidSetItem", "DidRemoveItem"}) IN
              \A k \in Keys :
                  /\ {i \in m.sent : requests[p][i].key = k} = Places(requests[p], ItemRequests(currentSeed[p], k))
                  /\ {i \in m.acknowledged : incoming[p][i].key = k}
                     = Places(incoming[p], ItemReplies(currentSeed[p], k))
           /\ LET m == UnderWay(p, {"Clear", "DidClear"}) IN
              /\ m.sent = Places(requests[p], ClearRequests(currentSeed[p]))
              /\ m.acknowledged = Places(incoming[p], ClearReplies(currentSeed[p]))
<1> DEFINE r == requests[p]
           in == incoming[p]
           c == currentSeed[p]
<1>1. r \in Seq(Requests) /\ in \in Seq(Replies)
  BY ProcessFacts, Zenon DEF TypesOf
<1>2. /\ DOMAIN r = 1..Len(r) /\ DOMAIN in = 1..Len(in)
      /\ \A i \in DOMAIN r : r[i] \in Requests
      /\ \A i \in DOMAIN in : in[i] \in Replies
  BY <1>1
<1>3. /\ \A i \in DOMAIN r : r[i].name \in {"SetItem", "RemoveItem", "Clear"} => r[i].area = mapID[p]
      /\ \A i \in DOMAIN in : in[i].area = mapID[p]
  <2>1. CASE mapID[p] = 0
    <3>1. in = <<>> /\ (r = <<>> \/ r = <<[name |-> "Connect"]>>)
      BY <2>1, ProcessFacts, Zenon DEF Unconnected, NoCopy
    <3> QED
      BY <3>1
  <2>2. CASE mapID[p] # 0
    BY <1>2, <2>2, ProcessFacts DEF Connected, RequestsOf, RepliesTo
  <2> QED
    BY <2>1, <2>2, Zenon
<1>4. /\ \A m \in Requests : m.name \notin {"DidSetItem", "DidRemoveItem", "DidClear"}
      /\ \A m \in Replies : m.name \notin {"SetItem", "RemoveItem", "Clear"}
  BY Zenon DEF Requests, Replies, Events
<1> HIDE DEF r, in
<1>5. ASSUME NEW k \in Keys
      PROVE  /\ {i \in {i \in DOMAIN r : /\ r[i].name \in {"SetItem", "RemoveItem", "DidSetItem", "DidRemoveItem"}
                                         /\ r[i].area = mapID[p] /\ r[i].seed = c} : r[i].key = k}
                = Places(r, ItemRequests(c, k))
             /\ {i \in {i \in DOMAIN in : /\ in[i].name \in {"SetItem", "RemoveItem", "DidSetItem", "DidRemoveItem"}
                                          /\ in[i].area = mapID[p] /\ in[i].seed = c} : in[i].key = k}
                = Places(in, ItemReplies(c, k))
  BY <1>2, <1>3, <1>4, Zenon DEF Places, ItemRequests, ItemReplies
<1>6. /\ {i \in DOMAIN r : r[i].name \in {"Clear", "DidClear"} /\ r[i].area = mapID[p] /\ r[i].seed = c}
         = Places(r, ClearRequests(c))
      /\ {i \in DOMAIN in : in[i].name \in {"Clear", "DidClear"} /\ in[i].area = mapID[p] /\ in[i].seed = c}
         = Places(in, ClearReplies(c))
  BY <1>2, <1>3, <1>4, Zenon DEF Places, ClearRequests, ClearReplies
<1> QED
  BY <1>5, <1>6, Zenon DEF UnderWay, r, in

=============================================================================
