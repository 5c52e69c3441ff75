---------------------------- MODULE PersistentMap ----------------------------
(***************************************************************************)
(* What local storage promises of one origin, whatever the processes and   *)
(* files behind it: a map that operations change one at a time, and a      *)
(* saved copy that follows it.  Only the death of the process that keeps   *)
(* the map may take changes back, and then the map is again what was       *)
(* saved.  Closing the map and opening it again are no steps at all.       *)
(***************************************************************************)

CONSTANTS Keys, Values, Null    \* Null: what a key without an item maps to

VARIABLES
    items,   \* the map
    saved,   \* what would be read back after a crash
    cleared  \* a clear has not been saved yet

vars == <<items, saved, cleared>>

Maps  == [Keys -> Values \cup {Null}]
Empty == [k \in Keys |-> Null]

Init ==
    /\ saved \in Maps
    /\ items = saved
    /\ cleared = FALSE

Set(k, v) ==
    /\ items' = [items EXCEPT ![k] = v]
    /\ UNCHANGED <<saved, cleared>>

Remove(k) ==
    /\ items' = [items EXCEPT ![k] = Null]
    /\ UNCHANGED <<saved, cleared>>

Clear ==
    /\ items' = Empty
    /\ cleared' = TRUE
    /\ UNCHANGED saved

\* Some keys are brought up to date, the others keep what was saved for them,
\* unless a clear is saved with them: then they have nothing saved.
Save ==
    /\ \A k \in Keys : saved'[k] \in {items[k], IF cleared THEN Null ELSE saved[k]}
    /\ saved' \in Maps
    /\ cleared' = FALSE
    /\ UNCHANGED items

\* The process dies, perhaps when it has saved a clear and not yet the changes
\* made after it.
Crash ==
    /\ saved' \in IF cleared THEN {saved, Empty} ELSE {saved}
    /\ items' = saved'
    /\ cleared' = FALSE

\* The user deletes the data of the origin.
Delete ==
    /\ items' = Empty
    /\ saved' = Empty
    /\ cleared' = FALSE

Next ==
    \/ \E k \in Keys, v \in Values : Set(k, v)
    \/ \E k \in Keys : Remove(k)
    \/ Clear
    \/ Save
    \/ Crash
    \/ Delete

Spec == Init /\ [][Next]_vars

=============================================================================
