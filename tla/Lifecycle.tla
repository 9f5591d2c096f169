----------------------------- MODULE Lifecycle ------------------------------
(***************************************************************************)
(* An encounter's life as the API's documentation and messages tell it,    *)
(* every operation atomic: it is created once, as a draft; edited while it *)
(* is not released; released at most once and then frozen; deleted for     *)
(* good.                                                                   *)
(***************************************************************************)
EXTENDS EncounterDocs

VARIABLES table,    \* key -> document or None
          used      \* the keys an encounter was ever created under

Init == /\ table = [k \in Key |-> None]
        /\ used  = {}

Create(k) == /\ k \notin used
             /\ \E b \in Bodies : table' = [table EXCEPT ![k] = NewDoc(k, b)]
             /\ used' = used \cup {k}

Edit(k) == /\ table[k] # None
           /\ \E d \in EditsOf(table[k]) : table' = [table EXCEPT ![k] = d]
           /\ UNCHANGED used

Release(k) == /\ table[k] # None
              /\ \E d \in ReleasesOf(table[k]) : table' = [table EXCEPT ![k] = d]
              /\ UNCHANGED used

Remove(k) == /\ table[k] # None
             /\ table' = [table EXCEPT ![k] = None]
             /\ UNCHANGED used

Next == \E k \in Key : Create(k) \/ Edit(k) \/ Release(k) \/ Remove(k)

Spec == Init /\ [][Next]_<<table, used>>
=============================================================================
