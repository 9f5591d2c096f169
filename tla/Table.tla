------------------------------- MODULE Table --------------------------------
(***************************************************************************)
(* DynamoDB as internal/store uses it (external code): single-item puts    *)
(* and deletes without a condition expression, and GetItem without         *)
(* ConsistentRead.  An eventually consistent read may be served by a       *)
(* replica that has not caught up, item by item, with the leader.          *)
(***************************************************************************)
EXTENDS Keys

CONSTANT Lag           \* may a read be served by a lagging replica?

ASSUME LagAssumption == Lag \in BOOLEAN

VARIABLES table,       \* key -> item or None: the leader's copy
          replica      \* key -> item or None: what a lagging replica serves

tableVars == <<table, replica>>

TableInit == /\ table   = [k \in Key |-> None]
             /\ replica = [k \in Key |-> None]

\* The answers a GetItem may give.
GetItem(k) == {table[k]} \cup (IF Lag THEN {replica[k]} ELSE {})

\* PutItem creates or replaces; DeleteItem removes what is there, if anything.
PutItem(k, item) == table' = [table EXCEPT ![k] = item]
DeleteItem(k)    == table' = [table EXCEPT ![k] = None]

\* The replica catches up on one item.
Replicate(k) == /\ Lag
                /\ replica[k] # table[k]
                /\ replica' = [replica EXCEPT ![k] = table[k]]
                /\ UNCHANGED table
=============================================================================
