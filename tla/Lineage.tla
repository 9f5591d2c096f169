------------------------------ MODULE Lineage -------------------------------
(***************************************************************************)
(* What the encounter store promises whatever runs concurrently, fails or  *)
(* is repeated: a key's first document is a fresh draft, and every later   *)
(* write stores either a document the key held before or one legal edit,   *)
(* or one legal release, of such a document.  Nothing is torn, mixed       *)
(* between keys or made up, a released document is never itself edited or  *)
(* released again, and a key nothing was created under stays empty.  The   *)
(* predecessor need not be the document stored now: writes may be lost.    *)
(***************************************************************************)
EXTENDS EncounterDocs

VARIABLES table,     \* key -> document or None
          versions   \* key -> every document ever stored there

Init == /\ table    = [k \in Key |-> None]
        /\ versions = [k \in Key |-> {}]

Successors(d) == {d} \cup EditsOf(d) \cup ReleasesOf(d)

Writable(k) == IF versions[k] = {} THEN {NewDoc(k, b) : b \in Bodies}
               ELSE UNION {Successors(d) : d \in versions[k]}

Write(k) == \E d \in Writable(k) :
              /\ table'    = [table EXCEPT ![k] = d]
              /\ versions' = [versions EXCEPT ![k] = @ \cup {d}]

Remove(k) == /\ table' = [table EXCEPT ![k] = None]
             /\ UNCHANGED versions

Next == \E k \in Key : Write(k) \/ Remove(k)

Spec == Init /\ [][Next]_<<table, versions>>
=============================================================================
