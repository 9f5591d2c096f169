------------------------------ MODULE Content -------------------------------
(***************************************************************************)
(* The GM builds an encounter row by row, in content or, with a client     *)
(* from before content, in the lists it superseded, and may save or        *)
(* release it after any row.                                               *)
(***************************************************************************)
EXTENDS LegacyRules

CONSTANTS Heads,       \* the other fields: [name, room_type, party_level, party_size]
          PlainHead,   \* the one that rows are tried with
          Rows,        \* the rows the GM may add in this instance
          Mixed,       \* those that are combined with others
          MaxRows      \* bound on the number of rows

Fields == [name : BOOLEAN, room_type : STRING,
           party_level : Int \cup {None}, party_size : Int \cup {None}]

ASSUME HeadsAssumption   == Heads \subseteq Fields /\ PlainHead \in Heads
ASSUME RowsAssumption    == Rows \subseteq Row /\ Mixed \subseteq Rows
ASSUME MaxRowsAssumption == MaxRows \in Nat

VARIABLE input         \* the encounter as a client sends it

EncounterInput == [name : BOOLEAN, room_type : STRING,
                   party_level : Int \cup {None}, party_size : Int \cup {None},
                   array : Seq(Row), challenges : Seq(Row), content : Seq(Row)]

Lists == {"array", "challenges", "content"}

Empty(head) == [name        |-> head.name,
                room_type   |-> head.room_type,
                party_level |-> head.party_level,
                party_size  |-> head.party_size,
                array       |-> << >>,
                challenges  |-> << >>,
                content     |-> << >>]

Init == input \in {Empty(head) : head \in Heads}

AddedRows == input.array \o input.challenges \o input.content

\* Mutant: an array of pointers, as Challenges is.
FitsNil(list, row) ==
  list = "array" =>
    /\ row.type \in ArrayTypes
    /\ row.type = "coin" => \A n \in DOMAIN input.array : input.array[n].type # "coin"

\* An array has elements of its own kind only, none of them nil, and Currency
\* is one amount.
Fits(list, row) ==
  list = "array" =>
    /\ row.type \in ArrayTypes
    /\ row.payload # None
    /\ row.type = "coin" => \A n \in DOMAIN input.array : input.array[n].type # "coin"

AddRow(list, row) == /\ Fits(list, row)
                     /\ input' = [input EXCEPT ![list] = Append(@, row)]

Next == \/ /\ input = Empty(PlainHead)
           /\ \E list \in Lists, row \in Rows : AddRow(list, row)
        \/ /\ Len(AddedRows) \in 1 .. MaxRows - 1
           /\ \A n \in DOMAIN AddedRows : AddedRows[n] \in Mixed
           /\ \E list \in Lists, row \in Mixed : AddRow(list, row)

Spec == Init /\ [][Next]_input
=============================================================================
