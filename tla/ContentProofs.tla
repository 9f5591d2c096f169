---------------------------- MODULE ContentProofs ----------------------------
(***************************************************************************)
(* Why what Validate, IncompleteContent and ReleasePayloadFromEncounter    *)
(* claim of each other holds of any list of any rows: row by row, since    *)
(* each of them judges a row apart from the others, and then for the lists *)
(* they pick from the rows.                                                *)
(***************************************************************************)
EXTENDS ContentProps, DataLemmas

-----------------------------------------------------------------------------
(* What Validate leaves of a row of the old lists.                         *)

\* The same as of a row of content,
LEMMA SameNormal == ASSUME NEW row PROVE NormalLegacyRow(row) = NormalRow(row)
<1>1. CASE row.type = "monster"
  BY <1>1, TypesApart DEF NormalLegacyRow, NormalRow
<1>2. CASE row.type \in {"hazard", "affliction"}
  <2>1. row.type # "monster" /\ row.type \in CreatureTypes /\ row.type # "treasure"
    BY <1>2, TypesApart
  <2>2. NormalLegacyRow(row) = [row EXCEPT !.payload.adjustment = "none"]
    BY <2>1 DEF NormalLegacyRow
  <2>3. NormalRow(row) = [row EXCEPT !.payload.adjustment = "none"]
    BY <1>2, <2>1 DEF NormalRow
  <2> QED
    BY <2>2, <2>3
<1>3. CASE row.type = "treasure"
  BY <1>3, TypesApart DEF NormalLegacyRow, NormalRow
<1>4. CASE row.type \notin CreatureTypes \cup {"treasure"}
  BY <1>4, TypesApart DEF NormalLegacyRow, NormalRow
<1> QED
  BY <1>1, <1>2, <1>3, <1>4, TypesApart

\* and it is as strictly judged.
LEMMA NormalStrict ==
  ASSUME NEW row \in Row, row.payload # None, StrictRow(row)
  PROVE  /\ StrictRow(NormalRow(row))
         /\ row.type \in CreatureTypes /\ StrictLoadout(row.payload) =>
              StrictLoadout(NormalRow(row).payload)
         /\ row.type = "treasure" => NormalRow(row).payload.state \in States
<1> DEFINE n == NormalRow(row)
           p == row.payload
           q == n.payload
<1>1. n.type = row.type /\ q # None
  BY NormalStable
<1>2. CASE row.type \in CreatureTypes
  <2>1. q = [p EXCEPT !.adjustment =
               IF row.type = "monster" THEN Default(p.adjustment, "none") ELSE "none"]
    BY <1>2, NormalCreature
  <2>2. p \in MonsterEntry
    BY <1>2, RowFields
  <2>3. /\ q.ref = p.ref /\ q.count = p.count /\ q.loadout = p.loadout
        /\ q.adjustment =
             IF row.type = "monster" THEN Default(p.adjustment, "none") ELSE "none"
    BY <2>1, <2>2 DEF MonsterEntry
  <2>4. StrictCreature(row.type, p)
    BY <1>2 DEF StrictRow
  <2> HIDE DEF n, p, q
  <2>5. StrictCreature(row.type, q)
    BY <2>3, <2>4 DEF StrictCreature, Default, Adjustments
  <2>6. StrictRow(n)
    BY <1>1, <1>2, <2>5, TypesApart DEF StrictRow, q
  <2>7. StrictLoadout(p) => StrictLoadout(q)
    BY <2>3 DEF StrictLoadout
  <2> QED
    BY <1>2, <2>6, <2>7, TypesApart DEF n, p, q
<1>3. CASE row.type = "treasure"
  <2>1. q = [p EXCEPT !.sale_class = Default(p.sale_class, "normal"),
                      !.state = Default(p.state, "intact")]
    BY <1>3, NormalTreasure
  <2>2. p \in TreasureLine
    BY <1>3, RowFields
  <2>3. /\ q.ref = p.ref /\ q.qty = p.qty /\ q.identify_dc = p.identify_dc
        /\ q.value_tiers = p.value_tiers
        /\ q.sale_class = Default(p.sale_class, "normal")
        /\ q.state = Default(p.state, "intact")
    BY <2>1, <2>2 DEF TreasureLine
  <2>4. StrictTreasure(p)
    BY <1>3 DEF StrictRow
  <2> HIDE DEF n, p, q
  <2>5. StrictTreasure(q) /\ q.state \in States
    BY <2>3, <2>4 DEF StrictTreasure, Default, SaleClasses, States
  <2>6. StrictRow(n)
    BY <1>1, <1>3, <2>5, TypesApart DEF StrictRow, q
  <2> QED
    BY <1>3, <2>5, <2>6, TypesApart DEF n, q
<1>4. CASE row.type \notin CreatureTypes \cup {"treasure"}
  <2>1. n = row
    BY <1>4, NormalOther
  <2> QED
    BY <1>4, <2>1
<1> QED
  BY <1>2, <1>3, <1>4

-----------------------------------------------------------------------------
(* The input always holds rows of the kinds there are.                     *)

LEMMA InitContentTypeOK == Init => ContentTypeOK
<1> SUFFICES ASSUME NEW head \in Heads, input = Empty(head) PROVE ContentTypeOK
  BY DEF Init
<1>1. head \in Fields
  BY HeadsAssumption
<1> QED
  BY <1>1 DEF Empty, Fields, ContentTypeOK, EncounterInput

\* One more row at a list's end.
LEMMA RowAppended ==
  ASSUME NEW rows \in Seq(Row), NEW row \in Row
  PROVE  /\ Append(rows, row) \in Seq(Row)
         /\ \A n \in DOMAIN Append(rows, row) :
              \/ n \in DOMAIN rows /\ Append(rows, row)[n] = rows[n]
              \/ n = Len(rows) + 1 /\ n \notin DOMAIN rows /\ Append(rows, row)[n] = row
<1>1. Len(rows) \in Nat /\ DOMAIN rows = 1 .. Len(rows)
  BY LenProperties
<1>2. /\ Append(rows, row) \in Seq(Row)
      /\ Len(Append(rows, row)) = Len(rows) + 1
      /\ \A n \in 1 .. Len(rows) : Append(rows, row)[n] = rows[n]
      /\ Append(rows, row)[Len(rows) + 1] = row
  BY AppendProperties
<1>3. DOMAIN Append(rows, row) = 1 .. Len(rows) + 1
  BY <1>2, LenProperties
<1> QED
  BY <1>1, <1>2, <1>3

LEMMA AddRowContentTypeOK ==
  ASSUME ContentTypeOK, NEW list \in Lists, NEW row \in Rows, AddRow(list, row)
  PROVE  ContentTypeOK'
<1>1. row \in Row
  BY RowsAssumption
<1>2. CASE list = "array"
  <2>1. input' = [input EXCEPT !.array = Append(input.array, row)] /\ input.array \in Seq(Row)
    BY <1>2 DEF AddRow, ContentTypeOK, EncounterInput
  <2>2. /\ input'.array = Append(input.array, row)
        /\ input'.array \in Seq(Row)
        /\ input'.challenges = input.challenges /\ input'.content = input.content
    BY <1>1, <2>1, RowAppended DEF ContentTypeOK, EncounterInput
  <2>3. \A n \in DOMAIN input'.array :
          \/ n \in DOMAIN input.array /\ input'.array[n] = input.array[n]
          \/ n = Len(input.array) + 1 /\ input'.array[n] = row
    BY <1>1, <2>1, <2>2, RowAppended
  <2>4. /\ row.type \in ArrayTypes /\ row.payload # None
        /\ row.type = "coin" => \A n \in DOMAIN input.array : input.array[n].type # "coin"
    BY <1>2 DEF AddRow, Fits
  <2>5. input' \in EncounterInput
    BY <2>1, <2>2 DEF ContentTypeOK, EncounterInput
  <2>6. \A n \in DOMAIN input'.array :
          input'.array[n].type \in ArrayTypes /\ input'.array[n].payload # None
    BY <2>3, <2>4 DEF ContentTypeOK
  <2>7. \A m, n \in DOMAIN input'.array :
          input'.array[m].type = "coin" /\ input'.array[n].type = "coin" => m = n
    BY <2>3, <2>4 DEF ContentTypeOK
  <2> QED
    BY <2>5, <2>6, <2>7 DEF ContentTypeOK
<1>3. CASE list = "challenges"
  <2>1. input' = [input EXCEPT !.challenges = Append(input.challenges, row)]
        /\ Append(input.challenges, row) \in Seq(Row)
    BY <1>1, <1>3, RowAppended DEF AddRow, ContentTypeOK, EncounterInput
  <2> QED
    BY <2>1 DEF ContentTypeOK, EncounterInput
<1>4. CASE list = "content"
  <2>1. input' = [input EXCEPT !.content = Append(input.content, row)]
        /\ Append(input.content, row) \in Seq(Row)
    BY <1>1, <1>4, RowAppended DEF AddRow, ContentTypeOK, EncounterInput
  <2> QED
    BY <2>1 DEF ContentTypeOK, EncounterInput
<1> QED
  BY <1>2, <1>3, <1>4 DEF Lists

\* Whatever is added, the encounter holds rows of the kinds there are.
THEOREM ContentTypeCorrect == Spec => []ContentTypeOK
<1>1. ASSUME ContentTypeOK, Next PROVE ContentTypeOK'
  <2>1. PICK list \in Lists, row \in Rows : AddRow(list, row)
    BY <1>1, RowsAssumption DEF Next
  <2> QED
    BY <1>1, <2>1, AddRowContentTypeOK
<1>2. ASSUME ContentTypeOK, UNCHANGED input PROVE ContentTypeOK'
  BY <1>2 DEF ContentTypeOK
<1> QED
  BY <1>1, <1>2, InitContentTypeOK, PTL DEF Spec

-----------------------------------------------------------------------------
(* A saved encounter.                                                      *)

\* The old lists are saved like content, the other fields but for the room's
\* type are kept.
LEMMA SavedFields ==
  ASSUME NEW in \in EncounterInput
  PROVE  SavedInput(in) = [name        |-> in.name,
                           room_type   |-> Default(in.room_type, "combat"),
                           party_level |-> in.party_level,
                           party_size  |-> in.party_size,
                           array       |-> Saved(in.array),
                           challenges  |-> Saved(in.challenges),
                           content     |-> Saved(in.content)]
<1>1. ASSUME NEW rows
      PROVE  [n \in DOMAIN rows |-> NormalLegacyRow(rows[n])] = Saved(rows)
  BY SameNormal DEF Saved
<1>2. SavedInput(in) = [in EXCEPT !.room_type  = Default(in.room_type, "combat"),
                                  !.array      = Saved(in.array),
                                  !.challenges = Saved(in.challenges),
                                  !.content    = Saved(in.content)]
  BY <1>1 DEF SavedInput, EncounterInput
<1> QED
  BY <1>2 DEF EncounterInput

\* What Validate accepts has no nil rows.
LEMMA ValidRowsAreThere ==
  ASSUME ContentTypeOK, ValidInput(input)
  PROVE  /\ \A n \in DOMAIN input.content :
              /\ input.content[n] \in Row /\ input.content[n].payload # None
              /\ ValidRow(input.content[n])
         /\ \A n \in DOMAIN input.challenges :
              /\ input.challenges[n] \in Row /\ input.challenges[n].payload # None
              /\ StrictChallenge(input.challenges[n])
         /\ \A n \in DOMAIN input.array :
              /\ input.array[n] \in Row /\ input.array[n].payload # None
              /\ StrictArrayRow(input.array[n])
<1>1. /\ input.content \in Seq(Row) /\ input.challenges \in Seq(Row)
      /\ input.array \in Seq(Row)
  BY DEF ContentTypeOK, EncounterInput
<1> QED
  BY <1>1, RowsOf DEF ValidInput, Valid, ValidRow, StrictChallenge, ContentTypeOK

\* The saved input, list by list.
LEMMA SavedLists ==
  ASSUME ContentTypeOK, ValidInput(input)
  PROVE  /\ saved \in EncounterInput
         /\ saved.array = Saved(input.array)
         /\ saved.challenges = Saved(input.challenges)
         /\ saved.content = Saved(input.content)
         /\ saved.name = input.name
         /\ saved.room_type = Default(input.room_type, "combat")
         /\ saved.party_level = input.party_level /\ saved.party_size = input.party_size
<1>1. /\ input \in EncounterInput
      /\ input.content \in Seq(Row) /\ input.challenges \in Seq(Row)
      /\ input.array \in Seq(Row)
  BY DEF ContentTypeOK, EncounterInput
<1>2. /\ Saved(input.array) \in Seq(Row) /\ Saved(input.challenges) \in Seq(Row)
      /\ Saved(input.content) \in Seq(Row)
  BY <1>1, ValidRowsAreThere, SavedRows
<1>3. Default(input.room_type, "combat") \in STRING
  BY <1>1, RoomTypesAssumption DEF EncounterInput, Default, RoomTypes
<1> QED
  BY <1>1, <1>2, <1>3, SavedFields DEF saved, EncounterInput

\* What a save stores is valid, and saving it again changes nothing.
THEOREM SaveIsStable == Spec => []SavedIsStable
<1>1. ASSUME ContentTypeOK, ValidInput(input) PROVE ValidInput(saved) /\ SavedInput(saved) = saved
  <2>1. /\ input.content \in Seq(Row) /\ input.challenges \in Seq(Row)
        /\ input.array \in Seq(Row)
    BY <1>1 DEF ContentTypeOK, EncounterInput
  <2>2. /\ saved \in EncounterInput
        /\ saved.array = Saved(input.array)
        /\ saved.challenges = Saved(input.challenges)
        /\ saved.content = Saved(input.content)
        /\ saved.name = input.name
        /\ saved.room_type = Default(input.room_type, "combat")
        /\ saved.party_level = input.party_level /\ saved.party_size = input.party_size
    BY <1>1, SavedLists
  <2>3. \A n \in DOMAIN saved.content : ValidRow(saved.content[n])
    BY <1>1, <2>1, <2>2, ValidRowsAreThere, SavedRows, NormalValid
  <2>4. ASSUME NEW n \in DOMAIN saved.challenges PROVE StrictChallenge(saved.challenges[n])
    <3> DEFINE row == input.challenges[n]
    <3>1. /\ row \in Row /\ row.payload # None /\ StrictChallenge(row)
          /\ saved.challenges[n] = NormalRow(row)
      BY <1>1, <2>1, <2>2, ValidRowsAreThere, SavedRows
    <3> HIDE DEF row
    <3>2. NormalRow(row).type = row.type /\ NormalRow(row).payload # None
      BY <3>1, NormalStable
    <3>3. StrictRow(row) /\ (row.type \in CreatureTypes => StrictLoadout(row.payload))
      BY <3>1 DEF StrictChallenge
    <3> QED
      BY <3>1, <3>2, <3>3, NormalStrict DEF StrictChallenge
  <2>5. ASSUME NEW n \in DOMAIN saved.array PROVE StrictArrayRow(saved.array[n])
    <3> DEFINE row == input.array[n]
    <3>1. /\ row \in Row /\ row.payload # None /\ StrictArrayRow(row)
          /\ saved.array[n] = NormalRow(row)
      BY <1>1, <2>1, <2>2, ValidRowsAreThere, SavedRows
    <3> HIDE DEF row
    <3>2. NormalRow(row).type = row.type
      BY <3>1, NormalStable
    <3>3. /\ StrictRow(row) /\ (row.type = "monster" => StrictLoadout(row.payload))
          /\ row.type = "monster" => row.type \in CreatureTypes
      BY <3>1, TypesApart DEF StrictArrayRow
    <3> QED
      BY <3>1, <3>2, <3>3, NormalStrict DEF StrictArrayRow
  <2>6. saved.room_type \in RoomTypes \cup {""} /\ Default(saved.room_type, "combat") = saved.room_type
    BY <1>1, <2>2 DEF ValidInput, Default, RoomTypes
  <2>7. ValidInput(saved)
    BY <1>1, <2>2, <2>3, <2>4, <2>5, <2>6 DEF ValidInput, Valid
  <2>8. /\ Saved(saved.array) = saved.array
        /\ Saved(saved.challenges) = saved.challenges
        /\ Saved(saved.content) = saved.content
    BY <1>1, <2>1, <2>2, ValidRowsAreThere, SavedRows
  <2>9. SavedInput(saved) = saved
    BY <2>2, <2>6, <2>8, SavedFields DEF EncounterInput
  <2> QED
    BY <2>7, <2>9
<1>2. ContentTypeOK => SavedIsStable
  BY <1>1 DEF SavedIsStable
<1> QED
  BY <1>2, ContentTypeCorrect, PTL

-----------------------------------------------------------------------------
(* Gaps.                                                                   *)

\* Saving a list neither fills a gap of it nor opens one.
THEOREM SavingKeepsGaps == Spec => []SaveKeepsGaps
<1>1. ASSUME ContentTypeOK, Valid(input.content)
      PROVE  IncompleteContent(Saved(input.content)) = IncompleteContent(input.content)
  <2> DEFINE rows == input.content
  <2>1. rows \in Seq(Row) /\ \A n \in DOMAIN rows : ValidRow(rows[n])
    BY <1>1 DEF ContentTypeOK, EncounterInput, Valid
  <2> HIDE DEF rows
  <2>2. \A n \in DOMAIN rows : rows[n] \in Row
    BY <2>1, RowsOf
  <2>3. DOMAIN Saved(rows) = DOMAIN rows
        /\ \A n \in DOMAIN rows : MissingOf(Saved(rows)[n]) = MissingOf(rows[n])
    BY <2>1, <2>2, NormalValid DEF Saved
  <2>4. {n \in DOMAIN Saved(rows) : MissingOf(Saved(rows)[n]) # {}}
          = {n \in DOMAIN rows : MissingOf(rows[n]) # {}}
    BY <2>3
  <2>5. [n \in DOMAIN Saved(rows) |-> [row |-> n, missing |-> MissingOf(Saved(rows)[n])]]
          = [n \in DOMAIN rows |-> [row |-> n, missing |-> MissingOf(rows[n])]]
    BY <2>3
  <2> QED
    BY <2>4, <2>5 DEF IncompleteContent, rows
<1>2. ContentTypeOK => SaveKeepsGaps
  BY <1>1 DEF SaveKeepsGaps
<1> QED
  BY <1>2, ContentTypeCorrect, PTL

\* A list passes the gate exactly when each of its rows would alone, and every
\* gap is reported at its row.
THEOREM GapsRowwise == Spec => []GapsAreRowwise
<1>1. ASSUME ContentTypeOK, NEW n \in DOMAIN input.content
      PROVE  (IncompleteContent(<<input.content[n]>>) = << >>)
               <=> ~\E g \in DOMAIN IncompleteContent(input.content) :
                      IncompleteContent(input.content)[g].row = n
  <2> DEFINE rows == input.content
             alone == <<rows[n]>>
             gaps == IncompleteContent(rows)
  <2>1. rows \in Seq(Row) /\ rows[n] \in Row
    BY <1>1, RowsOf DEF ContentTypeOK, EncounterInput
  <2>2. alone \in Seq(Row) /\ DOMAIN alone = {1} /\ alone[1] = rows[n]
    <3> HIDE DEF rows
    <3> QED
      BY <2>1
  <2> HIDE DEF rows, alone
  <2>3. IncompleteContent(alone) = << >> <=> MissingOf(rows[n]) = {}
    BY <2>2, GapsOf
  <2>4. /\ \A g \in DOMAIN gaps : \E m \in DOMAIN rows :
             MissingOf(rows[m]) # {} /\ gaps[g] = [row |-> m, missing |-> MissingOf(rows[m])]
        /\ \A m \in DOMAIN rows : MissingOf(rows[m]) # {} =>
             \E g \in DOMAIN gaps : gaps[g] = [row |-> m, missing |-> MissingOf(rows[m])]
    BY <2>1, GapsOf
  <2>5. (\E g \in DOMAIN gaps : gaps[g].row = n) <=> MissingOf(rows[n]) # {}
    <3>1. n \in DOMAIN rows
      BY DEF rows
    <3> HIDE DEF gaps
    <3> QED
      BY <2>4, <3>1
  <2> QED
    BY <2>3, <2>5 DEF rows, alone
<1>2. ContentTypeOK => GapsAreRowwise
  BY <1>1 DEF GapsAreRowwise
<1> QED
  BY <1>2, ContentTypeCorrect, PTL

-----------------------------------------------------------------------------
(* What is pushed.                                                         *)

\* Saved content, row by row.
LEMMA SavedContent ==
  ASSUME ContentTypeOK, ValidInput(input)
  PROVE  /\ content \in Seq(Row)
         /\ content = Saved(input.content)
         /\ input.content \in Seq(Row) /\ Valid(input.content)
         /\ \A n \in DOMAIN content :
              /\ content[n] \in Row /\ content[n].payload # None
              /\ ValidRow(content[n])
              /\ content[n].type = "treasure" => content[n].payload.state \in States
<1>1. input.content \in Seq(Row) /\ Valid(input.content)
  BY DEF ContentTypeOK, EncounterInput, ValidInput
<1>2. content = Saved(input.content)
  BY SavedLists DEF content
<1> QED
  BY <1>1, <1>2, AcceptedRows

\* Of a saved list without gaps the whole loot is pushed but for what the GM
\* pruned.
THEOREM GateKeepsLoot == Spec => []GateProtectsLoot
<1>1. ASSUME ContentTypeOK, ValidInput(input), IncompleteContent(content) = << >>
      PROVE  PayloadItems(content) = LootOf(content)
  BY <1>1, SavedContent, FinishedIsWhole
<1>2. ContentTypeOK => GateProtectsLoot
  BY <1>1 DEF GateProtectsLoot
<1> QED
  BY <1>2, ContentTypeCorrect, PTL

-----------------------------------------------------------------------------
(* Content against the old lists.                                          *)

\* What a row says of itself, once it is one of its kind.
LEMMA CreatureNumbers ==
  ASSUME NEW p \in MonsterEntry
  PROVE  /\ p.count \in Int
         /\ \A n \in DOMAIN p.loadout : p.loadout[n].qty \in Int
<1> DEFINE l == p.loadout
<1>1. p.count \in Int /\ l \in Seq([ref : ContentRef, qty : Int])
  BY DEF MonsterEntry
<1> HIDE DEF l
<1>2. \A n \in DOMAIN l : l[n] \in [ref : ContentRef, qty : Int]
  BY <1>1, ElementOfSeq, LenProperties
<1>3. \A n \in DOMAIN l : l[n].qty \in Int
  BY <1>2
<1> QED
  BY <1>1, <1>3 DEF l

LEMMA SkillNumbers ==
  ASSUME NEW p \in SkillCheck
  PROVE  /\ p.dc \in Int
         /\ \A n \in DOMAIN p.alternatives : p.alternatives[n].dc \in Int
<1> DEFINE l == p.alternatives
<1>1. p.dc \in Int /\ l \in Seq([skill : BOOLEAN, dc : Int])
  BY DEF SkillCheck
<1> HIDE DEF l
<1>2. \A n \in DOMAIN l : l[n] \in [skill : BOOLEAN, dc : Int]
  BY <1>1, ElementOfSeq, LenProperties
<1>3. \A n \in DOMAIN l : l[n].dc \in Int
  BY <1>2
<1> QED
  BY <1>1, <1>3 DEF l

\* What the gate lets pass, and does not overlook, the old rules accept.
LEMMA FinishedRowIsStrict ==
  ASSUME NEW row \in Row, ValidRow(row), MissingOf(row) = {}, ~GateOverlooks(row)
  PROVE  /\ row.type \in ArrayTypes => StrictArrayRow(row)
         /\ row.type \in ChallengeTypes => StrictChallenge(row)
<1> DEFINE p == row.payload
<1>1. row.type \in ContentTypes /\ p # None
  BY DEF ValidRow
<1>2. CASE row.type \in CreatureTypes
  <2>0. p \in MonsterEntry
    BY <1>1, <1>2, RowFields
  <2>1. /\ p.count \in Int
        /\ \A n \in DOMAIN p.loadout : p.loadout[n].qty \in Int
    BY <2>0, CreatureNumbers
  <2>2. CreatureGaps(row.type, p) = {} /\ ValidCreature(row.type, p)
    BY <1>1, <1>2, TypesApart DEF MissingOf, ValidRow
  <2>3. /\ ~RefIsEmpty(p.ref) /\ ~(p.count < 1)
        /\ \A n \in DOMAIN p.loadout : ~RefIsEmpty(p.loadout[n].ref)
    BY <2>2 DEF CreatureGaps, If
  <2>5. \A n \in DOMAIN p.loadout : p.loadout[n].qty >= 0 /\ p.loadout[n].qty # 0
    BY <1>2, <2>2 DEF GateOverlooks, ValidCreature
  <2>6. StrictLoadout(p)
    BY <2>1, <2>3, <2>5 DEF StrictLoadout
  <2>7. StrictCreature(row.type, p)
    <3> HIDE DEF p
    <3>1. p.count >= 1
      BY <2>1, <2>3
    <3>2. row.type = "monster" => p.adjustment \in Adjustments \cup {""}
      BY <2>2 DEF ValidCreature
    <3> QED
      BY <2>3, <3>1, <3>2 DEF StrictCreature
  <2>8. StrictRow(row)
    BY <1>2, <2>7, TypesApart DEF StrictRow
  <2> QED
    BY <1>1, <2>6, <2>8 DEF StrictArrayRow, StrictChallenge
<1>3. CASE row.type = "skill_check"
  <2>0. p \in SkillCheck
    BY <1>1, <1>3, RowFields
  <2>1. /\ p.dc \in Int
        /\ \A n \in DOMAIN p.alternatives : p.alternatives[n].dc \in Int
    BY <2>0, SkillNumbers
  <2>2. SkillCheckGaps(p) = {} /\ ValidSkillCheck(p)
    BY <1>1, <1>3, TypesApart DEF MissingOf, ValidRow
  <2>3. /\ p.skill /\ ~(p.dc < 1)
        /\ \A n \in DOMAIN p.alternatives :
             p.alternatives[n].skill /\ ~(p.alternatives[n].dc < 1)
    BY <2>2 DEF SkillCheckGaps, If
  <2>5. StrictSkillCheck(p)
    <3> HIDE DEF p
    <3> QED
      BY <2>1, <2>2, <2>3 DEF StrictSkillCheck, ValidSkillCheck
  <2>6. StrictRow(row)
    BY <1>3, <2>5, TypesApart DEF StrictRow
  <2> QED
    BY <1>1, <1>3, <2>6, TypesApart DEF StrictArrayRow, StrictChallenge
<1>4. CASE row.type = "pool"
  <2>1. p \in Pool
    BY <1>1, <1>4, RowFields
  <2>2. PoolGaps(p) = {} /\ p.id
    BY <1>1, <1>4, TypesApart DEF MissingOf, GateOverlooks
  <2>3. p.gate # None => p.gate.skill /\ ~(p.gate.dc < 1)
    BY <2>2 DEF PoolGaps, If
  <2>4. p.gate # None => p.gate.dc \in Int
    BY <2>1 DEF Pool
  <2>5. StrictPool(p)
    BY <2>2, <2>3, <2>4 DEF StrictPool
  <2>6. StrictRow(row)
    BY <1>4, <2>5, TypesApart DEF StrictRow
  <2> QED
    BY <1>4, <2>6, TypesApart DEF StrictArrayRow, ChallengeTypes
<1>5. CASE row.type = "treasure"
  <2>1. p.qty \in Int
    BY <1>1, <1>5, RowFields DEF TreasureLine
  <2>2. TreasureGaps(p) = {} /\ ValidTreasure(p) /\ p.value_tiers # {}
    BY <1>1, <1>5, TypesApart DEF MissingOf, ValidRow, GateOverlooks
  <2>3. ~RefIsEmpty(p.ref) /\ ~(p.qty < 1)
    BY <2>2 DEF TreasureGaps, If
  <2>4. StrictTreasure(p)
    <3> HIDE DEF p
    <3>1. p.qty >= 1
      BY <2>1, <2>3
    <3> QED
      BY <2>2, <2>3, <3>1 DEF StrictTreasure, ValidTreasure
  <2>5. StrictRow(row)
    BY <1>5, <2>4, TypesApart DEF StrictRow
  <2> QED
    BY <1>5, <2>5, TypesApart DEF StrictArrayRow, ChallengeTypes
<1>6. CASE row.type \in TextTypes \cup {"coin", "xp_award", "reward"}
  <2>1. row.type = "coin" => \A c \in Coins : p[c] >= 0
    BY DEF ValidRow
  <2>2. row.type = "xp_award" => p.amount >= 1
    <3>1. row.type = "xp_award" => p.amount \in Int
      BY <1>1, RowFields DEF XPAward
    <3>2. row.type = "xp_award" => ~(p.amount < 1)
      BY <1>1, TypesApart DEF MissingOf, If
    <3> QED
      BY <3>1, <3>2
  <2>3. row.type = "reward" => p.kind \in RewardKinds /\ p.label
    BY <1>1, TypesApart DEF MissingOf, If
  <2>4. StrictRow(row)
    BY <1>6, <2>1, <2>2, <2>3, TypesApart DEF StrictRow
  <2> QED
    BY <1>1, <1>6, <2>4, TypesApart DEF StrictArrayRow, StrictChallenge
<1> QED
  BY <1>1, <1>2, <1>3, <1>4, <1>5, <1>6, TypesApart

\* The gate at release is no weaker than the rules at save that it replaced,
\* but for what it does not look at.
THEOREM GateIsAsStrict == Spec => []FinishedIsStrict
<1>1. ASSUME ContentTypeOK, ValidInput(input), NEW n \in DOMAIN content,
             MissingOf(content[n]) = {}, ~GateOverlooks(content[n])
      PROVE  /\ content[n].type \in ArrayTypes => StrictArrayRow(content[n])
             /\ content[n].type \in ChallengeTypes => StrictChallenge(content[n])
  BY <1>1, SavedContent, FinishedRowIsStrict
<1>2. ContentTypeOK => FinishedIsStrict
  BY <1>1 DEF FinishedIsStrict
<1> QED
  BY <1>2, ContentTypeCorrect, PTL

-----------------------------------------------------------------------------
(* What a forced release pushes.                                           *)

\* isEmpty looks at every level of the chain.
LEMMA EmptyIsNothing ==
  ASSUME NEW ref \in ContentRef
  PROVE  RefIsEmpty(ref) <=> NamesNothing(ref)
<1> DEFINE m == Len(ref)
           all == [n \in 0 .. m |-> \A k \in 1 .. n : LevelIsEmpty(ref[k])]
           Answers(f) == f = [n \in 0 .. m |-> IF n = 0 THEN TRUE
                                               ELSE f[n - 1] /\ LevelIsEmpty(ref[n])]
           g == CHOOSE f : Answers(f)
           S == {n \in Nat : n <= m => (g[n] <=> \A k \in 1 .. n : LevelIsEmpty(ref[k]))}
<1>1. m \in Nat /\ DOMAIN ref = 1 .. m
  BY LenProperties DEF ContentRef
<1>2. RefIsEmpty(ref) = g[m]
  BY DEF RefIsEmpty
<1>3. ASSUME NEW n \in 0 .. m
      PROVE  all[n] = IF n = 0 THEN TRUE ELSE all[n - 1] /\ LevelIsEmpty(ref[n])
  <2>1. CASE n = 0
    BY <1>1, <2>1
  <2>2. CASE n # 0
    <3>1. n - 1 \in 0 .. m /\ 1 .. n = (1 .. n - 1) \cup {n}
      BY <1>1, <2>2
    <3> QED
      BY <2>2, <3>1
  <2> QED
    BY <2>1, <2>2
<1>4. Answers(all)
  <2>1. all = [n \in 0 .. m |-> all[n]]
    OBVIOUS
  <2> HIDE DEF m, all
  <2> QED
    BY <1>3, <2>1
<1>5. Answers(g)
  <2> HIDE DEF Answers
  <2> QED
    BY <1>4
<1>6. /\ g[0]
      /\ \A n \in 0 .. m : n # 0 => (g[n] <=> g[n - 1] /\ LevelIsEmpty(ref[n]))
  <2>1. \A n \in 0 .. m : g[n] = IF n = 0 THEN TRUE ELSE g[n - 1] /\ LevelIsEmpty(ref[n])
    <3> HIDE DEF g, m
    <3> QED
      BY <1>5
  <2>2. 0 \in 0 .. m
    BY <1>1
  <2> HIDE DEF g, m
  <2> QED
    BY <2>1, <2>2
<1> HIDE DEF g, Answers, m
<1>7. 0 \in S
  BY <1>1, <1>6
<1>8. ASSUME NEW n \in S PROVE n + 1 \in S
  <2>1. n \in Nat /\ n + 1 \in Nat
    OBVIOUS
  <2>2. CASE n + 1 <= m
    <3>1. g[n + 1] <=> g[n] /\ LevelIsEmpty(ref[n + 1])
      BY <1>1, <1>6, <2>1, <2>2
    <3>2. g[n] <=> \A k \in 1 .. n : LevelIsEmpty(ref[k])
      BY <1>1, <2>1, <2>2
    <3>3. 1 .. n + 1 = (1 .. n) \cup {n + 1}
      BY <2>1
    <3>4. g[n + 1] <=> \A k \in 1 .. n + 1 : LevelIsEmpty(ref[k])
      BY <2>1, <3>1, <3>2, <3>3
    <3> QED
      BY <2>1, <3>4
  <2>3. CASE ~(n + 1 <= m)
    BY <2>1, <2>3
  <2> QED
    BY <2>2, <2>3
<1>9. S = Nat
  <2> HIDE DEF S
  <2>1. S \in SUBSET Nat
    BY DEF S
  <2> QED
    BY <1>7, <1>8, <2>1, Counting
<1>10. g[m] <=> \A k \in 1 .. m : LevelIsEmpty(ref[k])
  BY <1>1, <1>9
<1> QED
  BY <1>1, <1>2, <1>10 DEF LevelIsEmpty, NamesNothing

\* An item that is pushed is one party-treasure accepts, gate or no gate.
THEOREM PushIsAcceptable == Spec => []PayloadAcceptable
<1>1. ASSUME ContentTypeOK, ValidInput(input), NEW n \in DOMAIN PayloadItems(content)
      PROVE  /\ PayloadItems(content)[n].qty >= 1
             /\ ~NamesNothing(PayloadItems(content)[n].ref)
  <2> DEFINE keep  == {k \in DOMAIN content : Pushed(content[k])}
             lines == Picked(content, keep)
  <2>1. /\ content \in Seq(Row)
        /\ \A k \in DOMAIN content : content[k] \in Row /\ content[k].payload # None
    BY <1>1, SavedContent
  <2>2. Len(content) \in Nat /\ DOMAIN content = 1 .. Len(content)
    BY <2>1, RowsOf
  <2>3. keep \in SUBSET Nat /\ IsFiniteSet(keep)
    <3>1. IsFiniteSet(1 .. Len(content))
      BY <2>2, FS_Interval
    <3> QED
      BY <2>2, <3>1, FS_Subset
  <2>4. n \in DOMAIN lines /\ PayloadItems(content)[n] =
          [ref |-> lines[n].payload.ref, qty |-> lines[n].payload.qty]
    BY <1>1 DEF PayloadItems, Items
  <2>5. PICK k \in keep : lines[n] = content[k]
    <3> HIDE DEF keep
    <3>1. \A k \in keep : content[k] \in Row
      BY <2>1 DEF keep
    <3> QED
      BY <2>3, <2>4, <3>1, PickedRows
  <2>6. /\ content[k].payload.qty >= 1 /\ ~RefIsEmpty(content[k].payload.ref)
        /\ content[k].type = "treasure"
    BY <2>5 DEF Pushed
  <2>7. content[k].payload.ref \in ContentRef
    BY <2>1, <2>6, RowFields DEF TreasureLine
  <2> QED
    BY <2>4, <2>5, <2>6, <2>7, EmptyIsNothing
<1>2. ContentTypeOK => PayloadAcceptable
  BY <1>1 DEF PayloadAcceptable
<1> QED
  BY <1>2, ContentTypeCorrect, PTL

-----------------------------------------------------------------------------
(* Coins.                                                                  *)

\* A coin is neither lost nor made up on the way to party-treasure.
THEOREM PushAddsUpCoins == Spec => []CoinsAddUp
<1>1. ASSUME ContentTypeOK, ValidInput(input), NEW c \in Coins, 2 * Total(content, c) < Word
      PROVE  PayloadCoins(content)[c] = Total(content, c)
  <2>1. content \in Seq(Row) /\ \A n \in DOMAIN content : ValidRow(content[n])
    BY <1>1, SavedContent
  <2> HIDE DEF content
  <2> QED
    BY <1>1, <2>1, ValidCoinsAddUp
<1>2. ContentTypeOK => CoinsAddUp
  BY <1>1 DEF CoinsAddUp
<1> QED
  BY <1>2, ContentTypeCorrect, PTL

-----------------------------------------------------------------------------
(* The old lists moved into content.                                       *)

\* A row that the strict rules accept is a valid row of content, but for a
\* loadout they do not look at; of treasure it lacks nothing.
LEMMA StrictIsValid ==
  ASSUME NEW row \in Row, row.payload # None, StrictRow(row),
         row.type \in CreatureTypes =>
           \A n \in DOMAIN row.payload.loadout : row.payload.loadout[n].qty >= 0
  PROVE  /\ ValidRow(row)
         /\ row.type = "treasure" => MissingOf(row) = {}
<1> DEFINE p == row.payload
<1>1. row.type \in ContentTypes /\ p # None
  BY RowFields
<1>2. CASE row.type \in CreatureTypes
  <2>1. p \in MonsterEntry /\ StrictCreature(row.type, p)
    BY <1>1, <1>2, RowFields DEF StrictRow
  <2>2. ValidCreature(row.type, p)
    <3>1. \A n \in DOMAIN p.loadout : p.loadout[n].qty >= 0
      BY <1>2
    <3> HIDE DEF p
    <3>2. p.count \in Int /\ p.count >= 1
      BY <2>1, CreatureNumbers DEF StrictCreature
    <3>3. p.count >= 0
      BY <3>2
    <3> QED
      BY <2>1, <3>1, <3>3 DEF StrictCreature, ValidCreature
  <2> QED
    BY <1>1, <1>2, <2>2, TypesApart DEF ValidRow
<1>3. CASE row.type = "skill_check"
  <2>1. p \in SkillCheck /\ StrictSkillCheck(p)
    BY <1>1, <1>3, RowFields DEF StrictRow
  <2>2. ValidSkillCheck(p)
    <3> HIDE DEF p
    <3>1. p.dc \in Int /\ \A n \in DOMAIN p.alternatives : p.alternatives[n].dc \in Int
      BY <2>1, SkillNumbers
    <3>2. p.dc >= 1 /\ p.successes >= 0
          /\ \A n \in DOMAIN p.alternatives : p.alternatives[n].dc >= 1
      BY <2>1 DEF StrictSkillCheck
    <3>3. p.dc >= 0 /\ \A n \in DOMAIN p.alternatives : p.alternatives[n].dc >= 0
      BY <3>1, <3>2
    <3> QED
      BY <3>2, <3>3 DEF ValidSkillCheck
  <2> QED
    BY <1>1, <1>3, <2>2, TypesApart DEF ValidRow
<1>4. CASE row.type = "pool"
  <2>1. p \in Pool /\ StrictPool(p)
    BY <1>1, <1>4, RowFields DEF StrictRow
  <2>2. p.gate = None \/ p.gate.dc >= 0
    <3> HIDE DEF p
    <3>1. p.gate # None => p.gate.dc \in Int /\ p.gate.dc >= 1
      BY <2>1 DEF StrictPool, Pool
    <3> QED
      BY <3>1
  <2> QED
    BY <1>1, <1>4, <2>2, TypesApart DEF ValidRow
<1>5. CASE row.type = "treasure"
  <2>1. p \in TreasureLine /\ StrictTreasure(p)
    BY <1>1, <1>5, RowFields DEF StrictRow
  <2>2. ValidTreasure(p) /\ TreasureGaps(p) = {}
    <3> HIDE DEF p
    <3>1. p.qty \in Int /\ p.qty >= 1 /\ ~RefIsEmpty(p.ref)
      BY <2>1 DEF StrictTreasure, TreasureLine
    <3>2. p.qty >= 0 /\ ~(p.qty < 1)
      BY <3>1
    <3> QED
      BY <2>1, <3>1, <3>2 DEF StrictTreasure, ValidTreasure, TreasureGaps, If
  <2> QED
    BY <1>1, <1>5, <2>2, TypesApart DEF ValidRow, MissingOf
<1>6. CASE row.type = "xp_award"
  <2>1. p.amount >= 0
    <3>1. p.amount \in Int /\ p.amount >= 1
      BY <1>1, <1>6, RowFields DEF StrictRow, XPAward
    <3> QED
      BY <3>1
  <2> QED
    BY <1>1, <1>6, <2>1, TypesApart DEF ValidRow
<1>7. CASE row.type \in TextTypes \cup {"coin", "reward"}
  <2>1. /\ row.type = "coin" => \A c \in Coins : p[c] >= 0
        /\ row.type = "reward" => p.kind \in RewardKinds
    BY DEF StrictRow
  <2> HIDE DEF p
  <2> QED
    BY <1>1, <1>7, <2>1, TypesApart DEF ValidRow, p
<1> QED
  BY <1>1, <1>2, <1>3, <1>4, <1>5, <1>6, <1>7, TypesApart

\* What is saved of an old list, as rows of content.
LEMMA MovedRows ==
  ASSUME NEW rows \in Seq(Row),
         \A n \in DOMAIN rows :
           /\ rows[n].payload # None /\ StrictRow(rows[n])
           /\ rows[n].type \in CreatureTypes =>
                \A k \in DOMAIN rows[n].payload.loadout : rows[n].payload.loadout[k].qty >= 0
  PROVE  /\ Saved(rows) \in Seq(Row)
         /\ DOMAIN Saved(rows) = DOMAIN rows
         /\ \A n \in DOMAIN rows :
              LET row == Saved(rows)[n] IN
              /\ row.type = rows[n].type
              /\ ValidRow(row)
              /\ row.type = "treasure" => MissingOf(row) = {}
              /\ Pushed(row) <=> Intact(row)
<1>1. /\ Saved(rows) \in Seq(Row) /\ DOMAIN Saved(rows) = DOMAIN rows
      /\ \A n \in DOMAIN rows : Saved(rows)[n] = NormalRow(rows[n])
  BY SavedRows
<1>2. ASSUME NEW row \in Row, row.payload # None, StrictRow(row),
             row.type \in CreatureTypes =>
               \A k \in DOMAIN row.payload.loadout : row.payload.loadout[k].qty >= 0
      PROVE  LET new == NormalRow(row) IN
             /\ new.type = row.type
             /\ ValidRow(new)
             /\ new.type = "treasure" => MissingOf(new) = {}
             /\ Pushed(new) <=> Intact(new)
  <2> DEFINE new == NormalRow(row)
  <2>1. /\ new \in Row /\ new.type = row.type /\ new.payload # None
    BY <1>2, NormalStable
  <2>2. ValidRow(row) /\ (row.type = "treasure" => MissingOf(row) = {})
    BY <1>2, StrictIsValid
  <2>3. /\ ValidRow(new) /\ MissingOf(new) = MissingOf(row)
        /\ row.type = "treasure" => new.payload.state \in States
    BY <2>2, NormalValid
  <2> HIDE DEF new
  <2>4. CASE row.type = "treasure"
    <3>1. new.payload.qty \in Int
      BY <2>1, <2>4, RowFields DEF TreasureLine
    <3>2. Pushed(new) <=> Intact(new)
      BY <2>1, <2>2, <2>3, <2>4, <3>1, FinishedIsPushed
    <3> QED
      BY <2>1, <2>2, <2>3, <2>4, <3>2 DEF new
  <2>5. CASE row.type # "treasure"
    <3>1. ~Pushed(new) /\ ~Intact(new)
      BY <2>1, <2>5 DEF Pushed, Intact
    <3> QED
      BY <2>1, <2>3, <2>5, <3>1 DEF new
  <2> QED
    BY <2>4, <2>5
<1>3. \A n \in DOMAIN rows : rows[n] \in Row
  BY RowsOf
<1> QED
  BY <1>1, <1>2, <1>3

\* The old lists of an input that Validate accepts are such rows.
LEMMA OldRowsMove ==
  ASSUME ContentTypeOK, ValidInput(input),
         \A n \in DOMAIN input.array : ~UncheckedLoadout(input.array[n])
  PROVE  /\ \A n \in DOMAIN input.challenges :
              LET row == input.challenges[n] IN
              /\ row \in Row /\ row.payload # None /\ StrictRow(row)
              /\ row.type # "treasure"
              /\ row.type \in CreatureTypes =>
                   \A k \in DOMAIN row.payload.loadout : row.payload.loadout[k].qty >= 0
         /\ \A n \in DOMAIN input.array :
              LET row == input.array[n] IN
              /\ row \in Row /\ row.payload # None /\ StrictRow(row)
              /\ row.type \in CreatureTypes =>
                   \A k \in DOMAIN row.payload.loadout : row.payload.loadout[k].qty >= 0
<1>1. ASSUME NEW row \in Row, row.payload # None, row.type \in CreatureTypes,
             StrictLoadout(row.payload) \/ (~UncheckedLoadout(row) /\ row.type # "monster")
      PROVE  \A k \in DOMAIN row.payload.loadout : row.payload.loadout[k].qty >= 0
  <2> DEFINE p == row.payload
  <2>1. p \in MonsterEntry
    BY <1>1, RowFields
  <2>2. \A k \in DOMAIN p.loadout : p.loadout[k].qty \in Int
    <3> HIDE DEF p
    <3> QED
      BY <2>1, CreatureNumbers
  <2>3. \A k \in DOMAIN p.loadout : p.loadout[k].qty >= 1 \/ ~(p.loadout[k].qty < 0)
    <3>1. row.type # "monster" => row.type \in {"hazard", "affliction"}
      BY <1>1, TypesApart
    <3> QED
      BY <1>1, <3>1 DEF StrictLoadout, UncheckedLoadout
  <2> HIDE DEF p
  <2>4. \A k \in DOMAIN p.loadout : p.loadout[k].qty >= 0
    BY <2>2, <2>3
  <2> QED
    BY <2>4 DEF p
<1>2. ASSUME NEW n \in DOMAIN input.challenges
      PROVE  LET row == input.challenges[n] IN
             /\ row \in Row /\ row.payload # None /\ StrictRow(row)
             /\ row.type # "treasure"
             /\ row.type \in CreatureTypes =>
                  \A k \in DOMAIN row.payload.loadout : row.payload.loadout[k].qty >= 0
  <2> DEFINE row == input.challenges[n]
  <2>1. row \in Row /\ row.payload # None /\ StrictChallenge(row)
    BY <1>2, ValidRowsAreThere
  <2> HIDE DEF row
  <2>2. /\ StrictRow(row) /\ row.type # "treasure"
        /\ row.type \in CreatureTypes => StrictLoadout(row.payload)
    BY <2>1, TypesApart DEF StrictChallenge, ChallengeTypes
  <2>3. ASSUME row.type \in CreatureTypes
        PROVE  \A k \in DOMAIN row.payload.loadout : row.payload.loadout[k].qty >= 0
    <3>1. StrictLoadout(row.payload) \/ (~UncheckedLoadout(row) /\ row.type # "monster")
      BY <2>1, <2>2, <2>3
    <3> QED
      BY <1>1, <2>1, <2>3, <3>1
  <2> QED
    BY <2>1, <2>2, <2>3 DEF row
<1>3. ASSUME NEW n \in DOMAIN input.array
      PROVE  LET row == input.array[n] IN
             /\ row \in Row /\ row.payload # None /\ StrictRow(row)
             /\ row.type \in CreatureTypes =>
                  \A k \in DOMAIN row.payload.loadout : row.payload.loadout[k].qty >= 0
  <2> DEFINE row == input.array[n]
  <2>1. row \in Row /\ row.payload # None /\ StrictArrayRow(row) /\ ~UncheckedLoadout(row)
    BY <1>3, ValidRowsAreThere
  <2> HIDE DEF row
  <2>2. StrictRow(row) /\ (row.type = "monster" => StrictLoadout(row.payload))
    BY <2>1 DEF StrictArrayRow
  <2>3. ASSUME row.type \in CreatureTypes
        PROVE  \A k \in DOMAIN row.payload.loadout : row.payload.loadout[k].qty >= 0
    <3>1. StrictLoadout(row.payload) \/ (~UncheckedLoadout(row) /\ row.type # "monster")
      BY <2>1, <2>2, <2>3
    <3> QED
      BY <1>1, <2>1, <2>3, <3>1
  <2> QED
    BY <2>1, <2>2, <2>3 DEF row
<1> QED
  BY <1>2, <1>3

\* Items goes line by line.
LEMMA ItemsConcat ==
  ASSUME NEW T, NEW a \in Seq(T), NEW b \in Seq(T)
  PROVE  Items(a \o b) = Items(a) \o Items(b)
<1> DEFINE item(line) == [ref |-> line.payload.ref, qty |-> line.payload.qty]
           I == {item(line) : line \in T}
           ab == a \o b
           la == Len(a)
           lb == Len(b)
<1>1. /\ la \in Nat /\ DOMAIN a = 1 .. la /\ lb \in Nat /\ DOMAIN b = 1 .. lb
      /\ \A n \in 1 .. la : a[n] \in T
      /\ \A n \in 1 .. lb : b[n] \in T
  BY LenProperties, ElementOfSeq
<1>2. /\ ab \in Seq(T) /\ Len(ab) = la + lb
      /\ \A n \in 1 .. la + lb : ab[n] = IF n <= la THEN a[n] ELSE b[n - la]
  BY ConcatProperties
<1>3. DOMAIN ab = 1 .. la + lb
  BY <1>1, <1>2, LenProperties
<1>4. /\ Items(a) = [n \in 1 .. la |-> item(a[n])]
      /\ Items(b) = [n \in 1 .. lb |-> item(b[n])]
      /\ Items(ab) = [n \in 1 .. la + lb |-> item(ab[n])]
  BY <1>1, <1>3 DEF Items
<1> HIDE DEF ab, item
<1>5. /\ Items(a) \in [1 .. la -> I] /\ Items(b) \in [1 .. lb -> I]
  BY <1>1, <1>4
<1> DEFINE x == Items(a)
           y == Items(b)
           z == Items(ab)
<1>6. z \in [1 .. la + lb -> I]
  <2>1. \A n \in 1 .. la + lb : ab[n] \in T
    BY <1>2, ElementOfSeq
  <2> QED
    BY <1>4, <2>1
<1> HIDE DEF I, la, lb, x, y, z
<1>7. /\ x \in Seq(I) /\ Len(x) = la
      /\ y \in Seq(I) /\ Len(y) = lb
      /\ z \in Seq(I) /\ Len(z) = la + lb
  <2>1. /\ x \in [1 .. la -> I] /\ y \in [1 .. lb -> I] /\ z \in [1 .. la + lb -> I]
        /\ la \in Nat /\ lb \in Nat /\ la + lb \in Nat
    BY <1>1, <1>5, <1>6 DEF x, y
  <2>2. x \in Seq(I) /\ y \in Seq(I) /\ z \in Seq(I)
    BY <2>1, SeqDef
  <2>3. DOMAIN x = 1 .. la /\ DOMAIN y = 1 .. lb /\ DOMAIN z = 1 .. la + lb
    BY <2>1
  <2> QED
    BY <2>1, <2>2, <2>3, LenProperties
<1>8. ASSUME NEW n \in 1 .. la + lb
      PROVE  z[n] = IF n <= la THEN x[n] ELSE y[n - la]
  <2>1. CASE n <= la
    <3>1. n \in 1 .. la /\ ab[n] = a[n]
      BY <1>1, <1>2, <2>1
    <3> QED
      BY <1>4, <2>1, <3>1 DEF x, z
  <2>2. CASE ~(n <= la)
    <3>1. n - la \in 1 .. lb /\ ab[n] = b[n - la]
      BY <1>1, <1>2, <2>2
    <3> QED
      BY <1>4, <2>2, <3>1 DEF y, z
  <2> QED
    BY <2>1, <2>2
<1>9. z = x \o y
  <2>1. /\ x \o y \in Seq(I) /\ Len(x \o y) = la + lb
        /\ \A n \in 1 .. la + lb : (x \o y)[n] = IF n <= la THEN x[n] ELSE y[n - la]
    BY <1>7, ConcatProperties
  <2> DEFINE xy == x \o y
  <2>2. xy \in Seq(I) /\ Len(z) = Len(xy) /\ \A n \in 1 .. Len(z) : z[n] = xy[n]
    BY <1>7, <1>8, <2>1
  <2> HIDE DEF xy
  <2>3. z = xy
    BY <1>7, <2>2, SeqEqual
  <2> QED
    BY <2>3 DEF xy
<1> QED
  BY <1>9 DEF ab, x, y, z

\* The old lists of a saved input move into content.
LEMMA SavedMoves ==
  ASSUME ContentTypeOK, ValidInput(input),
         \A n \in DOMAIN input.array : ~UncheckedLoadout(input.array[n])
  PROVE  /\ content \in Seq(Row) /\ saved.challenges \in Seq(Row) /\ saved.array \in Seq(Row)
         /\ \A n \in DOMAIN content : ValidRow(content[n]) /\ NormalRow(content[n]) = content[n]
         /\ \A n \in DOMAIN saved.challenges :
              LET row == saved.challenges[n] IN
              ValidRow(row) /\ NormalRow(row) = row /\ row.type # "treasure"
         /\ \A n \in DOMAIN saved.array :
              LET row == saved.array[n] IN
              /\ ValidRow(row) /\ NormalRow(row) = row
              /\ row.type = "treasure" => MissingOf(row) = {}
              /\ Pushed(row) <=> Intact(row)
<1>1. /\ saved.content = Saved(input.content) /\ input.content \in Seq(Row)
      /\ saved.challenges = Saved(input.challenges) /\ input.challenges \in Seq(Row)
      /\ saved.array = Saved(input.array) /\ input.array \in Seq(Row)
  BY SavedLists DEF ContentTypeOK, EncounterInput
<1>2. ASSUME NEW rows \in Seq(Row), \A n \in DOMAIN rows : rows[n].payload # None
      PROVE  \A n \in DOMAIN Saved(rows) : NormalRow(Saved(rows)[n]) = Saved(rows)[n]
  <2>1. DOMAIN Saved(rows) = DOMAIN rows /\ \A n \in DOMAIN rows : rows[n] \in Row
    BY <1>2, SavedRows, RowsOf
  <2>2. \A n \in DOMAIN rows : Saved(rows)[n] = NormalRow(rows[n])
    BY <1>2, SavedRows
  <2> QED
    BY <1>2, <2>1, <2>2, NormalStable
<1>3. /\ content \in Seq(Row)
      /\ \A n \in DOMAIN content : ValidRow(content[n]) /\ NormalRow(content[n]) = content[n]
  <2>1. \A n \in DOMAIN input.content : input.content[n].payload # None
    BY ValidRowsAreThere
  <2>2. content = Saved(input.content)
    BY <1>1 DEF content
  <2> QED
    BY <1>1, <1>2, <2>1, <2>2, SavedContent
<1>4. /\ saved.challenges \in Seq(Row)
      /\ \A n \in DOMAIN saved.challenges :
           LET row == saved.challenges[n] IN
           ValidRow(row) /\ NormalRow(row) = row /\ row.type # "treasure"
  <2> DEFINE rows == input.challenges
  <2>1. /\ rows \in Seq(Row)
        /\ \A n \in DOMAIN rows :
             /\ rows[n].payload # None /\ StrictRow(rows[n])
             /\ rows[n].type # "treasure"
             /\ rows[n].type \in CreatureTypes =>
                  \A k \in DOMAIN rows[n].payload.loadout : rows[n].payload.loadout[k].qty >= 0
    BY <1>1, OldRowsMove
  <2> HIDE DEF rows
  <2>2. /\ Saved(rows) \in Seq(Row) /\ DOMAIN Saved(rows) = DOMAIN rows
        /\ \A n \in DOMAIN rows : Saved(rows)[n].type = rows[n].type /\ ValidRow(Saved(rows)[n])
    BY <2>1, MovedRows
  <2>3. \A n \in DOMAIN Saved(rows) : NormalRow(Saved(rows)[n]) = Saved(rows)[n]
    BY <1>2, <2>1
  <2>4. saved.challenges = Saved(rows)
    BY <1>1 DEF rows
  <2> QED
    BY <2>1, <2>2, <2>3, <2>4
<1>5. /\ saved.array \in Seq(Row)
      /\ \A n \in DOMAIN saved.array :
           LET row == saved.array[n] IN
           /\ ValidRow(row) /\ NormalRow(row) = row
           /\ row.type = "treasure" => MissingOf(row) = {}
           /\ Pushed(row) <=> Intact(row)
  <2> DEFINE rows == input.array
  <2>1. /\ rows \in Seq(Row)
        /\ \A n \in DOMAIN rows :
             /\ rows[n].payload # None /\ StrictRow(rows[n])
             /\ rows[n].type \in CreatureTypes =>
                  \A k \in DOMAIN rows[n].payload.loadout : rows[n].payload.loadout[k].qty >= 0
    BY <1>1, OldRowsMove
  <2> HIDE DEF rows
  <2>2. /\ Saved(rows) \in Seq(Row) /\ DOMAIN Saved(rows) = DOMAIN rows
        /\ \A n \in DOMAIN rows :
             LET row == Saved(rows)[n] IN
             /\ ValidRow(row)
             /\ row.type = "treasure" => MissingOf(row) = {}
             /\ Pushed(row) <=> Intact(row)
    BY <2>1, MovedRows
  <2>3. \A n \in DOMAIN Saved(rows) : NormalRow(Saved(rows)[n]) = Saved(rows)[n]
    BY <1>2, <2>1
  <2>4. saved.array = Saved(rows)
    BY <1>1 DEF rows
  <2> QED
    BY <2>2, <2>3, <2>4
<1> QED
  BY <1>3, <1>4, <1>5

\* Loot that was left in the old lists comes with the migration.
THEOREM MigrationLosesNothing == Spec => []MigrationKeepsLoot
<1> DEFINE moved == Migrated(saved)
           gaps == IncompleteContent(moved.content)
           C == content
           H == saved.challenges
           A == saved.array
           all == C \o H \o A
<1>1. ASSUME ContentTypeOK, ValidInput(input),
             \A n \in DOMAIN input.array : ~UncheckedLoadout(input.array[n])
      PROVE  /\ ValidInput(moved)
             /\ SavedInput(moved) = moved
             /\ \A g \in DOMAIN gaps :
                  gaps[g].row > Len(content) => moved.content[gaps[g].row].type # "treasure"
             /\ PayloadItems(moved.content) = PayloadItems(content) \o LootOf(saved.array)
  <2>1. /\ C \in Seq(Row) /\ H \in Seq(Row) /\ A \in Seq(Row)
        /\ \A n \in DOMAIN C : ValidRow(C[n]) /\ NormalRow(C[n]) = C[n]
        /\ \A n \in DOMAIN H : ValidRow(H[n]) /\ NormalRow(H[n]) = H[n] /\ H[n].type # "treasure"
        /\ \A n \in DOMAIN A : /\ ValidRow(A[n]) /\ NormalRow(A[n]) = A[n]
                               /\ A[n].type = "treasure" => MissingOf(A[n]) = {}
                               /\ Pushed(A[n]) <=> Intact(A[n])
    BY <1>1, SavedMoves
  <2>2. /\ saved \in EncounterInput /\ saved.name = input.name
        /\ saved.room_type = Default(input.room_type, "combat")
        /\ saved.party_level = input.party_level /\ saved.party_size = input.party_size
    BY <1>1, SavedLists
  <2>3. /\ moved.array = << >> /\ moved.challenges = << >> /\ moved.content = all
        /\ moved.name = saved.name /\ moved.room_type = saved.room_type
        /\ moved.party_level = saved.party_level /\ moved.party_size = saved.party_size
    BY <2>2 DEF Migrated, EncounterInput, content
  <2>4. moved = [name        |-> moved.name,
                 room_type   |-> moved.room_type,
                 party_level |-> moved.party_level,
                 party_size  |-> moved.party_size,
                 array       |-> << >>,
                 challenges  |-> << >>,
                 content     |-> all]
    <3>1. moved = [saved EXCEPT !.array = << >>, !.challenges = << >>, !.content = all]
      BY <2>2 DEF Migrated, EncounterInput, content
    <3> HIDE DEF all
    <3>2. saved = [name        |-> saved.name,
                   room_type   |-> saved.room_type,
                   party_level |-> saved.party_level,
                   party_size  |-> saved.party_size,
                   array       |-> saved.array,
                   challenges  |-> saved.challenges,
                   content     |-> saved.content]
      BY <2>2 DEF EncounterInput
    <3> QED
      BY <2>3, <3>1, <3>2
  <2> HIDE DEF C, H, A
  <2> DEFINE lc == Len(C)
             lh == Len(H)
  <2>5. /\ lc \in Nat /\ DOMAIN C = 1 .. lc
        /\ lh \in Nat /\ DOMAIN H = 1 .. lh
        /\ Len(A) \in Nat /\ DOMAIN A = 1 .. Len(A)
    BY <2>1, LenProperties
  <2>6. /\ all \in Seq(Row)
        /\ \A n \in DOMAIN all :
             \/ n \in DOMAIN C /\ all[n] = C[n]
             \/ \E k \in DOMAIN H : n = lc + k /\ all[n] = H[k]
             \/ \E k \in DOMAIN A : n = lc + lh + k /\ all[n] = A[k]
        /\ \A n \in DOMAIN C : n \in DOMAIN all /\ all[n] = C[n]
        /\ \A k \in DOMAIN H : lc + k \in DOMAIN all /\ all[lc + k] = H[k]
        /\ \A k \in DOMAIN A : lc + lh + k \in DOMAIN all /\ all[lc + lh + k] = A[k]
    <3> DEFINE CH == C \o H
    <3>1. Joins(CH, C, H) /\ Joins(all, CH, A)
      BY DEF Joins
    <3>2. C \in Seq(Row) /\ H \in Seq(Row) /\ A \in Seq(Row)
      BY <2>1
    <3> HIDE DEF all, CH, lc, lh, C, H, A
    <3>3. all \in Seq(Row) /\ JoinsThree(all, C, H, A)
      BY <3>1, <3>2, ThreeLists
    <3> QED
      BY <3>3 DEF lc, lh, JoinsThree
  <2> DEFINE keep == {n \in DOMAIN all : Pushed(all[n])}
  <2>7. ValidInput(moved) /\ SavedInput(moved) = moved
    <3> HIDE DEF all
    <3>1. ASSUME NEW n \in DOMAIN all PROVE ValidRow(all[n]) /\ NormalRow(all[n]) = all[n]
      <4> HIDE DEF lc, lh
      <4>1. CASE n \in DOMAIN C /\ all[n] = C[n]
        BY <2>1, <4>1
      <4>2. CASE \E k \in DOMAIN H : n = lc + k /\ all[n] = H[k]
        BY <2>1, <4>2
      <4>3. CASE \E k \in DOMAIN A : n = lc + lh + k /\ all[n] = A[k]
        BY <2>1, <4>3
      <4> QED
        BY <2>6, <4>1, <4>2, <4>3
    <3>2. Saved(all) = all
      <4>1. all = [n \in DOMAIN all |-> all[n]]
        BY <2>6, LenProperties
      <4> QED
        BY <3>1, <4>1 DEF Saved
    <3>3. /\ moved.room_type \in RoomTypes \cup {""}
          /\ Default(moved.room_type, "combat") = moved.room_type
      BY <1>1, <2>2, <2>3 DEF ValidInput, Default, RoomTypes
    <3> DEFINE m == moved
    <3>4. /\ m.array = << >> /\ m.challenges = << >> /\ m.content = all
          /\ m.name = input.name
          /\ m.party_level = input.party_level /\ m.party_size = input.party_size
          /\ m.room_type \in RoomTypes \cup {""}
      BY <2>2, <2>3, <3>3
    <3>5. m \in EncounterInput
      <4>1. << >> \in Seq(Row)
        OBVIOUS
      <4> QED
        BY <2>2, <2>3, <2>4, <2>6, <4>1 DEF EncounterInput
    <3> HIDE DEF moved, m
    <3>6. ValidInput(m)
      <4>1. input.name /\ ValidParty(input.party_level, input.party_size)
        BY <1>1 DEF ValidInput
      <4> QED
        <5> DEFINE none == << >>
        <5>1. m.name
          BY <3>4, <4>1, Zenon
        <5>2. m.array = none /\ m.challenges = none
          BY <3>4
        <5>3. DOMAIN none = {}
          BY EmptySeq, LenProperties
        <5> HIDE DEF none
        <5>4. /\ m.name
              /\ \A n \in DOMAIN m.array : StrictArrayRow(m.array[n])
              /\ \A n \in DOMAIN m.challenges : StrictChallenge(m.challenges[n])
          BY <5>1, <5>2, <5>3
        <5>5. Valid(m.content)
          BY <3>1, <3>4 DEF Valid
        <5>6. ValidParty(m.party_level, m.party_size)
          BY <3>4, <4>1
        <5> HIDE DEF all
        <5> QED
          BY <3>4, <5>4, <5>5, <5>6 DEF ValidInput
    <3>7. SavedInput(m) = m
      <4>1. Saved(<< >>) = << >>
        BY DEF Saved
      <4>2. SavedInput(m) = [name        |-> m.name,
                             room_type   |-> Default(m.room_type, "combat"),
                             party_level |-> m.party_level,
                             party_size  |-> m.party_size,
                             array       |-> << >>,
                             challenges  |-> << >>,
                             content     |-> all]
        BY <3>2, <3>4, <3>5, <4>1, SavedFields
      <4> QED
        BY <2>4, <3>3, <4>2 DEF m
    <3> QED
      BY <3>6, <3>7 DEF m
  <2>8. ASSUME NEW g \in DOMAIN gaps, gaps[g].row > Len(content)
        PROVE  moved.content[gaps[g].row].type # "treasure"
    <3> HIDE DEF all
    <3>1. PICK n \in DOMAIN all : MissingOf(all[n]) # {} /\ gaps[g].row = n
      BY <2>3, <2>6, <2>8, GapsOf
    <3>2. n > lc
      BY <2>8, <3>1 DEF C
    <3>3. n \notin DOMAIN C
      BY <2>5, <3>2
    <3> HIDE DEF lc, lh
    <3>4. all[n].type # "treasure"
      <4>1. CASE \E k \in DOMAIN H : n = lc + k /\ all[n] = H[k]
        BY <2>1, <4>1
      <4>2. CASE \E k \in DOMAIN A : n = lc + lh + k /\ all[n] = A[k]
        BY <2>1, <3>1, <4>2
      <4> QED
        BY <2>6, <3>1, <3>3, <4>1, <4>2
    <3> QED
      BY <2>3, <3>1, <3>4
  <2>9. PayloadItems(all) = PayloadItems(C) \o LootOf(A)
    <3> DEFINE keepCH == keep \cap DOMAIN (C \o H)
               keepA  == {k \in DOMAIN A : Pushed(A[k])}
               keepC  == {k \in DOMAIN C : Pushed(C[k])}
    <3>1. C \o H \in Seq(Row) /\ DOMAIN (C \o H) = 1 .. lc + lh
      <4>1. C \o H \in Seq(Row)
        BY <2>1, ConcatProperties
      <4>2. Len(C \o H) = lc + lh
        BY <2>1, ConcatProperties
      <4> QED
        BY <4>1, <4>2, LenProperties
    <3>2. keepA = InSecond(C \o H, A, keep)
      <4>1. Len(C \o H) = lc + lh
        BY <2>1, ConcatProperties
      <4>2. keepA = {k \in DOMAIN A : lc + lh + k \in keep}
        <5> HIDE DEF all
        <5> QED
          BY <2>6
      <4> QED
        BY <4>1, <4>2 DEF InSecond
    <3>3. keepC = InFirst(C, keepCH)
      <4>1. DOMAIN C \in SUBSET DOMAIN (C \o H)
        BY <2>5, <3>1
      <4> HIDE DEF all
      <4> QED
        BY <2>6, <4>1 DEF InFirst
    <3>4. InSecond(C, H, keepCH) = {}
      <4> HIDE DEF all
      <4> QED
        BY <2>1, <2>6 DEF Pushed, InSecond
    <3>5. Picked(all, keep) = Picked(C \o H, keepCH) \o Picked(A, keepA)
      <4> DEFINE CH == C \o H
      <4>1. CH \in Seq(Row) /\ A \in Seq(Row) /\ Joins(all, CH, A)
        BY <2>1, <3>1 DEF Joins
      <4>2. keep \in SUBSET DOMAIN all
        OBVIOUS
      <4>3. keepCH = InFirst(CH, keep) /\ keepA = InSecond(CH, A, keep)
        BY <3>2 DEF InFirst
      <4> HIDE DEF CH, all, keep, keepCH, keepA, A
      <4>4. Picked(all, keep) = Picked(CH, InFirst(CH, keep)) \o Picked(A, InSecond(CH, A, keep))
        BY <4>1, <4>2, PickedConcat
      <4> QED
        BY <4>3, <4>4 DEF CH
    <3>6. Picked(C \o H, keepCH) = Picked(C, keepC) \o Picked(H, {})
      <4> DEFINE CH == C \o H
      <4>1. keepCH \in SUBSET DOMAIN CH /\ Joins(CH, C, H)
        BY DEF Joins
      <4>2. C \in Seq(Row) /\ H \in Seq(Row)
        BY <2>1
      <4> HIDE DEF CH, keepCH, keepC
      <4>3. Picked(CH, keepCH) = Picked(C, InFirst(C, keepCH)) \o Picked(H, InSecond(C, H, keepCH))
        BY <4>1, <4>2, PickedConcat
      <4> QED
        BY <3>3, <3>4, <4>3 DEF CH
    <3>7. /\ Picked(C, keepC) \in Seq(Row) /\ Picked(A, keepA) \in Seq(Row)
          /\ Picked(H, {}) = << >>
      <4>1. \A l \in Nat : IsFiniteSet(1 .. l) /\ 1 .. l \in SUBSET Nat
        BY FS_Interval
      <4>2. /\ keepC \in SUBSET (1 .. lc) /\ keepA \in SUBSET (1 .. Len(A))
            /\ \A k \in keepC : C[k] \in Row
            /\ \A k \in keepA : A[k] \in Row
        BY <2>1, <2>5, ElementOfSeq
      <4>3. /\ IsFiniteSet(keepC) /\ keepC \in SUBSET Nat
            /\ IsFiniteSet(keepA) /\ keepA \in SUBSET Nat
        BY <2>5, <4>1, <4>2, FS_Subset
      <4>4. IsFiniteSet({}) /\ Cardinality({}) = 0 /\ {} \in SUBSET Nat
        BY FS_EmptySet
      <4>5. Picked(H, {}) \in Seq(Row) /\ DOMAIN Picked(H, {}) = 1 .. 0
        BY <4>4, PickedRows
      <4>6. Picked(H, {}) = << >>
        BY <4>5, EmptySeq, LenProperties
      <4> HIDE DEF keepC, keepA
      <4> QED
        BY <4>2, <4>3, <4>6, PickedRows
    <3>8. Picked(all, keep) = Picked(C, keepC) \o Picked(A, keepA)
      <4> HIDE DEF all, keep, keepCH, keepC, keepA
      <4> QED
        BY <3>5, <3>6, <3>7, ConcatEmptySeq
    <3>9. PayloadItems(all) = Items(Picked(C, keepC)) \o Items(Picked(A, keepA))
      <4> HIDE DEF all, keepC, keepA
      <4> QED
        BY <3>7, <3>8, ItemsConcat DEF PayloadItems
    <3>10. keepA = {k \in DOMAIN A : Intact(A[k])}
      BY <2>1
    <3> QED
      BY <3>9, <3>10 DEF PayloadItems, LootOf
  <2> QED
    BY <2>3, <2>7, <2>8, <2>9 DEF C, A
<1>2. ContentTypeOK => MigrationKeepsLoot
  BY <1>1 DEF MigrationKeepsLoot
<1> QED
  BY <1>2, ContentTypeCorrect, PTL
=============================================================================
