---------------------------- MODULE ContentProps ----------------------------
(***************************************************************************)
(* What Validate, IncompleteContent and ReleasePayloadFromEncounter claim  *)
(* of each other.                                                          *)
(***************************************************************************)
EXTENDS Content, Hoard

\* The encounter has rows of the kinds there are.  An array has no nil, and
\* Currency is one row at most.
ContentTypeOK ==
  /\ input \in EncounterInput
  /\ \A n \in DOMAIN input.array :
       input.array[n].type \in ArrayTypes /\ input.array[n].payload # None
  /\ \A m, n \in DOMAIN input.array :
       input.array[m].type = "coin" /\ input.array[n].type = "coin" => m = n

saved   == SavedInput(input)
content == saved.content

\* What a save stores, a client can read and save again: it is valid, and
\* saving it changes nothing (Validate normalizes in place, model.go:697).
SavedIsStable == ValidInput(input) => ValidInput(saved) /\ SavedInput(saved) = saved

\* Saving neither fills a gap nor opens one (model.go:560-565).
SaveKeepsGaps ==
  Valid(input.content) =>
    IncompleteContent(Saved(input.content)) = IncompleteContent(input.content)

\* A list passes the gate exactly when each of its rows would alone: no row
\* hides another's gap, and every gap is reported at its row.
GapsAreRowwise ==
  LET rows == input.content
      gaps == IncompleteContent(rows)
  IN  \A n \in DOMAIN rows :
        (IncompleteContent(<<rows[n]>>) = << >>)
          <=> ~\E g \in DOMAIN gaps : gaps[g].row = n

-----------------------------------------------------------------------------
(* What is pushed.                                                         *)

\* The gate and the push agree on what is finished: of a saved list without
\* gaps, every treasure line the GM did not prune is pushed, in its order and
\* with its quantity; the filters of the push that would drop a line silently
\* (client.go:63, 69) have nothing left to drop.
GateProtectsLoot ==
  ValidInput(input) /\ IncompleteContent(content) = << >> =>
    PayloadItems(content) = LootOf(content)

\* However the release was forced, party-treasure is never sent an item it
\* would turn the whole push down for: a quantity below 1 or a ref to nothing.
NamesNothing(ref) ==
  \A n \in DOMAIN ref : ~ref[n].game_id /\ ~ref[n].modifications
                        /\ ref[n].json = "absent"

PayloadAcceptable ==
  LET items == PayloadItems(content) IN
  ValidInput(input) => \A n \in DOMAIN items :
                         items[n].qty >= 1 /\ ~NamesNothing(items[n].ref)

\* The coins pushed are the sum of the coin rows as long as that sum is a Go
\* int (client.go:87-90); beyond that nothing is claimed, since it wraps.
CoinsAddUp ==
  ValidInput(input) =>
    \A c \in Coins :
      2 * Total(content, c) < Word => PayloadCoins(content)[c] = Total(content, c)

-----------------------------------------------------------------------------
(* Content against the lists it superseded.                                *)

\* Validate never looks at the loadout of the hazard and affliction arrays.
UncheckedLoadout(row) ==
  /\ row.type \in {"hazard", "affliction"}
  /\ \E n \in DOMAIN row.payload.loadout : row.payload.loadout[n].qty < 0

\* The push and the gate look at content alone: loot that is still in the old
\* lists stays behind (client.go:58).  It is not lost: a saved encounter whose
\* old rows are moved into content is accepted as it is, no treasure line that
\* was moved stands in the way of a release, and every one of them that the GM
\* did not prune is then pushed.
MigrationKeepsLoot ==
  LET moved == Migrated(saved)
      gaps  == IncompleteContent(moved.content)
  IN  /\ ValidInput(input)
      /\ ~\E n \in DOMAIN input.array : UncheckedLoadout(input.array[n])
      => /\ ValidInput(moved)
         /\ SavedInput(moved) = moved
         /\ \A g \in DOMAIN gaps :
              gaps[g].row > Len(content) => moved.content[gaps[g].row].type # "treasure"
         /\ PayloadItems(moved.content) = PayloadItems(content) \o LootOf(saved.array)

\* What the gate lets pass in content, Validate would have accepted in the old
\* lists: the gate at release is no weaker than the rules at save it replaced
\* (model.go:560-565), but for what it does not look at.
GateOverlooks(row) ==
  LET p == row.payload IN
  \/ row.type \in CreatureTypes /\ \E n \in DOMAIN p.loadout : p.loadout[n].qty = 0
  \/ row.type = "treasure" /\ p.value_tiers = {}
  \/ row.type = "pool" /\ ~p.id

FinishedIsStrict ==
  ValidInput(input) =>
    \A n \in DOMAIN content :
      LET row == content[n] IN
      MissingOf(row) = {} /\ ~GateOverlooks(row) =>
        /\ row.type \in ArrayTypes => StrictArrayRow(row)
        /\ row.type \in ChallengeTypes => StrictChallenge(row)
=============================================================================
