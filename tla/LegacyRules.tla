---------------------------- MODULE LegacyRules -----------------------------
(***************************************************************************)
(* EncounterInput as a whole.  Beside content an encounter still carries   *)
(* the lists that content superseded: an array for each kind of row, and   *)
(* Challenges, which held the rows of several arrays in one order.         *)
(* Validate judges those strictly: a row is finished or it is refused.     *)
(*                                                                         *)
(* A legacy row is written like a content row, with its array's kind for a *)
(* type; Currency is a coin row.                                           *)
(***************************************************************************)
EXTENDS ContentRules, PartyRules

RoomTypes == {"combat", "hazard", "haunt", "exploration", "social",
              "knowledge", "empty"}

\* As in ContentRules, known to TLC only.
ASSUME RoomTypesAssumption == RoomTypes \subseteq STRING

\* The kinds of row an array exists for, and those Challenges may hold.
ArrayTypes     == ContentTypes \ {"box_text"}
ChallengeTypes == CreatureTypes \cup {"skill_check", "markdown"}

-----------------------------------------------------------------------------
(* Validate's rules for one legacy row.                                    *)

StrictCreature(type, m) ==
  /\ m.count >= 1
  /\ ~RefIsEmpty(m.ref)
  /\ type = "monster" => m.adjustment \in Adjustments \cup {""}

StrictLoadout(m) ==
  \A n \in DOMAIN m.loadout : m.loadout[n].qty >= 1 /\ ~RefIsEmpty(m.loadout[n].ref)

StrictSkillCheck(s) ==
  /\ s.skill
  /\ s.dc >= 1
  /\ s.successes >= 0
  /\ \A n \in DOMAIN s.alternatives : s.alternatives[n].skill /\ s.alternatives[n].dc >= 1

\* Mutant: a line without a quantity is accepted.
StrictTreasureAnyQty(t) ==
  /\ t.qty >= 0
  /\ ~RefIsEmpty(t.ref)
  /\ t.sale_class \in SaleClasses \cup {""}
  /\ t.state \in States \cup {""}
  /\ t.identify_dc >= 0
  /\ t.value_tiers # None => t.value_tiers # {} /\ \A tier \in t.value_tiers : tier >= 0

StrictTreasure(t) ==
  /\ t.qty >= 1
  /\ ~RefIsEmpty(t.ref)
  /\ t.sale_class \in SaleClasses \cup {""}
  /\ t.state \in States \cup {""}
  /\ t.identify_dc >= 0
  /\ t.value_tiers # None => t.value_tiers # {} /\ \A tier \in t.value_tiers : tier >= 0

StrictPool(p) == p.id /\ (p.gate # None => p.gate.skill /\ p.gate.dc >= 1)

\* What the arrays and Challenges have in common.
StrictRow(row) ==
  LET p == row.payload IN
  /\ row.type \in CreatureTypes => StrictCreature(row.type, p)
  /\ row.type = "skill_check" => StrictSkillCheck(p)
  /\ row.type = "pool" => StrictPool(p)
  /\ row.type = "treasure" => StrictTreasure(p)
  /\ row.type = "coin" => \A c \in Coins : p[c] >= 0
  /\ row.type = "xp_award" => p.amount >= 1
  /\ row.type = "reward" => p.kind \in RewardKinds /\ p.label

\* An array holds payloads, never pointers to them.  Of the creatures' arrays
\* only the monsters' has its loadouts checked.
StrictArrayRow(row) ==
  StrictRow(row) /\ (row.type = "monster" => StrictLoadout(row.payload))

StrictChallenge(row) ==
  /\ row.type \in ChallengeTypes
  /\ row.payload # None
  /\ StrictRow(row)
  /\ row.type \in CreatureTypes => StrictLoadout(row.payload)

-----------------------------------------------------------------------------
(* The input as a whole: [name, room_type, party_level, party_size, array, *)
(* challenges, content].                                                   *)

ValidInput(in) ==
  /\ in.name
  /\ \A n \in DOMAIN in.array : StrictArrayRow(in.array[n])
  /\ in.room_type \in RoomTypes \cup {""}
  /\ \A n \in DOMAIN in.challenges : StrictChallenge(in.challenges[n])
  /\ Valid(in.content)
  /\ ValidParty(in.party_level, in.party_size)

\* Validate's defaults for a legacy row.
NormalLegacyRow(row) ==
  CASE row.type \in CreatureTypes ->
         [row EXCEPT !.payload.adjustment =
            IF row.type = "monster" THEN Default(@, "none") ELSE "none"]
    [] row.type = "treasure" ->
         [row EXCEPT !.payload.sale_class = Default(@, "normal"),
                     !.payload.state = Default(@, "intact")]
    [] OTHER -> row

\* What a save stores of an input that Validate accepts.
SavedInput(in) ==
  [in EXCEPT !.room_type  = Default(@, "combat"),
             !.array      = [n \in DOMAIN @ |-> NormalLegacyRow(@[n])],
             !.challenges = [n \in DOMAIN @ |-> NormalLegacyRow(@[n])],
             !.content    = Saved(@)]

\* The client's migration: the legacy rows become content rows.
Migrated(in) ==
  [in EXCEPT !.array = << >>,
             !.challenges = << >>,
             !.content = @ \o in.challenges \o in.array]
=============================================================================
