---------------------------- MODULE ContentRules ----------------------------
(***************************************************************************)
(* An encounter's ordered content list, and the three functions the API    *)
(* judges it by: Validate, when it is saved; IncompleteContent, when it is *)
(* released; ReleasePayloadFromEncounter, when its loot is pushed.  Each   *)
(* was written apart from the others and reads the same rows.              *)
(*                                                                         *)
(* A row is [type, payload]; its payload is None (a nil pointer) or a      *)
(* record of the fields the three functions look at.  A text field is the  *)
(* Boolean "not blank".                                                    *)
(***************************************************************************)
EXTENDS Nothing, Integers, Sequences, Ranking

CONSTANT Word          \* 2^w, for the w bits of a Go int

ASSUME WordAssumption == Word \in Nat /\ Word > 1

Adjustments == {"none", "elite", "weak"}
SaleClasses == {"normal", "pure_treasure"}
States      == {"intact", "consumed", "destroyed"}
RewardKinds == {"information", "ritual", "ally", "item"}
Coins       == {"cp", "sp", "gp", "pp"}

CreatureTypes == {"monster", "hazard", "affliction"}
TextTypes     == {"markdown", "box_text"}
ContentTypes  == CreatureTypes \cup TextTypes
                 \cup {"skill_check", "pool", "treasure", "coin", "xp_award", "reward"}

-----------------------------------------------------------------------------
(* ContentRef: a chain of bases, the innermost first, each level with the  *)
(* fields that may name content.  json is "absent", "null" or "value".     *)

Level == [game_id : BOOLEAN, modifications : BOOLEAN, json : {"absent", "null", "value"}]
ContentRef == Seq(Level)

LevelIsEmpty(l) == ~l.game_id /\ ~l.modifications /\ l.json = "absent"

\* isEmpty recurses through Base: [n] is the answer for the n-th level.
RefIsEmpty(ref) ==
  LET isEmpty[n \in 0 .. Len(ref)] ==
        IF n = 0 THEN TRUE ELSE isEmpty[n - 1] /\ LevelIsEmpty(ref[n])
  IN  isEmpty[Len(ref)]

-----------------------------------------------------------------------------
(* The kinds of row.  A pool's gate and the value tiers may be nil.        *)

MonsterEntry == [ref : ContentRef, count : Int, adjustment : STRING,
                 loadout : Seq([ref : ContentRef, qty : Int])]
SkillCheck   == [skill : BOOLEAN, dc : Int, successes : Int,
                 alternatives : Seq([skill : BOOLEAN, dc : Int])]
Pool         == [id : BOOLEAN, name : BOOLEAN,
                 gate : [skill : BOOLEAN, dc : Int] \cup {None}]
\* value_tiers is the set of the tiers that are set.
TreasureLine == [ref : ContentRef, qty : Int, sale_class : STRING, state : STRING,
                 identify_dc : Int, value_tiers : (SUBSET Int) \cup {None}]
Currency     == [Coins -> Int]
Text         == [body : BOOLEAN]
XPAward      == [amount : Int]
Reward       == [kind : STRING, label : BOOLEAN]

OfType(types, payloads) == [type : types, payload : payloads \cup {None}]

Row == OfType(CreatureTypes, MonsterEntry) \cup OfType(TextTypes, Text)
       \cup OfType({"skill_check"}, SkillCheck) \cup OfType({"pool"}, Pool)
       \cup OfType({"treasure"}, TreasureLine) \cup OfType({"coin"}, Currency)
       \cup OfType({"xp_award"}, XPAward) \cup OfType({"reward"}, Reward)
       \cup OfType(STRING \ ContentTypes, {})

ASSUME PayloadAssumption ==
  None \notin MonsterEntry \cup SkillCheck \cup Pool \cup TreasureLine \cup Currency
              \cup Text \cup XPAward \cup Reward

\* Known to TLC, but not to the provers.
ASSUME StringAssumption == Adjustments \cup SaleClasses \cup States \subseteq STRING

-----------------------------------------------------------------------------
(* Validate, on one row: structural only, a row may be half-filled.        *)

ValidCreature(type, m) ==
  /\ m.count >= 0
  /\ type = "monster" => m.adjustment \in Adjustments \cup {""}
  /\ \A n \in DOMAIN m.loadout : m.loadout[n].qty >= 0

ValidSkillCheck(s) ==
  /\ s.dc >= 0
  /\ s.successes >= 0
  /\ \A n \in DOMAIN s.alternatives : s.alternatives[n].dc >= 0

ValidTreasure(t) ==
  /\ t.qty >= 0
  /\ t.sale_class \in SaleClasses \cup {""}
  /\ t.state \in States \cup {""}
  /\ t.identify_dc >= 0
  /\ t.value_tiers # None => \A tier \in t.value_tiers : tier >= 0

ValidRow(row) ==
  LET p == row.payload IN
  /\ row.type \in ContentTypes
  /\ p # None
  /\ row.type \in CreatureTypes => ValidCreature(row.type, p)
  /\ row.type = "skill_check" => ValidSkillCheck(p)
  /\ row.type = "pool" => p.gate = None \/ p.gate.dc >= 0
  /\ row.type = "treasure" => ValidTreasure(p)
  /\ row.type = "coin" => \A c \in Coins : p[c] >= 0
  /\ row.type = "xp_award" => p.amount >= 0
  /\ row.type = "reward" => p.kind \in RewardKinds \cup {""}

Valid(rows) == \A n \in DOMAIN rows : ValidRow(rows[n])

Default(value, default) == IF value = "" THEN default ELSE value

\* Mutant: a default outside the enum.
NormalRowUnknownState(row) ==
  IF row.type = "treasure"
  THEN [row EXCEPT !.payload.state = Default(@, "unspent")]
  ELSE row

\* Mutant: a count that was left out becomes one.
NormalRowCounted(row) ==
  IF row.type = "treasure"
  THEN [row EXCEPT !.payload.qty = IF @ = 0 THEN 1 ELSE @]
  ELSE row

\* What Validate leaves of a row it accepts: enums filled in, and no template
\* on what cannot have one.
NormalRow(row) ==
  CASE row.type = "monster" ->
         [row EXCEPT !.payload.adjustment = Default(@, "none")]
    [] row.type \in {"hazard", "affliction"} ->
         [row EXCEPT !.payload.adjustment = "none"]
    [] row.type = "treasure" ->
         [row EXCEPT !.payload.sale_class = Default(@, "normal"),
                     !.payload.state = Default(@, "intact")]
    [] OTHER -> row

\* What is stored of the list.
Saved(rows) == [n \in DOMAIN rows |-> NormalRow(rows[n])]

-----------------------------------------------------------------------------
(* IncompleteContent.                                                      *)

If(condition, field) == IF condition THEN {field} ELSE {}

\* Mutant: a row without a count counts as finished.
CreatureGapsUncounted(type, m) ==
  If(RefIsEmpty(m.ref), type)
  \cup If(\E n \in DOMAIN m.loadout : RefIsEmpty(m.loadout[n].ref), "equipment item")

CreatureGaps(type, m) ==
  If(RefIsEmpty(m.ref), type) \cup If(m.count < 1, "count")
  \cup If(\E n \in DOMAIN m.loadout : RefIsEmpty(m.loadout[n].ref), "equipment item")

SkillCheckGaps(s) ==
  If(~s.skill, "skill") \cup If(s.dc < 1, "DC")
  \cup If(\E n \in DOMAIN s.alternatives :
            ~s.alternatives[n].skill \/ s.alternatives[n].dc < 1,
          "alternative skill/DC")

PoolGaps(p) ==
  If(~p.name, "pool name")
  \cup If(p.gate # None /\ ~p.gate.skill, "gate skill")
  \cup If(p.gate # None /\ p.gate.dc < 1, "gate DC")

\* Mutant: a line without a quantity counts as finished.
TreasureGapsItemOnly(t) == If(RefIsEmpty(t.ref), "item")

TreasureGaps(t) == If(RefIsEmpty(t.ref), "item") \cup If(t.qty < 1, "quantity")

\* The fields missing of a row; a row without a payload lacks its first ones.
MissingOf(row) ==
  LET p == row.payload IN
  CASE row.type \in TextTypes ->
         If(IF p = None THEN TRUE ELSE ~p.body, "text")
    [] row.type \in CreatureTypes ->
         IF p = None THEN {row.type} ELSE CreatureGaps(row.type, p)
    [] row.type = "skill_check" ->
         IF p = None THEN {"skill", "DC"} ELSE SkillCheckGaps(p)
    [] row.type = "pool" ->
         IF p = None THEN {"pool name"} ELSE PoolGaps(p)
    [] row.type = "treasure" ->
         IF p = None THEN {"item"} ELSE TreasureGaps(p)
    [] row.type = "coin" ->
         If(IF p = None THEN TRUE ELSE \A c \in Coins : p[c] = 0, "amount")
    [] row.type = "xp_award" ->
         If(IF p = None THEN TRUE ELSE p.amount < 1, "XP amount")
    [] row.type = "reward" ->
         IF p = None THEN {"kind", "label"}
         ELSE If(p.kind \notin RewardKinds, "kind") \cup If(~p.label, "label")
    [] OTHER -> {}

\* Mutant: only the first gap is reported.
IncompleteContentFirst(rows) ==
  Picked([n \in DOMAIN rows |-> [row |-> n, missing |-> MissingOf(rows[n])]],
         {n \in DOMAIN rows : /\ MissingOf(rows[n]) # {}
                              /\ \A m \in 1 .. n - 1 : MissingOf(rows[m]) = {}})

IncompleteContent(rows) ==
  Picked([n \in DOMAIN rows |-> [row |-> n, missing |-> MissingOf(rows[n])]],
         {n \in DOMAIN rows : MissingOf(rows[n]) # {}})

-----------------------------------------------------------------------------
(* ReleasePayloadFromEncounter.                                            *)

\* Mutant: a line without a quantity is pushed.
PushedAnyQty(row) ==
  /\ row.type = "treasure"
  /\ row.payload # None
  /\ ~RefIsEmpty(row.payload.ref)
  /\ row.payload.state \notin {"consumed", "destroyed"}

\* Mutant: pruned lines are pushed.
PushedPruned(row) ==
  /\ row.type = "treasure"
  /\ row.payload # None
  /\ ~RefIsEmpty(row.payload.ref)
  /\ row.payload.qty >= 1

Pushed(row) ==
  /\ row.type = "treasure"
  /\ row.payload # None
  /\ ~RefIsEmpty(row.payload.ref)
  /\ row.payload.state \notin {"consumed", "destroyed"}
  /\ row.payload.qty >= 1

Items(lines) ==
  [n \in DOMAIN lines |-> [ref |-> lines[n].payload.ref, qty |-> lines[n].payload.qty]]

PayloadItems(rows) == Items(Picked(rows, {n \in DOMAIN rows : Pushed(rows[n])}))

\* int + int, in two's complement.
Plus(a, b) ==
  LET s == (a + b) % Word IN IF 2 * s >= Word THEN s - Word ELSE s

Drops(row) == row.type = "coin" /\ row.payload # None

\* Mutant: the last drop replaces the ones before it.
PayloadCoinsLast(rows) ==
  [c \in Coins |->
     LET sum[n \in 0 .. Len(rows)] ==
           IF n = 0 THEN 0
           ELSE IF Drops(rows[n]) THEN rows[n].payload[c] ELSE sum[n - 1]
     IN  sum[Len(rows)]]

PayloadCoins(rows) ==
  [c \in Coins |->
     LET sum[n \in 0 .. Len(rows)] ==
           IF n = 0 THEN 0
           ELSE IF Drops(rows[n]) THEN Plus(sum[n - 1], rows[n].payload[c])
           ELSE sum[n - 1]
     IN  sum[Len(rows)]]
=============================================================================
