----------------------------- MODULE MCContent ------------------------------
(***************************************************************************)
(* Small instances of Content for TLC.                                     *)
(***************************************************************************)
EXTENDS ContentProps

At(g, m, j) == [game_id |-> g, modifications |-> m, json |-> j]
Blank   == At(FALSE, FALSE, "absent")
NamedBy == {At(TRUE, FALSE, "absent"), At(FALSE, TRUE, "absent"),
            At(FALSE, FALSE, "value"), At(FALSE, FALSE, "null")}

\* Chains of one and two levels: blank, or named at either level.
Refs == {<<Blank>>, <<Blank, Blank>>} \cup {<<l>> : l \in NamedBy}
        \cup {<<Blank, l>> : l \in NamedBy} \cup {<<l, Blank>> : l \in NamedBy}
FewRefs == {<<Blank, Blank>>, <<Blank, At(TRUE, FALSE, "absent")>>}

Numbers == {-1, 0, 1}

Loadouts == {<< >>} \cup {<<[ref |-> r, qty |-> q]>> : r \in FewRefs, q \in Numbers}
Options  == {<< >>} \cup {<<[skill |-> s, dc |-> d]>> : s \in BOOLEAN, d \in Numbers}

Creatures(refs) ==
  OfType(CreatureTypes,
         [ref : refs, count : Numbers,
          adjustment : {"", "none", "elite", "huge"}, loadout : Loadouts])

Treasures(refs) ==
  OfType({"treasure"},
         [ref : refs, qty : Numbers, sale_class : {"", "normal", "cheap"},
          state : States \cup {"", "lost"}, identify_dc : {-1, 0},
          value_tiers : {None, {}, {0}, {-1}}])

CoinsOf(amounts) ==
  OfType({"coin"}, {[c \in Coins |-> IF c = "gp" THEN a ELSE 0] : a \in amounts})

Others ==
  OfType(TextTypes, [body : BOOLEAN])
  \cup OfType({"skill_check"},
              [skill : BOOLEAN, dc : Numbers, successes : Numbers, alternatives : Options])
  \cup OfType({"pool"}, [id : BOOLEAN, name : BOOLEAN,
                           gate : {None} \cup [skill : BOOLEAN, dc : Numbers]])
  \cup OfType({"xp_award"}, [amount : Numbers])
  \cup OfType({"reward"}, [kind : {"", "ally", "boon"}, label : BOOLEAN])
  \cup OfType({"song"}, {})

\* Every row there is, one at a time.
AllRows == Creatures(Refs) \cup Treasures(Refs) \cup CoinsOf({-1, 0, 1, 3}) \cup Others

\* Rows that matter to each other, combined in lists.
LootRows ==
  {row \in Treasures(FewRefs) :
     IF row.payload = None THEN FALSE
     ELSE /\ row.payload.sale_class = ""
          /\ row.payload.identify_dc = 0
          /\ row.payload.value_tiers = None
          /\ row.payload.state \in {"", "consumed"}
          /\ row.payload.qty >= 0}
  \cup CoinsOf({0, 1, 3})
  \cup OfType({"markdown"}, [body : BOOLEAN])

HeadOf(name, room, level, size) ==
  [name |-> name, room_type |-> room, party_level |-> level, party_size |-> size]

\* The other fields, at the edges of their ranges.
MCHeads == {HeadOf(n, r, l, s) : n \in BOOLEAN, r \in {"", "haunt", "cave"},
                               l \in {None, 0, 1, 20, 21}, s \in {None, 0, 1}}
MCPlain == HeadOf(TRUE, "", None, None)
=============================================================================
