----------------------------- MODULE MCRelease ------------------------------
(***************************************************************************)
(* A small instance of Release for TLC, with one invocation at a time and  *)
(* current reads: what the documented life of an encounter promises.       *)
(***************************************************************************)
EXTENDS Release

Ref(named) == <<[game_id |-> named, modifications |-> FALSE, json |-> "absent"]>>

Line(named, qty, state) ==
  [type |-> "treasure",
   payload |-> [ref |-> Ref(named), qty |-> qty, sale_class |-> "",
                state |-> state, identify_dc |-> 0, value_tiers |-> None]]

Coin(gp) == [type |-> "coin",
             payload |-> [c \in Coins |-> IF c = "gp" THEN gp ELSE 0]]

\* A finished hoard with a pruned line; one with a line still to be filled in;
\* and one whose loot is still in the legacy arrays, so that content is empty.
Hoards == {<<Line(TRUE, 2, ""), Coin(3), Line(TRUE, 1, "consumed")>>,
           <<Line(TRUE, 1, ""), Line(FALSE, 1, ""), Line(TRUE, 0, "")>>,
           << >>}
=============================================================================
