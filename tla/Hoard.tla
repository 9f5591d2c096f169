------------------------------- MODULE Hoard --------------------------------
(***************************************************************************)
(* The loot that a list of content holds, counted straight from its rows:  *)
(* what a push should amount to.                                           *)
(***************************************************************************)
EXTENDS ContentRules

Intact(row) == row.type = "treasure" /\ row.payload.state = "intact"

\* The lines the GM did not prune, as the push would list them.
LootOf(rows) == Items(Picked(rows, {n \in DOMAIN rows : Intact(rows[n])}))

\* The coins, row by row.
Amount(row, c) == IF row.type = "coin" THEN row.payload[c] ELSE 0

Total(rows, c) ==
  LET total[n \in 0 .. Len(rows)] ==
        IF n = 0 THEN 0 ELSE total[n - 1] + Amount(rows[n], c)
  IN  total[Len(rows)]
=============================================================================
