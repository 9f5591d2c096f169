--------------------------- MODULE ReleaseProofs ----------------------------
(***************************************************************************)
(* The endpoints, the gate and the payload together: what party-treasure   *)
(* is sent, for any content lists of any rows, under any interleaving and  *)
(* any of the disturbances.                                                *)
(***************************************************************************)
EXTENDS Release, EncounterProofs, DataLemmas

\* A body is a stored list that Validate accepted; its loot is its coins, and
\* all its lines if it has no gaps.
LEMMA LootOfBody ==
  ASSUME NEW b \in Bodies
  PROVE  /\ \A c \in Coins : 2 * Total(b, c) < Word => Loot[b].coins[c] = Total(b, c)
         /\ b \notin Gappy => Loot[b].items = LootOf(b)
<1>1. PICK rows \in Seq(Row) : Valid(rows) /\ b = Saved(rows)
  BY RealAssumption, ContentsAssumption DEF RealBodies
<1>2. Loot[b] = [items |-> PayloadItems(b), coins |-> PayloadCoins(b)]
  BY RealAssumption DEF RealLoot
<1>3. b \in Seq(Row) /\ \A n \in DOMAIN b : ValidRow(b[n])
  BY <1>1, AcceptedRows
<1>4. \A c \in Coins : 2 * Total(b, c) < Word => Loot[b].coins[c] = Total(b, c)
  BY <1>2, <1>3, ValidCoinsAddUp
<1>5. b \notin Gappy => Loot[b].items = LootOf(b)
  BY <1>1, <1>2, RealAssumption, FinishedIsWhole DEF RealGappy
<1> QED
  BY <1>4, <1>5

\* Whatever races, is stale, fails or is repeated, the party is sent the loot
\* of releases that were stored under that key: whole, but for the lines that
\* a forced release leaves unfinished.
THEOREM PartyGetsWhole == Spec => []PartyGetsWholeReleases
<1>1. ASSUME TypeOK, Sound, NEW k \in Key, NEW loot \in party[k]
      PROVE  \E d \in ReleasedVersions(k) :
               /\ \A c \in Coins : 2 * Total(d.body, c) < Word
                                     => loot.coins[c] = Total(d.body, c)
               /\ d.forced \/ loot.items = LootOf(d.body)
  <2>1. PICK d \in ReleasedVersions(k) : loot = Loot[d.body]
    BY <1>1 DEF Sound, DocumentsSound, PushAfterCommit
  <2>2. d \in versions[k] /\ d.status = "released"
    BY <2>1 DEF ReleasedVersions
  <2>3. d.forced \/ d.body \notin Gappy
    BY <1>1, <2>2 DEF Sound, DocumentsSound, HistoryOK, WellFormed
  <2>4. d.body \in Bodies
    BY <1>1, <2>2 DEF TypeOK, Doc
  <2> QED
    BY <2>1, <2>3, <2>4, LootOfBody
<1>2. TypeOK /\ Sound => PartyGetsWholeReleases
  BY <1>1 DEF PartyGetsWholeReleases
<1> QED
  BY <1>2, AlwaysSound, PTL
=============================================================================
