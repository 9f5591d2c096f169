------------------------------ MODULE Release -------------------------------
(***************************************************************************)
(* Encounters over real content: the bodies are content lists as a save    *)
(* stores them, the gate is IncompleteContent and the loot is what         *)
(* ReleasePayloadFromEncounter extracts.                                   *)
(***************************************************************************)
EXTENDS EncounterProps, Hoard

CONSTANT Contents      \* the content lists the clients send

RealBodies == {Saved(rows) : rows \in {r \in Contents : Valid(r)}}
RealGappy  == {rows \in RealBodies : IncompleteContent(rows) # << >>}
RealLoot   == [rows \in RealBodies |->
                 [items |-> PayloadItems(rows), coins |-> PayloadCoins(rows)]]

ASSUME ContentsAssumption == Contents \subseteq Seq(Row)
ASSUME RealAssumption ==
  Bodies = RealBodies /\ Gappy = RealGappy /\ Loot = RealLoot

\* What the party is sent is the loot of one stored release under that key:
\* all its intact lines, in their order and with their quantities, if it was
\* not forced, and in any case the sum of its coins, as far as it is a Go int
\* (encounters.go:197-227, client.go:58-93).
PartyGetsWholeReleases ==
  \A k \in Key : \A loot \in party[k] : \E d \in ReleasedVersions(k) :
    /\ \A c \in Coins : 2 * Total(d.body, c) < Word
                          => loot.coins[c] = Total(d.body, c)
    /\ d.forced \/ loot.items = LootOf(d.body)
=============================================================================
