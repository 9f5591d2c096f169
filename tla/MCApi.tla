------------------------------- MODULE MCApi --------------------------------
(***************************************************************************)
(* A small instance of Api for TLC: a key that is rotated, a token signed  *)
(* with each, one that expires, one of a player, one of another client,    *)
(* one of another issuer, and one signed with a key nobody ever published. *)
(***************************************************************************)
EXTENDS ApiProps

CONSTANTS c1, c2, k1, k2, forged, gm, player

Token(key, sub, exp) ==
  [key |-> key, iss |-> "ours", aud |-> "ours", sub |-> sub, exp |-> exp]

Old       == Token(k1, gm, 1)
New       == Token(k2, gm, Horizon + Skew)
OfPlayer  == Token(k1, player, Horizon + Skew)
Forged    == Token(forged, gm, Horizon + Skew)
OtherAud  == [Old EXCEPT !.aud = "other"]
OtherIss  == [Old EXCEPT !.iss = "other"]

MCTokens == {Old, New, OfPlayer, Forged, OtherAud, OtherIss}

\* The one's player is the other's GM.
MCGMs == {<<gm, c1>>, <<player, c2>>}

\* The level alone, the size alone, a level of zero.
Level  == [party_level |-> 5, party_size |-> None]
Size   == [party_level |-> None, party_size |-> 4]
Zero   == [party_level |-> 0, party_size |-> None]
MCInputs == {Level, Size, Zero}

\* Each token in either header, a few in both; none at all.
MCSent ==
  {r \in Requests :
     /\ r.op = "health" => r.authorization = None /\ r.x_access_token = None
     /\ r.op \in {"health", "me"} => r.camp = c1
     /\ r.op = "me" => r.x_access_token = None
     /\ r.op \in {"getSettings", "putSettings"} =>
          /\ r.authorization \in {None, Old, OfPlayer}
          /\ r.authorization # None => r.x_access_token \in {None, Forged}
     /\ r.op = "getSettings" => r.camp = c1 /\ r.x_access_token \in {None, New}
     /\ r.camp = c2 => r.body = Level}
=============================================================================
