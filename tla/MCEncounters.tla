---------------------------- MODULE MCEncounters ----------------------------
(***************************************************************************)
(* Small instances of Encounters for TLC: two bodies, one with gaps; what  *)
(* a body would push is the body itself, so that different loot stays      *)
(* different.                                                              *)
(***************************************************************************)
EXTENDS EncounterInvariant, TLC

CONSTANTS full, sparse

MCBodies == {full, sparse}
MCGappy  == {sparse}
MCLoot   == [b \in MCBodies |-> b]

\* What clients send: what changes an encounter, without changes of status.
SentBodies == {r \in Requests : /\ r.op # "get"
                                /\ r.body # Malformed
                                /\ r.status = ""}

\* A hoard with gaps replaces a finished one; releases are forced.
SentForced == {r \in SentBodies : /\ r.op = "create" => r.body = full
                                  /\ r.op = "update" => r.body = sparse
                                  /\ r.op = "release" => r.force}

\* Finished hoards and releases that are not forced.
SentTenants == {r \in SentBodies : ~r.force /\ r.body # sparse}

Callers == Permutations(Users)
Slots   == Permutations(Workers)
=============================================================================
