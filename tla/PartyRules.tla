----------------------------- MODULE PartyRules -----------------------------
(***************************************************************************)
(* The expected party of an encounter, a chapter or a campaign: its level  *)
(* and its size.  None means "inherit from the level above".               *)
(***************************************************************************)
EXTENDS Nothing, Integers

ValidParty(level, size) ==
  /\ level # None => level \in 1 .. 20
  /\ size # None => size >= 1
=============================================================================
