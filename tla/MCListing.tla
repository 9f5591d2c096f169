------------------------------ MODULE MCListing ------------------------------
(***************************************************************************)
(* A small instance of Listing for TLC: two chapters and one encounter, in *)
(* the order of their sort keys, in one campaign.                          *)
(***************************************************************************)
EXTENDS ListingProps

CONSTANTS va, vb, bad

MCKindOf == [i \in {1, 2, 3} |-> IF i = 3 THEN "encounter" ELSE "chapter"]

\* One encounter value does not decode.
MCValues == [n \in Kinds |-> IF n = "chapter" THEN {va, vb} ELSE {va, bad}]

\* The chapters va and vb have one Order and differ by Name.
MCOrder == [v \in Values |-> 0]
MCName  == [v \in Values |-> IF v = vb THEN 1 ELSE 2]
==============================================================================
