----------------------------- MODULE MCChapters -----------------------------
(***************************************************************************)
(* Small instances of Chapters for TLC.  Two layouts tell a kept layout    *)
(* from a replaced one; the default order and another one do the same for  *)
(* the order.                                                              *)
(***************************************************************************)
EXTENDS ChapterProps, TLC

CONSTANTS n1, n2, p1, m1, m2

Body(name, order, party, map) ==
  [name |-> name, order |-> order, party |-> party, map |-> map]

\* The sidebar's rename, the map's drag-save, and a form that sends it all.
Rename  == Body(n2, Omitted, None, Omitted)
Drag(m) == Body(n1, Omitted, p1, m)
Form    == Body(n1, 7, p1, m1)

MCBodies == {Rename, Drag(m2), Form, Malformed}
MCMoves  == {Rename, Drag(m1), Drag(m2)}

Slots == Permutations(Workers)
=============================================================================
