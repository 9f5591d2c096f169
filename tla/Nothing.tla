------------------------------ MODULE Nothing -------------------------------
(***************************************************************************)
(* The value that stands for a missing one: no item under a key, a nil     *)
(* pointer, no request, no answer.                                         *)
(***************************************************************************)
CONSTANT None
=============================================================================
