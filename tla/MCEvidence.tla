------------------------------- MODULE MCEvidence -------------------------------
(***************************************************************************)
(* Day 0 is a Friday; the clock runs from its evening to Monday evening.      *)
(***************************************************************************)
EXTENDS Evidence, TLC

RunSymmetry == Permutations(RunIds) \cup Permutations(Symbols)
=================================================================================
