------------------------------ MODULE MCQueryServing ------------------------------
(* Instances of QueryServing for TLC: interchangeable request threads.       *)
EXTENDS QueryServing, TLC

ClientSymmetry == Permutations(Clients)
===================================================================================
