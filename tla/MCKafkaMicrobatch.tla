---------------------------- MODULE MCKafkaMicrobatch ----------------------------
(* Instances of KafkaMicrobatch for TLC: two events of two different hours. *)
EXTENDS KafkaMicrobatch

TwoEvents == {"e1", "e2"}
TwoHours == [e \in TwoEvents |-> IF e = "e1" THEN 10 ELSE 11]
==================================================================================
