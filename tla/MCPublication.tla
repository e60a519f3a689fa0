------------------------------ MODULE MCPublication ------------------------------
(***************************************************************************)
(* Two datasets and two marts: mart_security_daily reads prices and is       *)
(* reconciled with its view, mart_pipeline_dataset_health reads everything. *)
(* News ticks twice a day, publication once, prices have no input.           *)
(***************************************************************************)
EXTENDS Publication

TwoDatasets == {"prices", "news"}
TwoMarts == {"security_daily", "dataset_health"}
ReadsOfTwo == [m \in TwoMarts |-> IF m = "security_daily" THEN {"prices"} ELSE TwoDatasets]
UpToTwoPrices == [d \in TwoDatasets |-> IF d = "prices" THEN 2 ELSE 1]
TwoTicks == {1, 2}
NewsTwiceADay ==
    [s \in {"prices", "news", "publish"} |->
        CASE s = "news" -> {1, 2} [] s = "prices" -> {1} [] OTHER -> {2}]
==================================================================================
