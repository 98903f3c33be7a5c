----------------------------- MODULE MCDelivery -----------------------------
(* Small instances of Delivery for TLC. *)
EXTENDS Delivery, TLC

CONSTANTS h1, h2, c1, c2, c3, d1, d2

TwoStages == <<1, 3>>     \* the last stage outwaits the lease
OneStage  == <<1>>
Interchangeable == Permutations(Handlers) \cup Permutations(Copies)
=============================================================================
