----------------------------- MODULE MCPipeline -----------------------------
(* A small instance of Pipeline for TLC. *)
EXTENDS Pipeline, TLC

CONSTANTS a1, p1, p2, h1, h2, c1, c2, c3, c4

OneStage == <<2>>     \* outwaits the lease
=============================================================================
