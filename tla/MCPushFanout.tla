---------------------------- MODULE MCPushFanout ----------------------------
(* Small instances of PushFanout for TLC. *)
EXTENDS PushFanout, TLC
CONSTANTS d1, d2, u1, u2, h1, h2
=============================================================================
