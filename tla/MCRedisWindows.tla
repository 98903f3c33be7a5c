--------------------------- MODULE MCRedisWindows ---------------------------
(* Small instances of RedisWindows for TLC. *)
EXTENDS RedisWindows, TLC
CONSTANTS q1, q2, q3
=============================================================================
