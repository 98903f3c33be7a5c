---------------------------- MODULE MCOutboxRelay ----------------------------
(* Small instances of OutboxRelay for TLC. *)
EXTENDS OutboxRelay, TLC
CONSTANTS r1, r2, p1, p2
=============================================================================
