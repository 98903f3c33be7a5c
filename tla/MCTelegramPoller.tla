-------------------------- MODULE MCTelegramPoller --------------------------
(* Small instances of TelegramPoller for TLC. *)
EXTENDS TelegramPoller, TLC
CONSTANTS r1, r2
=============================================================================
