----------------------------- MODULE MCAccounts -----------------------------
(* Small instances of Accounts for TLC. *)
EXTENDS Accounts, TLC
CONSTANTS a1, a2, a3, q1, q2, t1, t2, t3, c1, c2, c3

HashOf == [p \in Lats \X Lons |-> 7 * p[1] + 4 * p[2]]
=============================================================================
