----------------------------- MODULE MCSessions -----------------------------
(* Small instances of Sessions for TLC.                                     *)
EXTENDS Sessions, TLC
Interchangeable ==
  Permutations(Requests) \cup Permutations(Tokens) \cup Permutations(Logins)
=============================================================================
