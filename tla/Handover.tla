------------------------------ MODULE Handover ------------------------------
(***************************************************************************)
(* What the transactional outbox promises, whatever carries it out: an     *)
(* item that is owed stays owed until the receiver has it, may be given    *)
(* more than once, is closed only after it was given, and is given         *)
(* eventually.                                                             *)
(***************************************************************************)
CONSTANT Items

VARIABLES
  owed,    \* committed and not known to be with the receiver
  given,   \* what the receiver has
  closed   \* what will not be given again

hvars == <<owed, given, closed>>

Init == owed = {} /\ given = {} /\ closed = {}

Owe(i) ==
  /\ i \notin owed \cup closed
  /\ owed' = owed \cup {i}
  /\ UNCHANGED <<given, closed>>

Give(i) ==
  /\ i \in owed
  /\ given' = given \cup {i}
  /\ UNCHANGED <<owed, closed>>

Close(S) ==
  /\ S \subseteq owed \cap given
  /\ owed' = owed \ S
  /\ closed' = closed \cup S
  /\ UNCHANGED given

Next ==
  \/ \E i \in Items : Owe(i) \/ Give(i)
  \/ \E S \in SUBSET Items : Close(S)

Safe == Init /\ [][Next]_hvars

Spec == Safe /\ \A i \in Items : i \in owed ~> i \in given
=============================================================================
