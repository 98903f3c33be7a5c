------------------------- MODULE MCTriggerLifecycle -------------------------
(* A four-hour day of two-minute hours, polled every minute or every other. *)
EXTENDS TriggerLifecycle

Bound(h, m) == {[hh |-> h, mm |-> m]}
Window(s, e, z) == [start |-> s, end |-> e, zone |-> z]

Zones == [utc |-> 0, east |-> 3, west |-> -1]

(* None, a plain one, one past midnight, empty, one in no zone, and one    *)
(* that leaves a single minute.                                            *)
AllWindows ==
  {Window({}, Bound(1, 0), "utc"),
   Window(Bound(1, 0), Bound(2, 1), "east"),
   Window(Bound(3, 0), Bound(1, 0), "west"),
   Window(Bound(2, 0), Bound(2, 0), "utc"),
   Window(Bound(3, 1), Bound(0, 1), "nowhere"),
   Window(Bound(1, 1), Bound(1, 0), "utc")}

Cond(m, o, t) == [metric |-> m, operator |-> o, threshold |-> t]

(* Values in half degrees, so that the tolerance of EQ is one. *)
AllConditions ==
  {<<Cond("TEMPERATURE", "GT", 4)>>,
   <<Cond("TEMPERATURE", "LTE", 2), Cond("SEVERE", "EQ", 0)>>,
   <<Cond("TEMPERATURE", "EQ", 5), Cond("TEMPERATURE", "GTE", 6), Cond("TEMPERATURE", "LT", 9)>>}

Weather == {[TEMPERATURE |-> t, SEVERE |-> c] : t \in {2, 4, 6}, c \in {3, 95}}
=============================================================================
