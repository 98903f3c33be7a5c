--------------------------- MODULE TriggerDecision ---------------------------
(***************************************************************************)
(* The pure core of libs/domain: evaluating a trigger's conditions against *)
(* a weather snapshot, the quiet-hours window, and decide, the transition  *)
(* function of the trigger state machine.                                  *)
(***************************************************************************)
EXTENDS Integers, Sequences

CONSTANTS
  HoursPerDay, MinutesPerHour,   \* 24 and 60; smaller in an instance
  ZoneOffset,                    \* minutes east of UTC of the zones Intl knows
  SevereCodes,                   \* SEVERE_WEATHER_CODES
  EqTolerance                    \* EQ_TOLERANCE, in the unit of the values

ASSUME DecisionAssumption ==
  /\ HoursPerDay \in Nat \ {0} /\ MinutesPerHour \in Nat \ {0}
  /\ \A z \in DOMAIN ZoneOffset : ZoneOffset[z] \in Int
  /\ EqTolerance \in Nat

Null == -1                       \* a null or unparseable number
DayMinutes == HoursPerDay * MinutesPerHour

----------------------------------------------------------------------------
(* weather/condition-evaluator.ts *)

Abs(n) == IF n < 0 THEN -n ELSE n

Compare(value, operator, threshold) ==
  CASE operator = "GT"  -> value > threshold
    [] operator = "GTE" -> value >= threshold
    [] operator = "LT"  -> value < threshold
    [] operator = "LTE" -> value <= threshold
    [] operator = "EQ"  -> Abs(value - threshold) <= EqTolerance

(* SEVERE looks at the weather code and ignores operator and threshold. *)
EvaluateCondition(snapshot, c) ==
  IF c.metric = "SEVERE" THEN snapshot.SEVERE \in SevereCodes
  ELSE Compare(snapshot[c.metric], c.operator, c.threshold)

EvaluateConditions(snapshot, conditions, logic) ==
  LET matched(i) == EvaluateCondition(snapshot, conditions[i]) IN
  /\ conditions # <<>>
  /\ IF logic = "OR" THEN \E i \in DOMAIN conditions : matched(i)
                     ELSE \A i \in DOMAIN conditions : matched(i)

----------------------------------------------------------------------------
(* quiet-hours.ts: a bound is an "HH:MM" string, read as its two numbers *)

ParseHHMM(v) ==
  IF v.hh >= HoursPerDay \/ v.mm >= MinutesPerHour THEN Null
  ELSE v.hh * MinutesPerHour + v.mm

(* A zone Intl does not know falls back to UTC. *)
LocalMinutes(now, zone) ==
  IF zone \in DOMAIN ZoneOffset THEN (now + ZoneOffset[zone]) % DayMinutes ELSE now

(* Forgets that a window may wrap past midnight. *)
MutIsWithinQuietHours(now, window) ==
  \E s \in window.start, e \in window.end :
    LET start == ParseHHMM(s)
        end   == ParseHHMM(e)
        local == LocalMinutes(now, window.zone)
    IN start # Null /\ end # Null /\ start # end /\ local >= start /\ local < end

(* A bound is a set: empty when it is null, else the one string it holds. *)
IsWithinQuietHours(now, window) ==
  \E s \in window.start, e \in window.end :
    LET start == ParseHHMM(s)
        end   == ParseHHMM(e)
        local == LocalMinutes(now, window.zone)
    IN /\ start # Null /\ end # Null /\ start # end
       /\ IF start < end THEN local >= start /\ local < end
                         ELSE local >= start \/ local < end

----------------------------------------------------------------------------
(* trigger-state-machine.ts *)

(* since is the time since lastFiredAt, Null when the trigger never fired. *)
IsCooldownElapsed(since, cooldown) == since = Null \/ since >= cooldown

Decide(state, since, cooldown, matched, quiet) ==
  IF ~matched THEN IF state = "FIRED" THEN "REARM" ELSE "NOOP"
  ELSE IF ~IsCooldownElapsed(since, cooldown) THEN "SUPPRESS_cooldown"
  ELSE IF quiet THEN "SUPPRESS_quiet_hours"
  ELSE "FIRE"

Decisions == {"REARM", "NOOP", "SUPPRESS_cooldown", "SUPPRESS_quiet_hours", "FIRE"}
=============================================================================
