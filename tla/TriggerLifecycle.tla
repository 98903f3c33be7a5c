-------------------------- MODULE TriggerLifecycle --------------------------
(***************************************************************************)
(* One trigger over time: every Period minutes a cycle reads it            *)
(* (findActive), decides and writes the outcome                            *)
(* (WatcherService.processTrigger and fire, with the transactions of       *)
(* PrismaWatchedTriggerRepository), while its owner edits it               *)
(* (TriggersRepository.update) and its quiet hours                         *)
(* (UsersService.updateProfile), also between the read and the write.      *)
(***************************************************************************)
EXTENDS TriggerDecision

CONSTANTS
  Period,       \* minutes between two polls
  Cooldowns,    \* the cooldownMin values an owner may choose
  Windows,      \* the quiet-hours settings an owner may choose
  ConditionSets,\* the condition lists an owner may choose
  Snapshots,    \* the weather a poll may observe
  MaxEdits      \* how often the owner edits anything

ASSUME LifecycleAssumption ==
  /\ Period \in Nat \ {0} /\ MaxEdits \in Nat
  /\ Cooldowns \subseteq Nat \ {0}
  /\ \E m \in Cooldowns : \A c \in Cooldowns : c <= m      \* API_LIMITS.maxCooldownMin

(* UpdateProfileDto lets only "HH:MM" times of the day through. *)
ASSUME WindowsAssumption ==
  \A w \in Windows : \A v \in w.start \cup w.end :
    v.hh \in 0..(HoursPerDay - 1) /\ v.mm \in 0..(MinutesPerHour - 1)

VARIABLES
  now,        \* minute of the day, UTC
  trigger,    \* the stored trigger; since is the time since its lastFiredAt
  quiet,      \* the owner's quiet-hours settings
  edits,      \* edits so far
  phase,      \* the cycle of this minute: "due", "loaded" or "done"
  read,       \* what that cycle read, {} before findActive and after the write
  replaced,   \* whether the condition rows it read have been replaced since
  decision,   \* history: what the last poll decided
  heard,      \* history: minutes since an alert was last staged
  postponed   \* history: a crossing was suppressed and the condition has held since

vars == <<now, trigger, quiet, edits, phase, read, replaced, decision, heard, postponed>>
cycle == <<phase, read>>
ghosts == <<decision, heard, postponed>>

MaxCooldown == CHOOSE m \in Cooldowns : \A c \in Cooldowns : c <= m
SinceCap    == MaxCooldown + Period     \* longer gaps are not told apart

Age(n) == IF n = Null THEN Null
          ELSE IF n + Period > SinceCap THEN SinceCap ELSE n + Period

Init ==
  /\ now = 0
  /\ trigger \in [state: {"ARMED"}, since: {Null}, cooldown: Cooldowns,
                  conditions: ConditionSets, logic: {"AND", "OR"}, active: {TRUE}]
  /\ quiet \in Windows
  /\ edits = 0
  /\ phase = "due" /\ read = {} /\ replaced = FALSE
  /\ decision = "NOOP" /\ heard = Null /\ postponed = FALSE

(* Re-arming opens the gate before the cooldown is over. *)
MutWritten(t, d) ==
  CASE d = "FIRE"  -> [t EXCEPT !.state = "FIRED", !.since = 0]
    [] d = "REARM" -> [t EXCEPT !.state = "ARMED", !.since = Null]
    [] OTHER       -> t

(* A quiet window swallows the crossing: marked fired without an alert. *)
MutWrittenQuiet(t, d) ==
  CASE d \in {"FIRE", "SUPPRESS_quiet_hours"} -> [t EXCEPT !.state = "FIRED", !.since = 0]
    [] d = "REARM" -> [t EXCEPT !.state = "ARMED"]
    [] OTHER       -> t

(* What recordObservation and commitFire write for each decision. *)
Written(t, d) ==
  CASE d = "FIRE"  -> [t EXCEPT !.state = "FIRED", !.since = 0]
    [] d = "REARM" -> [t EXCEPT !.state = "ARMED"]
    [] OTHER       -> t

Suppressions == {"SUPPRESS_cooldown", "SUPPRESS_quiet_hours"}

(* findActive: an inactive trigger is not polled. *)
FindActive ==
  /\ phase = "due"
  /\ phase' = IF trigger.active THEN "loaded" ELSE "done"
  /\ read' = IF trigger.active THEN {[trigger |-> trigger, quiet |-> quiet]} ELSE {}
  /\ replaced' = FALSE
  /\ UNCHANGED <<now, trigger, quiet, edits, ghosts>>

(* processTrigger decides on what the cycle read and writes to what is     *)
(* stored.  The transaction updates the condition rows by id first: if the *)
(* owner replaced them in between it fails, and nothing is written.        *)
Poll(snapshot) ==
  /\ phase = "loaded"
  /\ \E r \in read :
       LET t == r.trigger
           matched == EvaluateConditions(snapshot, t.conditions, t.logic)
           d == Decide(t.state, t.since, t.cooldown, matched,
                       IsWithinQuietHours(now, r.quiet))
       IN IF replaced
          THEN /\ decision' = "FAILED"
               /\ UNCHANGED <<trigger, heard, postponed>>
          ELSE /\ trigger' = Written(trigger, d)
               /\ decision' = d
               /\ heard' = IF d = "FIRE" THEN 0 ELSE heard
               /\ postponed' = (d \in Suppressions /\ (postponed \/ t.state = "ARMED"))
  /\ phase' = "done"
  /\ read' = {}
  /\ replaced' = FALSE
  /\ UNCHANGED <<now, quiet, edits>>

(* The next cron tick. *)
Advance ==
  /\ phase = "done"
  /\ now' = (now + Period) % DayMinutes
  /\ trigger' = [trigger EXCEPT !.since = Age(@)]
  /\ heard' = Age(heard)
  /\ phase' = "due"
  /\ UNCHANGED <<quiet, edits, read, replaced, decision, postponed>>

(* An edit changes the cooldown, the logic or isActive and may replace the *)
(* whole condition set; it leaves state and lastFiredAt as they are.       *)
UpdateTrigger ==
  /\ edits < MaxEdits
  /\ \E c \in Cooldowns, l \in {"AND", "OR"}, a \in BOOLEAN :
       LET edited == [trigger EXCEPT !.cooldown = c, !.logic = l, !.active = a] IN
       \/ trigger' = edited /\ UNCHANGED replaced
       \/ /\ \E cs \in ConditionSets : trigger' = [edited EXCEPT !.conditions = cs]
          /\ replaced' = (phase = "loaded")
  /\ edits' = edits + 1
  /\ UNCHANGED <<now, quiet, cycle, ghosts>>

UpdateProfile ==
  /\ edits < MaxEdits
  /\ quiet' \in Windows
  /\ edits' = edits + 1
  /\ UNCHANGED <<now, trigger, cycle, replaced, ghosts>>

Next ==
  \/ FindActive
  \/ \E s \in Snapshots : Poll(s)
  \/ Advance
  \/ UpdateTrigger
  \/ UpdateProfile

Spec == Init /\ [][Next]_vars

(* The cron keeps polling, and a cycle that began goes on. *)
FairSpec ==
  /\ Spec
  /\ WF_vars(Advance)
  /\ WF_vars(FindActive)
  /\ WF_vars(\E s \in Snapshots : Poll(s))

----------------------------------------------------------------------------
(* Properties *)

(* Every variable keeps its type; the stored state is one of the enum's.   *)
TypeOK ==
  /\ now \in 0..(DayMinutes - 1)
  /\ trigger.state \in {"ARMED", "FIRED"}
  /\ trigger.since \in Null..SinceCap
  /\ trigger.cooldown \in Cooldowns
  /\ trigger.active \in BOOLEAN
  /\ quiet \in Windows
  /\ edits \in 0..MaxEdits
  /\ phase \in {"due", "loaded", "done"}
  /\ replaced \in BOOLEAN
  /\ decision \in Decisions \cup {"FAILED"}
  /\ heard \in Null..SinceCap
  /\ postponed \in BOOLEAN

(* An alert is staged for r, the trigger as the cycle read it. *)
Fires(r) == phase = "loaded" /\ phase' = "done" /\ decision' = "FIRE" /\ r \in read

(* However the condition flaps, re-arms and is edited, an alert is staged  *)
(* only when the cooldown the cycle read has passed since the last one.    *)
OneAlertPerCooldown ==
  [][\A r \in read :
       Fires(r) => heard = Null \/ heard >= r.trigger.cooldown]_vars

(* The minutes a quiet window covers, walked from its start to its end on  *)
(* the owner's clock.                                                      *)
Arc(start, end) == {(start + k) % DayMinutes : k \in 0..(((end - start) % DayMinutes) - 1)}

(* No alert is staged in a minute of the quiet window the cycle read,      *)
(* whichever way it wraps past midnight and whatever zone it is read in.   *)
SilentInQuietHours ==
  [][\A r \in read : Fires(r) =>
       \A s \in r.quiet.start, e \in r.quiet.end :
         LocalMinutes(now, r.quiet.zone) \notin Arc(ParseHHMM(s), ParseHHMM(e))]_vars

(* A window whose free part a poll cannot jump over. *)
LeavesRoom(w) ==
  \A s \in w.start, e \in w.end :
    (ParseHHMM(s) - ParseHHMM(e)) % DayMinutes \in {0} \cup Period..DayMinutes

(* "Stay ARMED through the quiet window so it can still fire once the      *)
(* window passes and the conditions still hold" (decide): a crossing that  *)
(* the cooldown or a quiet window suppressed is postponed, not forgotten.  *)
(* Its alert is staged, unless a poll finds that the condition no longer   *)
(* holds, the owner switches the trigger off or leaves no room for a poll. *)
SuppressedCrossingAlerts ==
  postponed ~> (~postponed \/ ~trigger.active \/ ~LeavesRoom(quiet))

(* "The state machine asks whether this is a new crossing: a trigger fires *)
(* when the condition first becomes true, and re-arms once it clears"      *)
(* (README): an alert is staged only for a trigger that is armed.          *)
FiresOnNewCrossing ==
  [][\A r \in read : Fires(r) => r.trigger.state = "ARMED"]_vars
=============================================================================
