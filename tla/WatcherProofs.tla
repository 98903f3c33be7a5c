---------------------------- MODULE WatcherProofs ----------------------------
(***************************************************************************)
(* The watcher's proofs.  Many triggers in concurrent runs (WatcherCycle): *)
(* mutual exclusion of the poll cycles of one shard, and the cooldown, for *)
(* every number of runs, workers, triggers and locations and any faults.   *)
(* Then one trigger over time (TriggerLifecycle): the cooldown between its *)
(* alerts and the quiet hours, for every period, window, zone and edit.    *)
(***************************************************************************)
EXTENDS WatcherCycle, TLAPS

(* What the lock leaves for the reading of the triggers, one interval of   *)
(* the renewal timer and the location that was begun last.                 *)
LockOutlasts == FindBound + RenewEvery + GroupBound < LockTTL

Busy(m) == m.pc \in {"fetch", "process"}

(* A run holds the lock while it reads and while it polls: through the     *)
(* next beat of the timer as long as it has not lost it, and to the end of *)
(* every location begun. Workers outlive their run only as orphans.        *)
Holds(r) ==
  /\ run[r].pc = "find" =>
       ~Working(r) /\ lock.by = r /\ lock.left + run[r].age >= LockTTL
  /\ run[r].pc = "poll" /\ run[r].held =>
       lock.by = r /\ lock.left + FindBound + RenewEvery >= LockTTL + run[r].timer
  /\ run[r].pc = "poll" =>
       \A w \in Workers : /\ worker[r][w].pc # "off" => lock.by = r
                          /\ Busy(worker[r][w]) => lock.left + worker[r][w].age > GroupBound
  /\ Working(r) /\ run[r].pc # "poll" => orphaned

(* A location is queued for a trigger that was found, and a trigger is     *)
(* left to one worker or waits in the queue, never both.                   *)
Divided(r) ==
  /\ \A l \in run[r].queue : \E t \in Triggers : LocationOf[t] = l /\ read[r][t].found
  /\ \A w \in Workers : \A t \in worker[r][w].todo :
       /\ LocationOf[t] \notin run[r].queue
       /\ \A v \in Workers \ {w} : t \notin worker[r][v].todo

Pending(r, t) ==
  \/ LocationOf[t] \in run[r].queue /\ read[r][t].found
  \/ \E w \in Workers : t \in worker[r][w].todo

(* What a run read of a trigger it has yet to process is still so. *)
Agrees(r) ==
  ~orphaned /\ Working(r) =>
    \A t \in Triggers : Pending(r, t) => read[r][t].since = trigger[t].since

RunOK(r) == Holds(r) /\ Divided(r) /\ Agrees(r)

CycleInv == TypeOK /\ \A r \in Runs : RunOK(r)

----------------------------------------------------------------------------
(* Runs and workers that move *)

LEMMA Numbers ==
  /\ LockTTL \in Nat \ {0} /\ RenewEvery \in Nat \ {0} /\ FindBound \in Nat /\ GroupBound \in Nat
  /\ Cooldown \in Nat \ {0} /\ MaxFaults \in Nat /\ LocationOf \in [Triggers -> Locations]
  BY CycleAssumption

LEMMA RowsOf ==
  ASSUME TypeOK, NEW r \in Runs
  PROVE  /\ run[r] \in RunRecord /\ worker[r] \in [Workers -> WorkerRecord]
         /\ \A w \in Workers : worker[r][w] \in WorkerRecord
         /\ read[r] \in [Triggers -> ReadRecord]
  BY DEF TypeOK

LEMMA OffOK == Off \in WorkerRecord /\ Off.pc = "off" /\ Off.todo = {} /\ Off.age = 0
  BY Numbers DEF Off, WorkerRecord

(* A worker that stands in its loop or has returned. *)
LEMMA AtOK ==
  ASSUME NEW pc \in {"off", "loop"}, NEW new, new = [Off EXCEPT !.pc = pc]
  PROVE  new \in WorkerRecord /\ new.pc = pc /\ new.todo = {} /\ new.age = 0
  BY Numbers DEF Off, WorkerRecord

LEMMA IdleRunOK ==
  ASSUME NEW pc \in {"idle", "find"}, NEW new, new = [IdleRun EXCEPT !.pc = pc]
  PROVE  new \in RunRecord /\ new.pc = pc /\ new.queue = {} /\ new.age = 0
<1>1. IdleRun \in RunRecord
  BY Numbers DEF IdleRun, RunRecord
<1>2. new \in RunRecord
  BY <1>1, Zenon DEF RunRecord
<1>3. QED
  BY <1>1, <1>2 DEF IdleRun, RunRecord

LEMMA RunMoves ==
  ASSUME TypeOK, NEW r \in Runs, NEW new \in RunRecord, run' = [run EXCEPT ![r] = new]
  PROVE  /\ run' \in [Runs -> RunRecord] /\ run'[r] = new
         /\ \A s \in Runs \ {r} : run'[s] = run[s]
  BY DEF TypeOK

(* Goto keeps what the run holds and has queued. *)
LEMMA GotoOK ==
  ASSUME TypeOK, NEW r \in Runs, NEW pc \in {"idle", "release"}, Goto(r, pc)
  PROVE  /\ run' \in [Runs -> RunRecord] /\ \A s \in Runs \ {r} : run'[s] = run[s]
         /\ run'[r].pc = pc /\ run'[r].queue = run[r].queue
<1>1. PICK m \in RunRecord : m = run[r]
  BY RowsOf
<1>2. PICK new : new = [m EXCEPT !.pc = pc, !.timer = 0, !.age = 0]
  OBVIOUS
<1>3. run' = [run EXCEPT ![r] = new]
  BY <1>1, <1>2 DEF Goto, TypeOK
<1>4. 0 \in 0..RenewEvery /\ 0 \in 0..FindBound
  BY Numbers
<1>5. new \in RunRecord
  BY <1>2, <1>4, Zenon DEF RunRecord
<1>6. new.pc = pc /\ new.queue = m.queue
  BY <1>2 DEF RunRecord
<1>7. QED
  BY <1>1, <1>3, <1>5, <1>6, RunMoves

LEMMA WorkersMove ==
  ASSUME TypeOK, NEW r \in Runs, NEW ws \in [Workers -> WorkerRecord],
         worker' = [worker EXCEPT ![r] = ws]
  PROVE  /\ worker' \in [Runs -> [Workers -> WorkerRecord]] /\ worker'[r] = ws
         /\ \A s \in Runs \ {r} : worker'[s] = worker[s]
  BY DEF TypeOK

LEMMA WorkerMoves ==
  ASSUME TypeOK, NEW r \in Runs, NEW w \in Workers, NEW new \in WorkerRecord,
         worker' = [worker EXCEPT ![r][w] = new]
  PROVE  /\ worker' \in [Runs -> [Workers -> WorkerRecord]]
         /\ \A s \in Runs \ {r} : worker'[s] = worker[s]
         /\ worker'[r][w] = new /\ \A v \in Workers \ {w} : worker'[r][v] = worker[r][v]
  BY DEF TypeOK

LEMMA WorkerGotoOK ==
  ASSUME TypeOK, NEW r \in Runs, NEW w \in Workers, NEW pc \in {"off", "loop"},
         WorkerGoto(r, w, pc)
  PROVE  /\ worker' \in [Runs -> [Workers -> WorkerRecord]]
         /\ \A s \in Runs \ {r} : worker'[s] = worker[s]
         /\ worker'[r][w].pc = pc /\ worker'[r][w].todo = {}
         /\ \A v \in Workers \ {w} : worker'[r][v] = worker[r][v]
<1>1. PICK new : new = [Off EXCEPT !.pc = pc]
  OBVIOUS
<1>2. new \in WorkerRecord /\ new.pc = pc /\ new.todo = {}
  BY <1>1, AtOK
<1>3. worker' = [worker EXCEPT ![r][w] = new]
  BY <1>1 DEF WorkerGoto
<1>4. QED
  BY <1>2, <1>3, WorkerMoves

LEMMA BusyRows ==
  ASSUME TypeOK, NEW r \in Runs, \A s \in Runs \ {r} : worker'[s] = worker[s],
         \A w \in Workers :
           worker'[r][w].pc \in {"fetch", "process"} <=> worker'[r][w].todo # {}
  PROVE  \A s \in Runs, w \in Workers :
           worker'[s][w].pc \in {"fetch", "process"} <=> worker'[s][w].todo # {}
<1>1. SUFFICES ASSUME NEW s \in Runs, NEW w \in Workers
               PROVE  worker'[s][w].pc \in {"fetch", "process"} <=> worker'[s][w].todo # {}
  OBVIOUS
<1>2. CASE s = r
  BY <1>2
<1>3. CASE s # r
  <2>1. worker'[s] = worker[s]
    BY <1>3
  <2>2. worker[s][w].pc \in {"fetch", "process"} <=> worker[s][w].todo # {}
    BY DEF TypeOK
  <2>3. QED
    BY <2>1, <2>2
<1>4. QED
  BY <1>2, <1>3

LEMMA BusyRow ==
  ASSUME TypeOK, NEW r \in Runs, NEW w \in Workers,
         \A v \in Workers \ {w} : worker'[r][v] = worker[r][v],
         worker'[r][w].pc \in {"fetch", "process"} <=> worker'[r][w].todo # {}
  PROVE  \A v \in Workers :
           worker'[r][v].pc \in {"fetch", "process"} <=> worker'[r][v].todo # {}
<1>1. SUFFICES ASSUME NEW v \in Workers
               PROVE  worker'[r][v].pc \in {"fetch", "process"} <=> worker'[r][v].todo # {}
  OBVIOUS
<1>2. CASE v = w
  BY <1>2
<1>3. CASE v # w
  <2>1. worker'[r][v] = worker[r][v]
    BY <1>3
  <2>2. worker[r][v].pc \in {"fetch", "process"} <=> worker[r][v].todo # {}
    BY DEF TypeOK
  <2>3. QED
    BY <2>1, <2>2
<1>4. QED
  BY <1>2, <1>3

(* A run that does not move keeps what it has, while it keeps the lock and *)
(* nobody fires what it is to process.                                     *)
LEMMA OthersKeep ==
  ASSUME TypeOK, NEW s \in Runs, RunOK(s),
         run'[s] = run[s], worker'[s] = worker[s], read'[s] = read[s],
         lock.by = s => lock'.by = s /\ lock'.left >= lock.left,
         lock.left \in Nat, lock'.left \in Nat, orphaned => orphaned',
         ~orphaned' /\ Working(s) => \A t \in Triggers : trigger'[t].since = trigger[t].since
  PROVE  RunOK(s)'
<1>1. Working(s)' = Working(s)
  BY DEF Working
<1>2. Holds(s)'
  <2>1. /\ run[s].age \in Nat /\ run[s].timer \in Nat
        /\ \A w \in Workers : worker[s][w].age \in Nat
    BY RowsOf, Numbers DEF RunRecord, WorkerRecord
  <2>2. QED
    BY <1>1, <2>1, Numbers DEF RunOK, Holds, Busy
<1>3. Divided(s)'
  BY DEF RunOK, Divided
<1>4. Agrees(s)'
  BY <1>1 DEF RunOK, Agrees, Pending
<1>5. QED
  BY <1>2, <1>3, <1>4 DEF RunOK

LEMMA LockOK ==
  ASSUME TypeOK
  PROVE  /\ lock.by \in Runs \cup {None} /\ lock.left \in Nat /\ lock.left <= LockTTL
         /\ FreeLock \in [by: Runs \cup {None}, left: 0..LockTTL]
         /\ FreeLock.by = None /\ FreeLock.left = 0
  BY Numbers DEF TypeOK, FreeLock

LEMMA FaultOK ==
  ASSUME TypeOK, NEW kind, Fault(kind)
  PROVE  faults' \in 0..MaxFaults
  BY Numbers DEF TypeOK, Fault

(* Of the runs whose workers are at work, and not orphaned, one at most.   *)
LEMMA OneWorks ==
  ASSUME CycleInv, ~orphaned, NEW r \in Runs, NEW s \in Runs, Working(r), Working(s)
  PROVE  r = s
  BY DEF CycleInv, RunOK, Holds, Working

(* Nothing is left for a worker that is off. *)
LEMMA OffIdles ==
  ASSUME TypeOK, NEW r \in Runs, ~Working(r)
  PROVE  \A w \in Workers : worker[r][w].pc = "off" /\ worker[r][w].todo = {}
  BY DEF TypeOK, Working

----------------------------------------------------------------------------
(* The steps of a run *)

LEMMA AcquireKeeps ==
  ASSUME CycleInv, NEW r \in Runs, Acquire(r)
  PROVE  CycleInv'
<1>1. TypeOK /\ \A s \in Runs : RunOK(s)
  BY DEF CycleInv
<1>2. /\ ~Working(r) /\ lock.by = None /\ lock' = [by |-> r, left |-> LockTTL]
      /\ UNCHANGED <<read, worker, trigger, faults, orphaned>>
  BY DEF Acquire
<1>3. PICK new : new = [IdleRun EXCEPT !.pc = "find"] /\ run' = [run EXCEPT ![r] = new]
  BY DEF Acquire
<1>4. new \in RunRecord /\ new.pc = "find" /\ new.queue = {} /\ new.age = 0
  BY <1>3, IdleRunOK
<1>5. /\ run' \in [Runs -> RunRecord] /\ run'[r] = new
      /\ \A s \in Runs \ {r} : run'[s] = run[s]
  BY <1>1, <1>3, <1>4, RunMoves
<1>6. lock' \in [by: Runs \cup {None}, left: 0..LockTTL] /\ lock'.by = r /\ lock'.left = LockTTL
  BY <1>2, Numbers
<1>7. TypeOK'
  BY <1>1, <1>2, <1>5, <1>6 DEF TypeOK
<1>8. ASSUME NEW s \in Runs \ {r} PROVE RunOK(s)'
  <2>1. lock.by # s /\ lock.left \in Nat /\ lock'.left \in Nat
    BY <1>1, <1>2, <1>6, LockOK, Numbers, CycleAssumption
  <2>2. QED
    BY <1>1, <1>2, <1>5, <2>1, OthersKeep
<1>9. RunOK(r)'
  <2>1. ~Working(r)' /\ \A w \in Workers : worker'[r][w].todo = {}
    BY <1>1, <1>2, OffIdles DEF Working
  <2>2. Holds(r)'
    BY <1>4, <1>5, <1>6, <2>1, Numbers DEF Holds
  <2>3. Divided(r)' /\ Agrees(r)'
    BY <1>4, <1>5, <2>1 DEF Divided, Agrees
  <2>4. QED
    BY <2>2, <2>3 DEF RunOK
<1>10. QED
  BY <1>7, <1>8, <1>9 DEF CycleInv

(* A run that ends, or goes on to release the lock. *)
LEMMA LeavesKeeps ==
  ASSUME CycleInv, NEW r \in Runs, NEW pc \in {"idle", "release"}, Goto(r, pc),
         Working(r) => orphaned, UNCHANGED <<read, worker, trigger, orphaned>>,
         faults' \in 0..MaxFaults, lock' \in [by: Runs \cup {None}, left: 0..LockTTL],
         \A s \in Runs \ {r} : lock.by = s => lock' = lock
  PROVE  CycleInv'
<1>1. TypeOK /\ \A s \in Runs : RunOK(s)
  BY DEF CycleInv
<1>2. /\ run' \in [Runs -> RunRecord] /\ \A s \in Runs \ {r} : run'[s] = run[s]
      /\ run'[r].pc = pc /\ run'[r].queue = run[r].queue
  BY <1>1, GotoOK
<1>3. TypeOK'
  BY <1>1, <1>2 DEF TypeOK
<1>4. ASSUME NEW s \in Runs \ {r} PROVE RunOK(s)'
  <2>1. lock.left \in Nat /\ lock'.left \in Nat
    BY <1>1, LockOK, Numbers
  <2>2. QED
    BY <1>1, <1>2, <2>1, OthersKeep
<1>5. RunOK(r)'
  <2>1. Working(r)' = Working(r)
    BY DEF Working
  <2>2. Holds(r)' /\ Agrees(r)'
    BY <1>2, <2>1 DEF Holds, Agrees
  <2>3. Divided(r)'
    BY <1>1, <1>2 DEF RunOK, Divided
  <2>4. QED
    BY <2>2, <2>3 DEF RunOK
<1>6. QED
  BY <1>3, <1>4, <1>5 DEF CycleInv

LEMMA ReleaseKeeps ==
  ASSUME CycleInv, NEW r \in Runs,
         Release(r) \/ ReleaseFails(r) \/ FindFails(r) \/ Finish(r)
  PROVE  CycleInv'
<1>1. TypeOK /\ Holds(r) /\ faults \in 0..MaxFaults
  BY DEF CycleInv, RunOK, TypeOK
<1>2. Working(r) => orphaned
  BY <1>1 DEF Holds, Release, ReleaseFails, FindFails, Finish
<1>3. faults' \in 0..MaxFaults
  BY <1>1, FaultOK DEF Release, ReleaseFails, FindFails, Finish
<1>4. UNCHANGED <<read, worker, trigger, orphaned>>
  BY DEF Release, ReleaseFails, FindFails, Finish
<1>5. lock' = lock \/ lock' = Released(r)
  BY DEF Release, ReleaseFails, FindFails, Finish
<1>6. /\ lock' \in [by: Runs \cup {None}, left: 0..LockTTL]
      /\ \A s \in Runs \ {r} : lock.by = s => lock' = lock
  BY <1>1, <1>5, LockOK DEF Released, TypeOK
<1>7. Goto(r, "idle") \/ Goto(r, "release")
  BY DEF Release, ReleaseFails, FindFails, Finish
<1>8. QED
  BY <1>2, <1>3, <1>4, <1>6, <1>7, LeavesKeeps

LEMMA CrashKeeps ==
  ASSUME CycleInv, NEW r \in Runs, Crash(r)
  PROVE  CycleInv'
<1>1. TypeOK /\ \A s \in Runs : RunOK(s)
  BY DEF CycleInv
<1>2. Goto(r, "idle") /\ UNCHANGED <<lock, read, trigger, orphaned>>
  BY DEF Crash
<1>3. /\ run' \in [Runs -> RunRecord] /\ \A s \in Runs \ {r} : run'[s] = run[s]
      /\ run'[r].pc = "idle" /\ run'[r].queue = run[r].queue
  BY <1>1, <1>2, GotoOK
<1>4. PICK ws \in [Workers -> WorkerRecord] :
        ws = NoWorkers /\ \A w \in Workers : ws[w].pc = "off" /\ ws[w].todo = {}
  <2>1. PICK o : o = Off /\ o \in WorkerRecord /\ o.pc = "off" /\ o.todo = {}
    BY OffOK
  <2>2. NoWorkers = [w \in Workers |-> o]
    BY <2>1 DEF NoWorkers
  <2>3. QED
    BY <2>1, <2>2
<1>5. /\ worker' \in [Runs -> [Workers -> WorkerRecord]] /\ worker'[r] = ws
      /\ \A s \in Runs \ {r} : worker'[s] = worker[s]
  BY <1>1, <1>4, WorkersMove DEF Crash
<1>6. TypeOK'
  <2>1. \A s \in Runs, w \in Workers :
          worker'[s][w].pc \in {"fetch", "process"} <=> worker'[s][w].todo # {}
    BY <1>1, <1>4, <1>5 DEF TypeOK
  <2>2. faults' \in 0..MaxFaults
    BY <1>1, FaultOK DEF Crash
  <2>3. QED
    BY <1>1, <1>2, <1>3, <1>5, <2>1, <2>2 DEF TypeOK
<1>7. ASSUME NEW s \in Runs \ {r} PROVE RunOK(s)'
  <2>1. lock.left \in Nat /\ lock'.left \in Nat /\ lock'.left >= lock.left
    BY <1>1, <1>2, LockOK
  <2>2. QED
    BY <1>1, <1>2, <1>3, <1>5, <2>1, OthersKeep
<1>8. RunOK(r)'
  <2>1. ~Working(r)'
    BY <1>4, <1>5 DEF Working
  <2>2. Holds(r)' /\ Agrees(r)'
    BY <1>3, <2>1 DEF Holds, Agrees
  <2>3. Divided(r)'
    BY <1>1, <1>2, <1>3, <1>4, <1>5 DEF RunOK, Divided
  <2>4. QED
    BY <2>2, <2>3 DEF RunOK
<1>9. QED
  BY <1>6, <1>7, <1>8 DEF CycleInv

(* The lock that the cron acquired lasts to the first beat of the timer. *)
LEMMA FindActiveKeeps ==
  ASSUME CycleInv, NEW r \in Runs, FindActive(r)
  PROVE  CycleInv'
<1>1. TypeOK /\ \A s \in Runs : RunOK(s)
  BY DEF CycleInv
<1>2. run[r].pc = "find" /\ UNCHANGED <<lock, trigger, faults, orphaned>>
  BY DEF FindActive
<1>3. ~Working(r) /\ lock.by = r /\ lock.left + run[r].age >= LockTTL
  BY <1>1, <1>2 DEF RunOK, Holds
<1>4. PICK found, queue : /\ found = {t \in Triggers : trigger[t].exists}
                          /\ queue = {LocationOf[t] : t \in found}
  OBVIOUS
<1>5. CASE queue = {}
  <2>1. Goto(r, "release") /\ UNCHANGED <<read, worker>>
    BY <1>4, <1>5 DEF FindActive
  <2>2. faults' \in 0..MaxFaults /\ lock' \in [by: Runs \cup {None}, left: 0..LockTTL]
    BY <1>1, <1>2 DEF TypeOK
  <2>3. QED
    BY <1>2, <1>3, <2>1, <2>2, LeavesKeeps
<1>6. CASE queue # {}
  <2>1. PICK new : /\ run' = [run EXCEPT ![r] = new]
                   /\ new = [pc |-> "poll", held |-> TRUE, timer |-> RenewEvery,
                             age |-> 0, queue |-> queue]
    BY <1>4, <1>6 DEF FindActive
  <2>2. queue \in SUBSET Locations
    BY <1>4, Numbers
  <2>3. new \in RunRecord
    <3>1. RenewEvery \in 0..RenewEvery /\ 0 \in 0..FindBound
      BY Numbers
    <3>2. QED
      BY <2>1, <2>2, <3>1, Zenon DEF RunRecord
  <2>4. new.pc = "poll" /\ new.timer = RenewEvery /\ new.queue = queue
    BY <2>1
  <2>5. /\ run' \in [Runs -> RunRecord] /\ run'[r] = new
        /\ \A s \in Runs \ {r} : run'[s] = run[s]
    BY <1>1, <2>1, <2>3, RunMoves
  <2>6. PICK rd : /\ read' = [read EXCEPT ![r] = rd]
                  /\ rd = [t \in Triggers |-> IF t \in found THEN Found(t) ELSE NotRead]
    BY <1>4, <1>6 DEF FindActive
  <2>7. /\ rd \in [Triggers -> ReadRecord]
        /\ \A t \in found : rd[t].found /\ rd[t].since = trigger[t].since
        /\ \A t \in Triggers \ found : ~rd[t].found
    <3>1. ASSUME NEW t \in Triggers
          PROVE  Found(t) \in ReadRecord /\ Found(t).found /\ Found(t).since = trigger[t].since
      <4>1. trigger[t].since \in 0..Cooldown
        BY <1>1 DEF TypeOK
      <4>2. Found(t) \in ReadRecord
        BY <4>1, Zenon DEF Found, ReadRecord
      <4>3. QED
        BY <4>2 DEF Found
    <3>2. NotRead \in ReadRecord /\ ~NotRead.found
      <4>1. Cooldown \in 0..Cooldown
        BY Numbers
      <4>2. NotRead \in ReadRecord
        BY <4>1, Zenon DEF NotRead, ReadRecord
      <4>3. QED
        BY <4>2 DEF NotRead
    <3>3. QED
      BY <1>4, <2>6, <3>1, <3>2
  <2>8. /\ read' \in [Runs -> [Triggers -> ReadRecord]] /\ read'[r] = rd
        /\ \A s \in Runs \ {r} : read'[s] = read[s]
    BY <1>1, <2>6, <2>7 DEF TypeOK
  <2>9. PICK ws \in [Workers -> WorkerRecord] :
          /\ worker' = [worker EXCEPT ![r] = ws]
          /\ \A w \in Workers : ws[w].pc \in {"off", "loop"} /\ ws[w].todo = {}
    <3>1. PICK some \in SUBSET Workers :
            worker' = [worker EXCEPT ![r] =
              [w \in Workers |-> IF w \in some THEN [Off EXCEPT !.pc = "loop"] ELSE Off]]
      BY <1>4, <1>6 DEF FindActive
    <3>2. PICK lp : lp = [Off EXCEPT !.pc = "loop"]
      OBVIOUS
    <3>3. lp \in WorkerRecord /\ lp.pc = "loop" /\ lp.todo = {}
      BY <3>2, AtOK
    <3>4. PICK ws : ws = [w \in Workers |-> IF w \in some THEN lp ELSE Off]
      OBVIOUS
    <3>5. /\ ws \in [Workers -> WorkerRecord]
          /\ \A w \in Workers : ws[w].pc \in {"off", "loop"} /\ ws[w].todo = {}
      BY <3>3, <3>4, OffOK
    <3>6. worker' = [worker EXCEPT ![r] = ws]
      BY <3>1, <3>2, <3>4
    <3>7. QED
      BY <3>5, <3>6
  <2>10. /\ worker' \in [Runs -> [Workers -> WorkerRecord]] /\ worker'[r] = ws
         /\ \A s \in Runs \ {r} : worker'[s] = worker[s]
    BY <1>1, <2>9, WorkersMove
  <2>11. TypeOK'
    <3>1. \A s \in Runs, w \in Workers :
            worker'[s][w].pc \in {"fetch", "process"} <=> worker'[s][w].todo # {}
      <4>1. ASSUME NEW w \in Workers
            PROVE  worker'[r][w].pc \in {"fetch", "process"} <=> worker'[r][w].todo # {}
        BY <2>9, <2>10
      <4>2. QED
        BY <1>1, <2>10, <4>1, BusyRows
    <3>2. QED
      BY <1>1, <1>2, <2>5, <2>8, <2>10, <3>1 DEF TypeOK
  <2>12. ASSUME NEW s \in Runs \ {r} PROVE RunOK(s)'
    <3>1. lock.left \in Nat /\ lock'.left \in Nat /\ lock'.left >= lock.left
      BY <1>1, <1>2, LockOK
    <3>2. QED
      BY <1>1, <1>2, <2>5, <2>8, <2>10, <3>1, OthersKeep
  <2>13. RunOK(r)'
    <3>1. Holds(r)'
      <4>1. run[r].age \in 0..FindBound /\ lock.left \in Nat
        BY <1>1, RowsOf, LockOK DEF RunRecord
      <4>2. lock.left + FindBound + RenewEvery >= LockTTL + RenewEvery
        BY <1>3, <4>1, Numbers
      <4>3. QED
        BY <1>2, <1>3, <2>4, <2>5, <2>9, <2>10, <4>2 DEF Holds, Busy
    <3>2. Divided(r)'
      BY <1>4, <2>4, <2>5, <2>7, <2>8, <2>9, <2>10 DEF Divided
    <3>3. Agrees(r)'
      BY <1>2, <2>7, <2>8, <2>9, <2>10 DEF Agrees, Pending
    <3>4. QED
      BY <3>1, <3>2, <3>3 DEF RunOK
  <2>14. QED
    BY <2>11, <2>12, <2>13 DEF CycleInv
<1>7. QED
  BY <1>5, <1>6

(* A beat of the timer: the lock is renewed, or the run knows it is lost.  *)
(* What is left of it outlasts every location begun.                       *)
LEMMA RenewKeeps ==
  ASSUME CycleInv, NEW r \in Runs, Renew(r) \/ RenewFails(r)
  PROVE  CycleInv'
<1>1. TypeOK /\ \A s \in Runs : RunOK(s)
  BY DEF CycleInv
<1>2. /\ run[r].pc = "poll" /\ UNCHANGED <<read, worker, trigger, orphaned>>
      /\ faults' \in 0..MaxFaults
  BY <1>1, FaultOK DEF Renew, RenewFails, TypeOK
<1>3. lock' = lock \/ (lock.by = r /\ lock' = [lock EXCEPT !.left = LockTTL])
  BY DEF Renew, RenewFails, Renewed
<1>4. /\ lock' \in [by: Runs \cup {None}, left: 0..LockTTL]
      /\ lock'.by = lock.by /\ lock'.left \in Nat /\ lock'.left >= lock.left
  BY <1>1, <1>3, LockOK, Numbers DEF TypeOK
<1>5. PICK m \in RunRecord : m = run[r]
  BY <1>1, RowsOf
<1>6. PICK h \in BOOLEAN :
        /\ run' = [run EXCEPT ![r] = [m EXCEPT !.held = h, !.timer = RenewEvery]]
        /\ h => lock.by = r /\ lock' = Renewed(r)
  <2>1. CASE Renew(r)
    <3>1. PICK h \in BOOLEAN : h <=> (m.held /\ lock.by = r)
      OBVIOUS
    <3>2. h = (m.held /\ lock.by = r)
      BY <3>1, <1>5, Zenon DEF RunRecord
    <3>3. run' = [run EXCEPT ![r] = [m EXCEPT !.held = h, !.timer = RenewEvery]]
      BY <1>1, <1>5, <2>1, <3>2 DEF Renew, TypeOK
    <3>4. QED
      BY <2>1, <3>1, <3>3 DEF Renew
  <2>2. CASE RenewFails(r)
    <3>1. run' = [run EXCEPT ![r] = [m EXCEPT !.held = FALSE, !.timer = RenewEvery]]
      BY <1>1, <1>5, <2>2 DEF RenewFails, TypeOK
    <3>2. QED
      BY <3>1
  <2>3. QED
    BY <2>1, <2>2
<1>7. PICK new : new = [m EXCEPT !.held = h, !.timer = RenewEvery]
  OBVIOUS
<1>8. new \in RunRecord
  <2>1. RenewEvery \in 0..RenewEvery
    BY Numbers
  <2>2. QED
    BY <1>7, <2>1, Zenon DEF RunRecord
<1>9. new.pc = m.pc /\ new.queue = m.queue /\ new.timer = RenewEvery /\ new.held = h
  BY <1>7 DEF RunRecord
<1>10. /\ run' \in [Runs -> RunRecord] /\ run'[r] = new
       /\ \A s \in Runs \ {r} : run'[s] = run[s]
  BY <1>1, <1>6, <1>7, <1>8, RunMoves
<1>11. TypeOK'
  BY <1>1, <1>2, <1>4, <1>10 DEF TypeOK
<1>12. ASSUME NEW s \in Runs \ {r} PROVE RunOK(s)'
  <2>1. lock.left \in Nat
    BY <1>1, LockOK
  <2>2. QED
    BY <1>1, <1>2, <1>4, <1>10, <2>1, OthersKeep
<1>13. RunOK(r)'
  <2>1. Working(r)' = Working(r)
    BY <1>2 DEF Working
  <2>2. Holds(r)'
    <3>1. h => lock'.by = r /\ lock'.left = LockTTL
      BY <1>1, <1>6 DEF Renewed, TypeOK
    <3>2. h => lock'.left + FindBound + RenewEvery >= LockTTL + RenewEvery
      BY <3>1, Numbers
    <3>3. ASSUME NEW w \in Workers
          PROVE  /\ worker'[r][w].pc # "off" => lock'.by = r
                 /\ Busy(worker'[r][w]) => lock'.left + worker'[r][w].age > GroupBound
      <4>1. /\ worker[r][w].pc # "off" => lock.by = r
            /\ Busy(worker[r][w]) => lock.left + worker[r][w].age > GroupBound
        BY <1>1, <1>2 DEF RunOK, Holds
      <4>2. worker[r][w].age \in Nat /\ lock.left \in Nat
        BY <1>1, RowsOf, LockOK, Numbers DEF WorkerRecord
      <4>3. QED
        BY <1>2, <1>4, <4>1, <4>2, Numbers DEF Busy
    <3>4. QED
      BY <1>2, <1>5, <1>9, <1>10, <3>1, <3>2, <3>3 DEF Holds
  <2>3. Divided(r)' /\ Agrees(r)'
    BY <1>1, <1>2, <1>5, <1>9, <1>10, <2>1 DEF RunOK, Divided, Agrees, Pending
  <2>4. QED
    BY <2>2, <2>3 DEF RunOK
<1>14. QED
  BY <1>11, <1>12, <1>13 DEF CycleInv

----------------------------------------------------------------------------
(* The steps of a worker *)

(* A worker of r moves, and its run with it or not: what is to be shown is *)
(* only about r.                                                           *)
LEMMA WorkerStepKeeps ==
  ASSUME CycleInv, NEW r \in Runs, RunOK(r)',
         run' \in [Runs -> RunRecord], \A s \in Runs \ {r} : run'[s] = run[s],
         worker' \in [Runs -> [Workers -> WorkerRecord]],
         \A s \in Runs \ {r} : worker'[s] = worker[s],
         \A w \in Workers : worker'[r][w].pc \in {"fetch", "process"} <=> worker'[r][w].todo # {},
         trigger' \in [Triggers -> [exists: BOOLEAN, since: 0..Cooldown]],
         Working(r) \/ trigger' = trigger, faults' \in 0..MaxFaults, orphaned' \in BOOLEAN,
         orphaned => orphaned', UNCHANGED <<lock, read>>
  PROVE  CycleInv'
<1>1. TypeOK /\ \A s \in Runs : RunOK(s)
  BY DEF CycleInv
<1>2. TypeOK'
  <2>1. \A s \in Runs, w \in Workers :
          worker'[s][w].pc \in {"fetch", "process"} <=> worker'[s][w].todo # {}
    BY <1>1, BusyRows
  <2>2. QED
    BY <1>1, <2>1 DEF TypeOK
<1>3. ASSUME NEW s \in Runs \ {r} PROVE RunOK(s)'
  <2>1. lock.left \in Nat /\ lock'.left \in Nat /\ lock'.left >= lock.left
    BY <1>1, LockOK
  <2>2. ~orphaned' /\ Working(s) => trigger' = trigger
    BY OneWorks
  <2>3. QED
    BY <1>1, <2>1, <2>2, OthersKeep
<1>4. QED
  BY <1>2, <1>3 DEF CycleInv

(* A worker that begins a location has a whole GroupBound ahead of it. *)
LEMMA LoopKeeps ==
  ASSUME CycleInv, LockOutlasts, NEW r \in Runs, NEW w \in Workers, Loop(r, w)
  PROVE  CycleInv'
<1>1. TypeOK /\ RunOK(r) /\ trigger \in [Triggers -> [exists: BOOLEAN, since: 0..Cooldown]]
      /\ run \in [Runs -> RunRecord] /\ faults \in 0..MaxFaults /\ orphaned \in BOOLEAN
  BY DEF CycleInv, TypeOK
<1>2. worker[r][w].pc = "loop" /\ UNCHANGED <<lock, read, trigger, faults, orphaned>>
  BY DEF Loop
<1>3. worker[r][w].todo = {} /\ Working(r)
  BY <1>1, <1>2 DEF TypeOK, Working
<1>4. CASE run[r].held /\ run[r].queue # {}
  <2>1. PICK l \in run[r].queue :
          /\ run' = [run EXCEPT ![r].queue = @ \ {l}]
          /\ worker' = [worker EXCEPT ![r][w] =
               [pc |-> "fetch", age |-> 0,
                todo |-> {t \in Triggers : LocationOf[t] = l /\ read[r][t].found}]]
    BY <1>4 DEF Loop
  <2>2. PICK todo \in SUBSET Triggers :
          todo = {t \in Triggers : LocationOf[t] = l /\ read[r][t].found}
    OBVIOUS
  <2>3. PICK new : new = [pc |-> "fetch", age |-> 0, todo |-> todo]
    OBVIOUS
  <2>4. new \in WorkerRecord /\ new.pc = "fetch" /\ new.age = 0 /\ new.todo = todo
    BY <2>3, Numbers DEF WorkerRecord
  <2>5. /\ worker' \in [Runs -> [Workers -> WorkerRecord]]
        /\ \A s \in Runs \ {r} : worker'[s] = worker[s]
        /\ worker'[r][w] = new /\ \A v \in Workers \ {w} : worker'[r][v] = worker[r][v]
    <3>1. worker' = [worker EXCEPT ![r][w] = new]
      BY <2>1, <2>2, <2>3
    <3>2. QED
      BY <1>1, <2>4, <3>1, WorkerMoves
  <2>6. PICK m \in RunRecord : m = run[r]
    BY <1>1
  <2>7. PICK nr : nr = [m EXCEPT !.queue = m.queue \ {l}]
    OBVIOUS
  <2>8. nr \in RunRecord
    <3>1. m.queue \ {l} \in SUBSET Locations
      BY DEF RunRecord
    <3>2. QED
      BY <2>7, <3>1, Zenon DEF RunRecord
  <2>9. /\ nr.pc = m.pc /\ nr.timer = m.timer /\ nr.age = m.age /\ nr.held = m.held
        /\ nr.queue = m.queue \ {l}
    BY <2>7 DEF RunRecord
  <2>10. /\ run' \in [Runs -> RunRecord] /\ run'[r] = nr
         /\ \A s \in Runs \ {r} : run'[s] = run[s]
    <3>1. run' = [run EXCEPT ![r] = nr]
      BY <2>1, <2>6, <2>7
    <3>2. QED
      BY <1>1, <2>8, <3>1, RunMoves
  <2>11. todo # {}
    BY <1>1, <2>1, <2>2 DEF RunOK, Divided
  <2>12. \A v \in Workers : worker'[r][v].pc \in {"fetch", "process"} <=> worker'[r][v].todo # {}
    <3>1. worker'[r][w].pc \in {"fetch", "process"} <=> worker'[r][w].todo # {}
      BY <2>4, <2>5, <2>11
    <3>2. QED
      BY <1>1, <2>5, <3>1, BusyRow
  <2>13. Working(r)'
    BY <2>4, <2>5 DEF Working
  <2>14. Holds(r)'
    <3>1. CASE run[r].pc = "poll"
      <4>1. /\ lock.by = r /\ lock.left + FindBound + RenewEvery >= LockTTL + m.timer
        BY <1>1, <1>4, <2>6, <3>1 DEF RunOK, Holds
      <4>2. lock.left \in Nat /\ m.timer \in Nat
        BY <1>1, LockOK, Numbers DEF RunRecord
      <4>3. lock.left > GroupBound
        BY <4>1, <4>2, Numbers DEF LockOutlasts
      <4>4. ASSUME NEW v \in Workers
            PROVE  /\ worker'[r][v].pc # "off" => lock.by = r
                   /\ Busy(worker'[r][v]) => lock.left + worker'[r][v].age > GroupBound
        <5>1. CASE v = w
          BY <2>4, <2>5, <4>1, <4>2, <4>3, <5>1, Numbers
        <5>2. CASE v # w
          BY <1>1, <2>5, <3>1, <4>1, <5>2 DEF RunOK, Holds
        <5>3. QED
          BY <5>1, <5>2
      <4>5. QED
        BY <1>2, <2>6, <2>9, <2>10, <3>1, <4>1, <4>4 DEF Holds
    <3>2. CASE run[r].pc # "poll"
      BY <1>1, <1>2, <1>3, <2>6, <2>9, <2>10, <3>2 DEF RunOK, Holds
    <3>3. QED
      BY <3>1, <3>2
  <2>15. Divided(r)'
    <3>1. \A k \in nr.queue : \E t \in Triggers : LocationOf[t] = k /\ read'[r][t].found
      BY <1>1, <1>2, <2>6, <2>9 DEF RunOK, Divided
    <3>2. ASSUME NEW v \in Workers, NEW t \in worker'[r][v].todo
          PROVE  /\ LocationOf[t] \notin nr.queue
                 /\ \A u \in Workers \ {v} : t \notin worker'[r][u].todo
      <4>1. CASE v = w
        <5>1. LocationOf[t] = l
          BY <2>2, <2>4, <2>5, <3>2, <4>1
        <5>2. ASSUME NEW u \in Workers \ {v}, t \in worker'[r][u].todo PROVE FALSE
          <6>1. t \in worker[r][u].todo
            BY <2>5, <4>1, <5>2
          <6>2. LocationOf[t] \notin run[r].queue
            BY <1>1, <6>1 DEF RunOK, Divided
          <6>3. QED
            BY <2>1, <5>1, <6>2
        <5>3. QED
          BY <2>9, <5>1, <5>2
      <4>2. CASE v # w
        <5>1. t \in worker[r][v].todo
          BY <2>5, <3>2, <4>2
        <5>2. /\ LocationOf[t] \notin run[r].queue
              /\ \A u \in Workers \ {v} : t \notin worker[r][u].todo
          BY <1>1, <5>1 DEF RunOK, Divided
        <5>3. t \notin todo
          BY <2>1, <2>2, <5>2
        <5>4. QED
          BY <2>4, <2>5, <2>6, <2>9, <5>2, <5>3
      <4>3. QED
        BY <4>1, <4>2
    <3>3. QED
      BY <2>10, <3>1, <3>2 DEF Divided
  <2>16. Agrees(r)'
    <3>1. ASSUME NEW t \in Triggers, Pending(r, t)' PROVE Pending(r, t)
      BY <1>2, <2>1, <2>2, <2>4, <2>5, <2>6, <2>9, <2>10, <3>1 DEF Pending
    <3>2. QED
      BY <1>1, <1>2, <1>3, <3>1 DEF RunOK, Agrees
  <2>17. QED
    BY <1>1, <1>2, <2>5, <2>10, <2>12, <2>14, <2>15, <2>16, WorkerStepKeeps DEF RunOK
<1>5. CASE ~(run[r].held /\ run[r].queue # {})
  <2>1. WorkerGoto(r, w, "off") /\ run' = run
    BY <1>5 DEF Loop
  <2>2. /\ worker' \in [Runs -> [Workers -> WorkerRecord]]
        /\ \A s \in Runs \ {r} : worker'[s] = worker[s]
        /\ worker'[r][w].pc = "off" /\ worker'[r][w].todo = {}
        /\ \A v \in Workers \ {w} : worker'[r][v] = worker[r][v]
    BY <1>1, <2>1, WorkerGotoOK
  <2>3. \A v \in Workers : worker'[r][v].pc \in {"fetch", "process"} <=> worker'[r][v].todo # {}
    <3>1. worker'[r][w].pc \in {"fetch", "process"} <=> worker'[r][w].todo # {}
      BY <2>2
    <3>2. QED
      BY <1>1, <2>2, <3>1, BusyRow
  <2>4. Working(r)' => Working(r)
    BY <1>3
  <2>5. Holds(r)'
    BY <1>1, <1>2, <1>3, <2>1, <2>2 DEF RunOK, Holds, Busy
  <2>6. Divided(r)'
    BY <1>1, <1>2, <2>1, <2>2 DEF RunOK, Divided
  <2>7. Agrees(r)'
    <3>1. ASSUME NEW t \in Triggers, Pending(r, t)' PROVE Pending(r, t)
      BY <1>2, <2>1, <2>2, <3>1 DEF Pending
    <3>2. QED
      BY <1>1, <1>2, <1>3, <3>1 DEF RunOK, Agrees
  <2>8. QED
    BY <1>1, <1>2, <2>1, <2>2, <2>3, <2>5, <2>6, <2>7, WorkerStepKeeps DEF RunOK
<1>6. QED
  BY <1>4, <1>5

(* A worker goes on with its location or leaves it, and writes at most     *)
(* triggers it is done with.                                               *)
LEMMA ShrinkKeeps ==
  ASSUME CycleInv, NEW r \in Runs, NEW w \in Workers, worker[r][w].pc # "off",
         worker' \in [Runs -> [Workers -> WorkerRecord]],
         \A s \in Runs \ {r} : worker'[s] = worker[s],
         \A v \in Workers \ {w} : worker'[r][v] = worker[r][v],
         worker'[r][w].pc \in {"fetch", "process"} <=> worker'[r][w].todo # {},
         worker'[r][w].todo \subseteq worker[r][w].todo,
         Busy(worker'[r][w]) => Busy(worker[r][w]) /\ worker'[r][w].age = worker[r][w].age,
         trigger' \in [Triggers -> [exists: BOOLEAN, since: 0..Cooldown]],
         \A t \in Triggers : \/ trigger'[t].since = trigger[t].since
                             \/ t \in worker[r][w].todo /\ t \notin worker'[r][w].todo,
         UNCHANGED <<lock, run, read, faults, orphaned>>
  PROVE  CycleInv'
<1>1. /\ TypeOK /\ RunOK(r) /\ run \in [Runs -> RunRecord] /\ faults \in 0..MaxFaults
      /\ orphaned \in BOOLEAN
  BY DEF CycleInv, TypeOK
<1>2. Working(r)
  BY DEF Working
<1>3. \A v \in Workers : worker'[r][v].pc \in {"fetch", "process"} <=> worker'[r][v].todo # {}
  BY <1>1, BusyRow
<1>4. Holds(r)'
  BY <1>1, <1>2 DEF RunOK, Holds, Busy
<1>5. \A v \in Workers : worker'[r][v].todo \subseteq worker[r][v].todo
  OBVIOUS
<1>6. Divided(r)'
  BY <1>1, <1>5 DEF RunOK, Divided
<1>7. Agrees(r)'
  <2>1. SUFFICES ASSUME ~orphaned, NEW t \in Triggers, Pending(r, t)'
                 PROVE  read[r][t].since = trigger'[t].since
    BY DEF Agrees
  <2>2. Pending(r, t)
    BY <1>5, <2>1 DEF Pending
  <2>3. read[r][t].since = trigger[t].since
    BY <1>1, <1>2, <2>1, <2>2 DEF RunOK, Agrees
  <2>4. ASSUME t \in worker[r][w].todo, t \notin worker'[r][w].todo PROVE FALSE
    <3>1. /\ LocationOf[t] \notin run[r].queue
          /\ \A v \in Workers \ {w} : t \notin worker[r][v].todo
      BY <1>1, <2>4 DEF RunOK, Divided
    <3>2. QED
      BY <1>5, <2>1, <2>4, <3>1 DEF Pending
  <2>5. QED
    BY <2>3, <2>4
<1>8. QED
  BY <1>1, <1>2, <1>3, <1>4, <1>6, <1>7, WorkerStepKeeps DEF RunOK

LEMMA FetchKeeps ==
  ASSUME CycleInv, NEW r \in Runs, NEW w \in Workers, Fetch(r, w)
  PROVE  CycleInv'
<1>1. /\ TypeOK /\ trigger \in [Triggers -> [exists: BOOLEAN, since: 0..Cooldown]]
  BY DEF CycleInv, TypeOK
<1>2. worker[r][w].pc = "fetch" /\ UNCHANGED <<lock, run, read, trigger, faults, orphaned>>
  BY DEF Fetch
<1>3. CASE WorkerGoto(r, w, "loop")
  <2>1. /\ worker' \in [Runs -> [Workers -> WorkerRecord]]
        /\ \A s \in Runs \ {r} : worker'[s] = worker[s]
        /\ worker'[r][w].pc = "loop" /\ worker'[r][w].todo = {}
        /\ \A v \in Workers \ {w} : worker'[r][v] = worker[r][v]
    BY <1>1, <1>3, WorkerGotoOK
  <2>2. QED
    BY <1>1, <1>2, <2>1, ShrinkKeeps DEF Busy
<1>4. CASE worker' = [worker EXCEPT ![r][w].pc = "process"]
  <2>1. PICK m \in WorkerRecord : m = worker[r][w]
    BY <1>1, RowsOf
  <2>2. PICK new : new = [m EXCEPT !.pc = "process"]
    OBVIOUS
  <2>3. new \in WorkerRecord /\ new.pc = "process" /\ new.todo = m.todo /\ new.age = m.age
    BY <2>2 DEF WorkerRecord
  <2>4. worker' = [worker EXCEPT ![r][w] = new]
    BY <1>1, <1>4, <2>1, <2>2 DEF TypeOK
  <2>5. /\ worker' \in [Runs -> [Workers -> WorkerRecord]]
        /\ \A s \in Runs \ {r} : worker'[s] = worker[s]
        /\ worker'[r][w] = new /\ \A v \in Workers \ {w} : worker'[r][v] = worker[r][v]
    BY <1>1, <2>3, <2>4, WorkerMoves
  <2>6. m.todo # {}
    BY <1>1, <1>2, <2>1 DEF TypeOK
  <2>7. QED
    BY <1>1, <1>2, <2>1, <2>3, <2>5, <2>6, ShrinkKeeps DEF Busy
<1>5. QED
  BY <1>3, <1>4 DEF Fetch

(* What a decision writes is a trigger, and only of the one it is about. *)
LEMMA WrittenOK ==
  ASSUME TypeOK, NEW t \in Triggers, NEW d, trigger' = [trigger EXCEPT ![t] = Written(@, d)]
  PROVE  /\ trigger' \in [Triggers -> [exists: BOOLEAN, since: 0..Cooldown]]
         /\ \A u \in Triggers \ {t} : trigger'[u] = trigger[u]
<1>1. PICK T : T = [exists: BOOLEAN, since: 0..Cooldown]
  OBVIOUS
<1>2. trigger \in [Triggers -> T]
  BY <1>1 DEF TypeOK
<1>3. PICK m \in T : m = trigger[t]
  BY <1>2
<1>4. Written(m, d) \in T
  <2>1. 0 \in 0..Cooldown
    BY Numbers
  <2>2. [m EXCEPT !.since = 0] \in T
    BY <1>1, <2>1, Zenon
  <2>3. QED
    BY <2>2 DEF Written
<1>5. PICK new \in T : new = Written(m, d)
  BY <1>4
<1>6. trigger' = [trigger EXCEPT ![t] = new]
  BY <1>3, <1>5
<1>7. QED
  BY <1>1, <1>2, <1>6

LEMMA ProcessKeeps ==
  ASSUME CycleInv, NEW r \in Runs, NEW w \in Workers, NEW t \in worker[r][w].todo,
         Process(r, w, t)
  PROVE  CycleInv'
<1>1. TypeOK
  BY DEF CycleInv
<1>2. /\ worker[r][w].pc = "process" /\ UNCHANGED <<lock, run, read, faults, orphaned>>
  BY DEF Process, Commits, Current
<1>3. PICK m \in WorkerRecord : m = worker[r][w]
  BY <1>1, RowsOf
<1>4. t \in Triggers /\ t \in m.todo
  BY <1>3 DEF WorkerRecord
<1>5. /\ trigger' \in [Triggers -> [exists: BOOLEAN, since: 0..Cooldown]]
      /\ \A u \in Triggers \ {t} : trigger'[u] = trigger[u]
  BY <1>1, <1>4, WrittenOK DEF Process, Commits
<1>6. CASE m.todo = {t}
  <2>1. WorkerGoto(r, w, "loop")
    BY <1>3, <1>6 DEF Process, Processed
  <2>2. /\ worker' \in [Runs -> [Workers -> WorkerRecord]]
        /\ \A s \in Runs \ {r} : worker'[s] = worker[s]
        /\ worker'[r][w].pc = "loop" /\ worker'[r][w].todo = {}
        /\ \A v \in Workers \ {w} : worker'[r][v] = worker[r][v]
    BY <1>1, <2>1, WorkerGotoOK
  <2>3. QED
    BY <1>2, <1>3, <1>4, <1>5, <2>2, ShrinkKeeps DEF Busy
<1>7. CASE m.todo # {t}
  <2>1. PICK new : new = [m EXCEPT !.todo = m.todo \ {t}]
    OBVIOUS
  <2>2. /\ new \in WorkerRecord /\ new.pc = m.pc /\ new.todo = m.todo \ {t}
        /\ new.age = m.age
    BY <2>1 DEF WorkerRecord
  <2>3. worker' = [worker EXCEPT ![r][w] = new]
    BY <1>1, <1>3, <1>7, <2>1 DEF Process, Processed, TypeOK
  <2>4. /\ worker' \in [Runs -> [Workers -> WorkerRecord]]
        /\ \A s \in Runs \ {r} : worker'[s] = worker[s]
        /\ worker'[r][w] = new /\ \A v \in Workers \ {w} : worker'[r][v] = worker[r][v]
    BY <1>1, <2>2, <2>3, WorkerMoves
  <2>5. new.todo # {} /\ new.pc = "process"
    BY <1>2, <1>3, <1>4, <1>7, <2>2
  <2>6. /\ worker'[r][w].pc = "process" /\ worker'[r][w].todo # {}
        /\ worker'[r][w].todo \subseteq worker[r][w].todo
        /\ worker'[r][w].age = worker[r][w].age
        /\ t \in worker[r][w].todo /\ t \notin worker'[r][w].todo
    BY <1>3, <1>4, <2>2, <2>4, <2>5
  <2>7. \A u \in Triggers : \/ trigger'[u].since = trigger[u].since
                            \/ u \in worker[r][w].todo /\ u \notin worker'[r][w].todo
    BY <1>5, <2>6
  <2>8. /\ worker[r][w].pc # "off"
        /\ worker'[r][w].pc \in {"fetch", "process"} <=> worker'[r][w].todo # {}
        /\ Busy(worker'[r][w]) => Busy(worker[r][w]) /\ worker'[r][w].age = worker[r][w].age
    BY <1>2, <2>6 DEF Busy
  <2>9. QED
    BY <1>2, <1>5, <2>4, <2>6, <2>7, <2>8, ShrinkKeeps
<1>8. QED
  BY <1>6, <1>7

(* Promise.all rejects with the first worker: whoever is left is on record. *)
LEMMA ThrowKeeps ==
  ASSUME CycleInv, NEW r \in Runs, NEW w \in Workers, worker[r][w].pc # "off", Throw(r, w),
         trigger' \in [Triggers -> [exists: BOOLEAN, since: 0..Cooldown]],
         faults' \in 0..MaxFaults, UNCHANGED <<lock, read>>
  PROVE  CycleInv'
<1>1. TypeOK /\ RunOK(r) /\ run \in [Runs -> RunRecord]
  BY DEF CycleInv, TypeOK
<1>2. Working(r)
  BY DEF Working
<1>3. /\ worker' \in [Runs -> [Workers -> WorkerRecord]]
      /\ \A s \in Runs \ {r} : worker'[s] = worker[s]
      /\ worker'[r][w].pc = "off" /\ worker'[r][w].todo = {}
      /\ \A v \in Workers \ {w} : worker'[r][v] = worker[r][v]
  BY <1>1, WorkerGotoOK DEF Throw
<1>4. \A v \in Workers : worker'[r][v].pc \in {"fetch", "process"} <=> worker'[r][v].todo # {}
  <2>1. worker'[r][w].pc \in {"fetch", "process"} <=> worker'[r][w].todo # {}
    BY <1>3
  <2>2. QED
    BY <1>1, <1>3, <2>1, BusyRow
<1>5. /\ run' \in [Runs -> RunRecord] /\ \A s \in Runs \ {r} : run'[s] = run[s]
      /\ run'[r].pc \notin {"find", "poll"} /\ run'[r].queue = run[r].queue
  <2>1. CASE run[r].pc = "poll"
    BY <1>1, <2>1, GotoOK DEF Throw
  <2>2. CASE run[r].pc # "poll"
    BY <1>1, <1>2, <2>2 DEF Throw, RunOK, Holds
  <2>3. QED
    BY <2>1, <2>2
<1>6. /\ orphaned' = (orphaned \/ \E v \in Workers \ {w} : worker[r][v].pc # "off")
      /\ orphaned' \in BOOLEAN /\ orphaned => orphaned'
  BY DEF Throw
<1>7. Working(r)' => orphaned'
  <2>1. SUFFICES ASSUME NEW v \in Workers, worker'[r][v].pc # "off" PROVE orphaned'
    BY DEF Working
  <2>2. v # w
    BY <1>3, <2>1
  <2>3. worker[r][v].pc # "off"
    BY <1>3, <2>1, <2>2
  <2>4. QED
    BY <1>6, <2>2, <2>3
<1>8. Holds(r)' /\ Agrees(r)'
  BY <1>5, <1>7 DEF Holds, Agrees
<1>9. Divided(r)'
  <2>1. \A v \in Workers : worker'[r][v].todo \subseteq worker[r][v].todo
    <3>1. SUFFICES ASSUME NEW v \in Workers PROVE worker'[r][v].todo \subseteq worker[r][v].todo
      OBVIOUS
    <3>2. CASE v = w
      BY <1>3, <3>2
    <3>3. CASE v # w
      BY <1>3, <3>3
    <3>4. QED
      BY <3>2, <3>3
  <2>2. QED
    BY <1>1, <1>5, <2>1 DEF RunOK, Divided
<1>10. QED
  BY <1>1, <1>2, <1>3, <1>4, <1>5, <1>6, <1>8, <1>9, WorkerStepKeeps DEF RunOK

LEMMA ThrowsKeep ==
  ASSUME CycleInv, NEW r \in Runs, NEW w \in Workers, NEW t \in worker[r][w].todo,
         WriteThrows(r, w, t) \/ DatabaseThrows(r, w, t)
  PROVE  CycleInv'
<1>1. /\ TypeOK /\ trigger \in [Triggers -> [exists: BOOLEAN, since: 0..Cooldown]]
      /\ faults \in 0..MaxFaults
  BY DEF CycleInv, TypeOK
<1>2. t \in Triggers
  BY <1>1, RowsOf DEF WorkerRecord
<1>3. worker[r][w].pc # "off" /\ Throw(r, w) /\ UNCHANGED <<lock, read>>
  BY DEF WriteThrows, DatabaseThrows, Current
<1>4. faults' \in 0..MaxFaults
  BY <1>1, FaultOK DEF WriteThrows, DatabaseThrows
<1>5. trigger' \in [Triggers -> [exists: BOOLEAN, since: 0..Cooldown]]
  <2>1. CASE trigger' = trigger
    BY <1>1, <2>1
  <2>2. CASE Commits(r, w, t, "FIRE")
    BY <1>1, <1>2, <2>2, WrittenOK DEF Commits
  <2>3. QED
    BY <2>1, <2>2 DEF WriteThrows, DatabaseThrows
<1>6. QED
  BY <1>3, <1>4, <1>5, ThrowKeeps

----------------------------------------------------------------------------
(* The environment *)

LEMMA EditKeeps ==
  ASSUME CycleInv, NEW t \in Triggers, Edit(t)
  PROVE  CycleInv'
<1>1. TypeOK /\ \A s \in Runs : RunOK(s)
  BY DEF CycleInv
<1>2. UNCHANGED <<lock, run, worker, orphaned>> /\ faults' \in 0..MaxFaults
  BY <1>1, FaultOK DEF Edit
<1>3. /\ trigger' \in [Triggers -> [exists: BOOLEAN, since: 0..Cooldown]]
      /\ \A u \in Triggers : trigger'[u].since = trigger[u].since
  <2>1. PICK e \in BOOLEAN : trigger' = [trigger EXCEPT ![t].exists = e]
    BY DEF Edit
  <2>2. PICK T : T = [exists: BOOLEAN, since: 0..Cooldown]
    OBVIOUS
  <2>3. trigger \in [Triggers -> T]
    BY <1>1, <2>2 DEF TypeOK
  <2>4. PICK m \in T : m = trigger[t]
    BY <2>3
  <2>5. PICK new : new = [m EXCEPT !.exists = e]
    OBVIOUS
  <2>6. new \in T
    BY <2>2, <2>5, Zenon
  <2>7. new.since = m.since
    BY <2>2, <2>5
  <2>8. trigger' = [trigger EXCEPT ![t] = new]
    BY <2>1, <2>4, <2>5
  <2>9. QED
    BY <2>2, <2>3, <2>4, <2>6, <2>7, <2>8
<1>4. ASSUME NEW s \in Runs
      PROVE  /\ read'[s] \in [Triggers -> ReadRecord]
             /\ \A u \in Triggers : /\ read'[s][u].since = read[s][u].since
                                    /\ read'[s][u].found = read[s][u].found
  <2>1. read[s] \in [Triggers -> ReadRecord]
    BY <1>1, RowsOf
  <2>2. PICK m \in ReadRecord : m = read[s][t]
    BY <2>1
  <2>3. PICK b \in BOOLEAN : b <=> (m.stale \/ m.found)
    OBVIOUS
  <2>4. b = (m.stale \/ m.found)
    BY <2>3, Zenon DEF ReadRecord
  <2>5. PICK new : new = [m EXCEPT !.stale = b]
    OBVIOUS
  <2>6. new \in ReadRecord
    BY <2>5, Zenon DEF ReadRecord
  <2>7. new.since = m.since /\ new.found = m.found
    BY <2>5 DEF ReadRecord
  <2>8. read'[s] = [read[s] EXCEPT ![t].stale = @ \/ read[s][t].found]
    BY DEF Edit
  <2>9. read'[s] = [read[s] EXCEPT ![t] = new]
    BY <2>2, <2>4, <2>5, <2>8
  <2>10. QED
    BY <2>1, <2>2, <2>6, <2>7, <2>9
<1>5. TypeOK'
  <2>1. read' \in [Runs -> [Triggers -> ReadRecord]]
    BY <1>4 DEF Edit
  <2>2. QED
    BY <1>1, <1>2, <1>3, <2>1 DEF TypeOK
<1>6. ASSUME NEW s \in Runs PROVE RunOK(s)'
  <2>1. Holds(s)'
    BY <1>1, <1>2 DEF RunOK, Holds, Working
  <2>2. Divided(s)'
    BY <1>1, <1>2, <1>4 DEF RunOK, Divided
  <2>3. Working(s)' = Working(s) /\ \A u \in Triggers : Pending(s, u)' = Pending(s, u)
    BY <1>2, <1>4 DEF Pending, Working
  <2>4. Agrees(s)'
    BY <1>1, <1>2, <1>3, <1>4, <2>3 DEF RunOK, Agrees
  <2>5. QED
    BY <2>1, <2>2, <2>4 DEF RunOK
<1>7. QED
  BY <1>5, <1>6 DEF CycleInv

LEMMA AgeOK ==
  ASSUME NEW n \in 0..Cooldown
  PROVE  Age(n) \in 0..Cooldown
  BY Numbers DEF Age

(* What a tick does to a run, ... *)
LEMMA TickRun ==
  ASSUME CycleInv, Tick, NEW r \in Runs
  PROVE  /\ run'[r] \in RunRecord /\ run'[r].pc = run[r].pc
         /\ run'[r].queue = IF Gone(r) THEN {} ELSE run[r].queue
         /\ run[r].pc = "poll" => /\ run'[r].held = run[r].held /\ run[r].timer > 0
                                  /\ run'[r].timer = run[r].timer - 1
         /\ run[r].pc = "find" => run[r].age < FindBound /\ run'[r].age = run[r].age + 1
<1>1. PICK m \in RunRecord : m = run[r]
  BY RowsOf DEF CycleInv
<1>2. run'[r] = CASE Gone(r) -> IdleRun
                  [] m.pc = "poll" -> [m EXCEPT !.timer = m.timer - 1]
                  [] m.pc \in {"find", "release"} -> [m EXCEPT !.age = m.age + 1]
                  [] OTHER -> m
  BY <1>1 DEF Tick
<1>3. /\ m.pc = "poll" => m.timer > 0
      /\ m.pc \in {"find", "release"} => m.age < FindBound
  BY <1>1 DEF Tick
<1>4. CASE Gone(r)
  <2>1. run'[r] = IdleRun /\ m.pc = "idle"
    BY <1>1, <1>2, <1>4 DEF Gone
  <2>2. PICK new : new = [IdleRun EXCEPT !.pc = "idle"]
    OBVIOUS
  <2>3. new = IdleRun
    BY <2>2 DEF IdleRun
  <2>4. new \in RunRecord /\ new.pc = "idle" /\ new.queue = {}
    BY <2>2, IdleRunOK
  <2>5. QED
    BY <1>1, <1>4, <2>1, <2>3, <2>4
<1>5. CASE ~Gone(r) /\ m.pc = "poll"
  <2>1. PICK new : new = [m EXCEPT !.timer = m.timer - 1]
    OBVIOUS
  <2>2. m.timer - 1 \in 0..RenewEvery
    BY <1>3, <1>5, Numbers DEF RunRecord
  <2>3. new \in RunRecord
    BY <2>1, <2>2, Zenon DEF RunRecord
  <2>4. /\ new.pc = m.pc /\ new.queue = m.queue /\ new.held = m.held
        /\ new.timer = m.timer - 1
    BY <2>1 DEF RunRecord
  <2>5. run'[r] = new
    BY <1>2, <1>5, <2>1
  <2>6. QED
    BY <1>1, <1>3, <1>5, <2>3, <2>4, <2>5
<1>6. CASE ~Gone(r) /\ m.pc \in {"find", "release"}
  <2>1. PICK new : new = [m EXCEPT !.age = m.age + 1]
    OBVIOUS
  <2>2. m.age + 1 \in 0..FindBound
    BY <1>3, <1>6, Numbers DEF RunRecord
  <2>3. new \in RunRecord
    BY <2>1, <2>2, Zenon DEF RunRecord
  <2>4. new.pc = m.pc /\ new.queue = m.queue /\ new.age = m.age + 1
    BY <2>1 DEF RunRecord
  <2>5. run'[r] = new
    BY <1>2, <1>6, <2>1
  <2>6. QED
    BY <1>1, <1>3, <1>6, <2>3, <2>4, <2>5
<1>7. CASE ~Gone(r) /\ m.pc \notin {"poll", "find", "release"}
  <2>1. run'[r] = m
    BY <1>2, <1>7
  <2>2. QED
    BY <1>1, <1>7, <2>1
<1>8. QED
  BY <1>4, <1>5, <1>6, <1>7

(* ... to its workers, ... *)
LEMMA TickWorker ==
  ASSUME CycleInv, Tick, NEW r \in Runs, NEW w \in Workers
  PROVE  /\ worker'[r][w] \in WorkerRecord /\ worker'[r][w].pc = worker[r][w].pc
         /\ worker'[r][w].todo = worker[r][w].todo
         /\ worker[r][w].pc # "off" => /\ Busy(worker[r][w]) /\ worker[r][w].age < GroupBound
                                       /\ worker'[r][w].age = worker[r][w].age + 1
<1>1. PICK m \in WorkerRecord : m = worker[r][w]
  BY RowsOf DEF CycleInv
<1>2. worker'[r][w] = IF m.pc = "off" THEN Off ELSE [m EXCEPT !.age = m.age + 1]
  BY <1>1 DEF Tick
<1>3. m.pc # "loop" /\ (m.pc # "off" => m.age < GroupBound)
  BY <1>1 DEF Tick
<1>4. CASE m.pc = "off"
  <2>1. m.todo = {}
    BY <1>1, <1>4 DEF CycleInv, TypeOK
  <2>2. QED
    BY <1>1, <1>2, <1>4, <2>1, OffOK
<1>5. CASE m.pc # "off"
  <2>1. PICK new : new = [m EXCEPT !.age = m.age + 1]
    OBVIOUS
  <2>2. /\ new \in WorkerRecord /\ new.pc = m.pc /\ new.todo = m.todo
        /\ new.age = m.age + 1
    BY <1>3, <1>5, <2>1, Numbers DEF WorkerRecord
  <2>3. Busy(m)
    BY <1>3, <1>5 DEF WorkerRecord, Busy
  <2>4. worker'[r][w] = new
    BY <1>2, <1>5, <2>1
  <2>5. QED
    BY <1>1, <1>3, <1>5, <2>2, <2>3, <2>4
<1>6. QED
  BY <1>4, <1>5

(* ... and to what was read and stored. *)
LEMMA TickRead ==
  ASSUME CycleInv, Tick, NEW r \in Runs, NEW t \in Triggers
  PROVE  /\ read'[r][t] \in ReadRecord
         /\ ~Gone(r) => /\ read'[r][t].found = read[r][t].found
                        /\ read'[r][t].since = Age(read[r][t].since)
<1>1. PICK m \in ReadRecord : m = read[r][t]
  BY RowsOf DEF CycleInv
<1>2. read'[r][t] = IF Gone(r) THEN NotRead ELSE [m EXCEPT !.since = Age(m.since)]
  BY <1>1 DEF Tick
<1>3. PICK new : new = [m EXCEPT !.since = Age(m.since)]
  OBVIOUS
<1>4. Age(m.since) \in 0..Cooldown
  BY AgeOK DEF ReadRecord
<1>5. new \in ReadRecord
  BY <1>3, <1>4, Zenon DEF ReadRecord
<1>6. new.found = m.found /\ new.since = Age(m.since)
  BY <1>3 DEF ReadRecord
<1>7. NotRead \in ReadRecord
  <2>1. Cooldown \in 0..Cooldown
    BY Numbers
  <2>2. QED
    BY <2>1, Zenon DEF NotRead, ReadRecord
<1>8. QED
  BY <1>1, <1>2, <1>3, <1>5, <1>6, <1>7

LEMMA TickTrigger ==
  ASSUME CycleInv, Tick
  PROVE  /\ trigger' \in [Triggers -> [exists: BOOLEAN, since: 0..Cooldown]]
         /\ \A t \in Triggers : trigger'[t].since = Age(trigger[t].since)
<1>1. PICK T : T = [exists: BOOLEAN, since: 0..Cooldown]
  OBVIOUS
<1>2. ASSUME NEW t \in Triggers
      PROVE  trigger'[t] \in T /\ trigger'[t].since = Age(trigger[t].since)
  <2>1. PICK m \in T : m = trigger[t]
    BY <1>1 DEF CycleInv, TypeOK
  <2>2. PICK new : new = [m EXCEPT !.since = Age(m.since)]
    OBVIOUS
  <2>3. Age(m.since) \in 0..Cooldown
    BY <1>1, AgeOK
  <2>4. new \in T
    BY <1>1, <2>2, <2>3, Zenon
  <2>5. new.since = Age(m.since)
    BY <1>1, <2>2
  <2>6. trigger'[t] = new
    BY <2>1, <2>2 DEF Tick
  <2>7. QED
    BY <2>1, <2>4, <2>5, <2>6
<1>3. QED
  BY <1>1, <1>2 DEF Tick

(* A tick shortens the lock and every bound that it has to outlast alike. *)
LEMMA TickKeeps ==
  ASSUME CycleInv, LockOutlasts, Tick
  PROVE  CycleInv'
<1>1. TypeOK /\ \A s \in Runs : RunOK(s)
  BY DEF CycleInv
<1>2. /\ UNCHANGED <<faults, orphaned>> /\ lock' = Expired(lock)
  BY DEF Tick
<1>3. /\ lock' \in [by: Runs \cup {None}, left: 0..LockTTL]
      /\ lock.left > 1 => lock'.by = lock.by /\ lock'.left = lock.left - 1
  BY <1>1, <1>2, LockOK, Numbers DEF TypeOK, Expired
<1>4. TypeOK'
  <2>1. run' \in [Runs -> RunRecord]
    BY <1>1, TickRun DEF Tick, CycleInv
  <2>2. worker' \in [Runs -> [Workers -> WorkerRecord]]
    <3>1. \A r \in Runs, w \in Workers : worker'[r][w] \in WorkerRecord
      BY TickWorker
    <3>2. worker' = [r \in Runs |-> [w \in Workers |-> worker'[r][w]]]
      BY DEF Tick
    <3>3. QED
      BY <3>1, <3>2
  <2>3. read' \in [Runs -> [Triggers -> ReadRecord]]
    <3>1. \A r \in Runs, t \in Triggers : read'[r][t] \in ReadRecord
      BY TickRead
    <3>2. read' = [r \in Runs |-> [t \in Triggers |-> read'[r][t]]]
      BY DEF Tick
    <3>3. QED
      BY <3>1, <3>2
  <2>4. \A r \in Runs, w \in Workers :
          worker'[r][w].pc \in {"fetch", "process"} <=> worker'[r][w].todo # {}
    <3>1. SUFFICES ASSUME NEW r \in Runs, NEW w \in Workers
                   PROVE  worker'[r][w].pc \in {"fetch", "process"} <=> worker'[r][w].todo # {}
      OBVIOUS
    <3>2. worker'[r][w].pc = worker[r][w].pc /\ worker'[r][w].todo = worker[r][w].todo
      BY TickWorker
    <3>3. worker[r][w].pc \in {"fetch", "process"} <=> worker[r][w].todo # {}
      BY <1>1 DEF TypeOK
    <3>4. QED
      BY <3>2, <3>3
  <2>5. trigger' \in [Triggers -> [exists: BOOLEAN, since: 0..Cooldown]]
    BY TickTrigger
  <2>6. QED
    BY <1>1, <1>2, <1>3, <2>1, <2>2, <2>3, <2>4, <2>5 DEF TypeOK
<1>5. ASSUME NEW r \in Runs PROVE RunOK(r)'
  <2>1. /\ run'[r].pc = run[r].pc
        /\ run'[r].queue = IF Gone(r) THEN {} ELSE run[r].queue
        /\ run[r].pc = "poll" => /\ run'[r].held = run[r].held /\ run[r].timer > 0
                                 /\ run'[r].timer = run[r].timer - 1
        /\ run[r].pc = "find" => run[r].age < FindBound /\ run'[r].age = run[r].age + 1
    BY TickRun
  <2>2. ASSUME NEW w \in Workers
        PROVE  /\ worker'[r][w].pc = worker[r][w].pc /\ worker'[r][w].todo = worker[r][w].todo
               /\ worker[r][w].pc # "off" => /\ Busy(worker[r][w])
                                             /\ worker[r][w].age < GroupBound
                                             /\ worker'[r][w].age = worker[r][w].age + 1
    BY TickWorker
  <2>3. Working(r)' <=> Working(r)
    BY <2>2 DEF Working
  <2>4. /\ lock.left \in Nat /\ run[r].timer \in Nat /\ run[r].age \in Nat
        /\ \A w \in Workers : worker[r][w].age \in Nat
    BY <1>1, LockOK, RowsOf, Numbers DEF RunRecord, WorkerRecord
  <2>5. Holds(r)'
    <3>1. CASE run[r].pc = "find"
      <4>1. ~Working(r) /\ lock.by = r /\ lock.left + run[r].age >= LockTTL
        BY <1>1, <3>1 DEF RunOK, Holds
      <4>2. lock.left > 1
        BY <2>1, <2>4, <3>1, <4>1, Numbers DEF LockOutlasts
      <4>3. lock'.by = r /\ lock'.left + run'[r].age >= LockTTL
        BY <1>3, <2>1, <2>4, <3>1, <4>1, <4>2, Numbers
      <4>4. QED
        BY <2>1, <2>3, <3>1, <4>1, <4>3 DEF Holds
    <3>2. CASE run[r].pc = "poll"
      <4>1. ASSUME run[r].held
            PROVE  /\ lock'.by = r
                   /\ lock'.left + FindBound + RenewEvery >= LockTTL + run'[r].timer
        <5>1. lock.by = r /\ lock.left + FindBound + RenewEvery >= LockTTL + run[r].timer
          BY <1>1, <3>2, <4>1 DEF RunOK, Holds
        <5>2. lock.left > 1
          BY <2>1, <2>4, <3>2, <5>1, Numbers DEF LockOutlasts
        <5>3. QED
          BY <1>3, <2>1, <2>4, <3>2, <5>1, <5>2, Numbers
      <4>2. ASSUME NEW w \in Workers, worker[r][w].pc # "off"
            PROVE  lock'.by = r /\ lock'.left + worker'[r][w].age > GroupBound
        <5>1. lock.by = r /\ lock.left + worker[r][w].age > GroupBound
          BY <1>1, <2>2, <3>2, <4>2 DEF RunOK, Holds
        <5>2. lock.left > 1
          BY <2>2, <2>4, <4>2, <5>1, Numbers
        <5>3. QED
          BY <1>3, <2>2, <2>4, <4>2, <5>1, <5>2, Numbers
      <4>3. QED
        BY <2>1, <2>2, <3>2, <4>1, <4>2 DEF Holds, Busy
    <3>3. CASE run[r].pc \notin {"find", "poll"}
      BY <1>1, <1>2, <2>1, <2>3, <3>3 DEF RunOK, Holds
    <3>4. QED
      BY <3>1, <3>2, <3>3
  <2>6. CASE Gone(r)
    <3>1. ~Working(r)
      BY <2>6 DEF Gone
    <3>2. \A w \in Workers : worker'[r][w].todo = {}
      BY <1>1, <2>2, <3>1, OffIdles
    <3>3. Divided(r)' /\ Agrees(r)'
      BY <2>1, <2>3, <2>6, <3>1, <3>2 DEF Divided, Agrees
    <3>4. QED
      BY <2>5, <3>3 DEF RunOK
  <2>7. CASE ~Gone(r)
    <3>1. \A t \in Triggers : /\ read'[r][t].found = read[r][t].found
                              /\ read'[r][t].since = Age(read[r][t].since)
      BY <2>7, TickRead
    <3>2. run'[r].queue = run[r].queue
      BY <2>1, <2>7
    <3>3. Divided(r)'
      BY <1>1, <2>2, <3>1, <3>2 DEF RunOK, Divided
    <3>4. \A t \in Triggers : Pending(r, t)' <=> Pending(r, t)
      BY <2>2, <3>1, <3>2 DEF Pending
    <3>5. Agrees(r)'
      BY <1>1, <1>2, <2>3, <3>1, <3>4, TickTrigger DEF RunOK, Agrees
    <3>6. QED
      BY <2>5, <3>3, <3>5 DEF RunOK
  <2>8. QED
    BY <2>6, <2>7
<1>6. QED
  BY <1>4, <1>5 DEF CycleInv

----------------------------------------------------------------------------
(* The invariant *)

LEMMA InitCycle == Init => CycleInv
<1>1. SUFFICES ASSUME Init PROVE CycleInv
  OBVIOUS
<1>2. /\ lock = FreeLock /\ faults = 0 /\ orphaned = FALSE
      /\ run = [r \in Runs |-> IdleRun]
      /\ read = [r \in Runs |-> [t \in Triggers |-> NotRead]]
      /\ worker = [r \in Runs |-> [w \in Workers |-> Off]]
      /\ trigger = [t \in Triggers |-> [exists |-> TRUE, since |-> Cooldown]]
  BY <1>1 DEF Init, NoWorkers
<1>3. PICK idle : idle = IdleRun /\ idle \in RunRecord /\ idle.pc = "idle" /\ idle.queue = {}
  <2>1. PICK new : new = [IdleRun EXCEPT !.pc = "idle"]
    OBVIOUS
  <2>2. new = IdleRun
    BY <2>1 DEF IdleRun
  <2>3. new \in RunRecord /\ new.pc = "idle" /\ new.queue = {}
    BY <2>1, IdleRunOK
  <2>4. QED
    BY <2>2, <2>3
<1>4. PICK o : o = Off /\ o \in WorkerRecord /\ o.pc = "off" /\ o.todo = {}
  BY OffOK
<1>5. /\ \A r \in Runs : run[r] = idle
      /\ \A r \in Runs, w \in Workers : worker[r][w] = o
  BY <1>2, <1>3, <1>4
<1>6. TypeOK
  <2>1. Cooldown \in 0..Cooldown /\ 0 \in 0..MaxFaults
    BY Numbers
  <2>2. run \in [Runs -> RunRecord] /\ worker \in [Runs -> [Workers -> WorkerRecord]]
    BY <1>2, <1>3, <1>4
  <2>3. read \in [Runs -> [Triggers -> ReadRecord]]
    <3>1. NotRead \in ReadRecord
      BY <2>1, Zenon DEF NotRead, ReadRecord
    <3>2. QED
      BY <1>2, <3>1
  <2>4. trigger \in [Triggers -> [exists: BOOLEAN, since: 0..Cooldown]]
    <3>1. [exists |-> TRUE, since |-> Cooldown] \in [exists: BOOLEAN, since: 0..Cooldown]
      BY <2>1, Zenon
    <3>2. QED
      BY <1>2, <3>1
  <2>5. lock \in [by: Runs \cup {None}, left: 0..LockTTL]
    BY <1>2, Numbers DEF FreeLock
  <2>6. \A r \in Runs, w \in Workers :
          worker[r][w].pc \in {"fetch", "process"} <=> worker[r][w].todo # {}
    BY <1>4, <1>5
  <2>7. faults \in 0..MaxFaults
    BY <1>2, <2>1
  <2>8. orphaned \in BOOLEAN
    BY <1>2
  <2>9. QED
    BY <2>2, <2>3, <2>4, <2>5, <2>6, <2>7, <2>8 DEF TypeOK
<1>7. ASSUME NEW r \in Runs PROVE RunOK(r)
  <2>1. ~Working(r)
    BY <1>4, <1>5 DEF Working
  <2>2. QED
    BY <1>3, <1>4, <1>5, <2>1 DEF RunOK, Holds, Divided, Agrees
<1>8. QED
  BY <1>6, <1>7 DEF CycleInv

LEMMA StepCycle ==
  ASSUME LockOutlasts
  PROVE  CycleInv /\ [Next]_vars => CycleInv'
<1>1. SUFFICES ASSUME CycleInv, [Next]_vars PROVE CycleInv'
  OBVIOUS
<1>2. ASSUME NEW r \in Runs, Acquire(r) \/ RunStep(r) \/ RunFault(r) PROVE CycleInv'
  BY <1>1, <1>2, AcquireKeeps, FindActiveKeeps, RenewKeeps, ReleaseKeeps, CrashKeeps
     DEF RunStep, RunFault
<1>3. ASSUME NEW r \in Runs, NEW w \in Workers, WorkerStep(r, w) PROVE CycleInv'
  BY <1>1, <1>3, LoopKeeps, FetchKeeps, ProcessKeeps, ThrowsKeep DEF WorkerStep
<1>4. ASSUME NEW r \in Runs, NEW w \in Workers, NEW t \in worker[r][w].todo,
             DatabaseThrows(r, w, t)
      PROVE  CycleInv'
  BY <1>1, <1>4, ThrowsKeep
<1>5. ASSUME NEW t \in Triggers, Edit(t) PROVE CycleInv'
  BY <1>1, <1>5, EditKeeps
<1>6. CASE Tick
  BY <1>1, <1>6, TickKeeps
<1>7. CASE UNCHANGED vars
  <2>1. UNCHANGED <<lock, run, read, worker, trigger, faults, orphaned>>
    BY <1>7 DEF vars
  <2>2. TypeOK' /\ \A r \in Runs : RunOK(r)'
    BY <1>1, <2>1 DEF CycleInv, TypeOK, RunOK, Holds, Divided, Agrees, Pending, Working
  <2>3. QED
    BY <2>2 DEF CycleInv
<1>8. QED
  BY <1>1, <1>2, <1>3, <1>4, <1>5, <1>6, <1>7 DEF Next

LEMMA AlwaysCycle ==
  ASSUME LockOutlasts
  PROVE  Spec => []CycleInv
<1>1. CycleInv /\ [Next]_vars => CycleInv'
  BY StepCycle
<1>2. QED
  BY <1>1, InitCycle, PTL DEF Spec

(* Every run, worker and trigger keeps its type, while the lock outlasts a *)
(* reading, a beat of the timer and a location.                            *)
THEOREM TypeCorrect ==
  ASSUME LockOutlasts
  PROVE  Spec => []TypeOK
<1>1. CycleInv => TypeOK
  BY DEF CycleInv
<1>2. QED
  BY <1>1, AlwaysCycle, PTL

(* acquireLock, the renewal on a timer and the compare-and-delete keep the *)
(* cycles of a shard apart, for any number of instances and workers and    *)
(* any faults, but for the workers of a run that a sibling's error ended.  *)
(* The TTL need only outlast findActive, one renewal interval and one      *)
(* location together, however long the cycle lasts.                        *)
THEOREM CyclesExclude ==
  ASSUME LockOutlasts
  PROVE  Spec => []OneCycle
<1>1. ASSUME CycleInv PROVE OneCycle
  <2>1. SUFFICES ASSUME NEW r \in Runs, NEW s \in Runs, Polling(r), Polling(s),
                        ~Orphaned(r), ~Orphaned(s)
                 PROVE  r = s
    BY DEF OneCycle
  <2>2. ASSUME NEW q \in Runs, Polling(q), ~Orphaned(q) PROVE lock.by = q
    <3>1. Holds(q)
      BY <1>1 DEF CycleInv, RunOK
    <3>2. QED
      BY <2>2, <3>1 DEF Holds, Polling, Orphaned, Working
  <2>3. QED
    BY <2>1, <2>2
<1>2. QED
  BY <1>1, AlwaysCycle, PTL

(* Every firing of a trigger finds its cooldown over in the row itself,    *)
(* although decide was given the lastFiredAt that findActive had read      *)
(* before the polling began, while no run has left workers behind.         *)
THEOREM CooldownRespected ==
  ASSUME LockOutlasts
  PROVE  Spec => OneAlertPerCooldown
<1>1. ASSUME CycleInv, NEW r \in Runs, NEW w \in Workers, NEW t \in Triggers,
             Commits(r, w, t, "FIRE"), ~orphaned
      PROVE  trigger[t].since = Cooldown
  <2>1. TypeOK /\ Agrees(r)
    BY <1>1 DEF CycleInv, RunOK
  <2>2. worker[r][w].pc = "process" /\ t \in worker[r][w].todo /\ "FIRE" \in Decided(r, t)
    BY <1>1 DEF Commits, Current
  <2>3. Working(r) /\ Pending(r, t)
    BY <2>2 DEF Working, Pending
  <2>4. read[r][t].since = trigger[t].since
    BY <1>1, <2>1, <2>3 DEF Agrees
  <2>5. read[r][t].since \in 0..Cooldown
    BY <2>1, RowsOf DEF ReadRecord
  <2>6. read[r][t].since = -1 \/ read[r][t].since >= Cooldown
    BY <2>2 DEF Decided, DecisionOf, D!Decide, D!IsCooldownElapsed, D!Null
  <2>7. QED
    BY <2>4, <2>5, <2>6, Numbers
<1>2. CycleInv => \A r \in Runs, w \in Workers, t \in Triggers :
                    Commits(r, w, t, "FIRE") /\ ~orphaned => trigger[t].since = Cooldown
  BY <1>1
<1>3. QED
  BY <1>2, AlwaysCycle, PTL DEF OneAlertPerCooldown

----------------------------------------------------------------------------
(* One trigger over time: TriggerLifecycle, beside the cycles above *)

CONSTANTS HoursPerDay, MinutesPerHour, ZoneOffset, SevereCodes, EqTolerance,
          Period, Cooldowns, Windows, ConditionSets, Snapshots, MaxEdits

VARIABLES now, stored, quiet, edits, phase, seen, replaced, decision, heard, postponed

T == INSTANCE TriggerLifecycle WITH trigger <- stored, read <- seen

(* What the theorems below assume of the constants, as TriggerLifecycle. *)
TriggerAssumption == T!DecisionAssumption /\ T!LifecycleAssumption /\ T!WindowsAssumption

TriggerRecord ==
  [state: {"ARMED", "FIRED"}, since: T!Null..T!SinceCap, cooldown: Cooldowns,
   conditions: ConditionSets, logic: {"AND", "OR"}, active: BOOLEAN]

(* The stored lastFiredAt is when the owner was last alerted, and a cycle  *)
(* decides on that very value: whatever is edited between its reading and  *)
(* its write, lastFiredAt is not.                                          *)
TriggerInv ==
  /\ T!TypeOK
  /\ stored \in TriggerRecord
  /\ heard = stored.since
  /\ \A r \in seen : /\ phase = "loaded" /\ r.quiet \in Windows
                     /\ r.trigger.since = heard /\ r.trigger.cooldown \in Cooldowns
  /\ \A r, s \in seen : r = s

(* The remainder by a positive modulus, one turn to either side. *)
LEMMA OneTurn ==
  ASSUME NEW Day \in Nat \ {0}, NEW x \in Int
  PROVE  /\ x % Day \in 0..(Day - 1)
         /\ x \in 0..(Day - 1) => x % Day = x
         /\ x \in Day..(2 * Day - 1) => x % Day = x - Day
         /\ x \in (-Day)..(-1) => x % Day = x + Day
<1>1. x % Day \in 0..(Day - 1)
  OBVIOUS
<1>2. x \in 0..(Day - 1) => x % Day = x
  OBVIOUS
<1>3. x \in Day..(2 * Day - 1) => x % Day = x - Day
  OBVIOUS
<1>4. x \in (-Day)..(-1) => x % Day = x + Day
  OBVIOUS
<1>5. QED
  BY <1>1, <1>2, <1>3, <1>4

(* A day has minutes, and there is a longest cooldown. *)
LEMMA TriggerNumbers ==
  ASSUME TriggerAssumption
  PROVE  /\ T!DayMinutes \in Nat \ {0} /\ Period \in Nat \ {0} /\ MaxEdits \in Nat
         /\ T!MaxCooldown \in Nat \ {0} /\ T!SinceCap \in Nat \ {0}
         /\ \A c \in Cooldowns : c \in Nat \ {0} /\ c <= T!MaxCooldown
<1>1. HoursPerDay \in Nat \ {0} /\ MinutesPerHour \in Nat \ {0}
  BY DEF TriggerAssumption, T!DecisionAssumption
<1>2. T!DayMinutes \in Nat \ {0}
  BY <1>1 DEF T!DayMinutes
<1>3. /\ Period \in Nat \ {0} /\ MaxEdits \in Nat /\ Cooldowns \subseteq Nat \ {0}
      /\ \E m \in Cooldowns : \A c \in Cooldowns : c <= m
  BY DEF TriggerAssumption, T!LifecycleAssumption
<1>4. T!MaxCooldown \in Cooldowns /\ \A c \in Cooldowns : c <= T!MaxCooldown
  BY <1>3 DEF T!MaxCooldown
<1>5. QED
  BY <1>2, <1>3, <1>4 DEF T!SinceCap

(* A time span grows by a period up to the cap. *)
LEMMA AgeTyped ==
  ASSUME TriggerAssumption, NEW n \in T!Null..T!SinceCap
  PROVE  T!Age(n) \in T!Null..T!SinceCap
  BY TriggerNumbers DEF T!Age, T!Null

(* What a poll writes is again a trigger: only a firing resets its clock. *)
LEMMA WrittenTyped ==
  ASSUME TriggerAssumption, NEW t \in TriggerRecord, NEW d
  PROVE  /\ T!Written(t, d) \in TriggerRecord
         /\ T!Written(t, d).since = IF d = "FIRE" THEN 0 ELSE t.since
<1>1. 0 \in T!Null..T!SinceCap
  BY TriggerNumbers DEF T!Null
<1>2. CASE d = "FIRE"
  BY <1>1, <1>2 DEF T!Written, TriggerRecord
<1>3. CASE d = "REARM"
  BY <1>3 DEF T!Written, TriggerRecord
<1>4. CASE d \notin {"FIRE", "REARM"}
  BY <1>4 DEF T!Written, TriggerRecord
<1>5. QED
  BY <1>2, <1>3, <1>4

(* decide alerts only past the cooldown and outside the quiet hours. *)
LEMMA FireDecision ==
  ASSUME NEW state, NEW since, NEW cooldown, NEW matched, NEW silent
  PROVE  /\ T!Decide(state, since, cooldown, matched, silent) \in T!Decisions
         /\ T!Decide(state, since, cooldown, matched, silent) = "FIRE" =>
              T!IsCooldownElapsed(since, cooldown) /\ ~silent
<1>1. T!Decide(state, since, cooldown, matched, silent) \in T!Decisions
  BY DEF T!Decide, T!Decisions
<1>2. T!Decide(state, since, cooldown, matched, silent) = "FIRE" =>
        T!IsCooldownElapsed(since, cooldown) /\ ~silent
  BY DEF T!Decide
<1>3. QED
  BY <1>1, <1>2

LEMMA InitTriggerInv ==
  ASSUME TriggerAssumption, T!Init
  PROVE  TriggerInv
<1>1. T!Null \in T!Null..T!SinceCap /\ 0 \in 0..(T!DayMinutes - 1) /\ 0 \in 0..MaxEdits
  BY TriggerNumbers DEF T!Null
<1>2. stored \in TriggerRecord /\ stored.since = T!Null
  BY <1>1 DEF T!Init, TriggerRecord
<1>3. T!TypeOK
  BY <1>1, <1>2 DEF T!Init, T!TypeOK, TriggerRecord, T!Decisions
<1>4. QED
  BY <1>2, <1>3 DEF T!Init, TriggerInv

(* The poll: what the cycle read decides what is written to what is stored. *)
LEMMA PollStep ==
  ASSUME TriggerAssumption, TriggerInv, NEW w \in Snapshots, T!Poll(w)
  PROVE  /\ TriggerInv'
         /\ \A r \in seen : decision' = "FIRE" =>
              /\ T!IsCooldownElapsed(heard, r.trigger.cooldown)
              /\ ~T!IsWithinQuietHours(now, r.quiet)
<1>1. PICK q \in seen :
        LET t == q.trigger
            matched == T!EvaluateConditions(w, t.conditions, t.logic)
            d == T!Decide(t.state, t.since, t.cooldown, matched,
                          T!IsWithinQuietHours(now, q.quiet))
        IN IF replaced
           THEN /\ decision' = "FAILED"
                /\ UNCHANGED <<stored, heard, postponed>>
           ELSE /\ stored' = T!Written(stored, d)
                /\ decision' = d
                /\ heard' = IF d = "FIRE" THEN 0 ELSE heard
                /\ postponed' = (d \in T!Suppressions /\ (postponed \/ t.state = "ARMED"))
  BY DEF T!Poll
<1> DEFINE t == q.trigger
           matched == T!EvaluateConditions(w, t.conditions, t.logic)
           silent == T!IsWithinQuietHours(now, q.quiet)
           d == T!Decide(t.state, t.since, t.cooldown, matched, silent)
<1>2. /\ replaced => decision' = "FAILED" /\ stored' = stored /\ heard' = heard
      /\ ~replaced => /\ stored' = T!Written(stored, d) /\ decision' = d
                      /\ heard' = IF d = "FIRE" THEN 0 ELSE heard
  BY <1>1
<1>3. d \in T!Decisions /\ (d = "FIRE" => T!IsCooldownElapsed(t.since, t.cooldown) /\ ~silent)
  BY FireDecision
<1>4. t.since = heard /\ \A r \in seen : r = q
  BY DEF TriggerInv
<1>5. /\ phase' = "done" /\ seen' = {} /\ replaced' = FALSE
      /\ now' = now /\ quiet' = quiet /\ edits' = edits
  BY DEF T!Poll
<1> HIDE DEF d, matched, silent, t
<1>6. /\ stored' \in TriggerRecord /\ heard' = stored'.since
      /\ decision' \in T!Decisions \cup {"FAILED"}
  BY <1>2, <1>3, WrittenTyped DEF TriggerInv
<1>7. T!TypeOK'
  <2>1. postponed' \in BOOLEAN
    BY <1>1 DEF TriggerInv, T!TypeOK
  <2>2. QED
    BY <1>5, <1>6, <2>1 DEF TriggerInv, T!TypeOK, TriggerRecord
<1>8. TriggerInv'
  BY <1>5, <1>6, <1>7 DEF TriggerInv
<1>9. ASSUME NEW r \in seen, decision' = "FIRE"
      PROVE  /\ T!IsCooldownElapsed(heard, r.trigger.cooldown)
             /\ ~T!IsWithinQuietHours(now, r.quiet)
  <2>1. d = "FIRE" /\ r = q
    BY <1>2, <1>4, <1>9
  <2>2. T!IsCooldownElapsed(t.since, t.cooldown) /\ ~silent
    BY <1>3, <2>1
  <2>3. QED
    BY <1>4, <2>1, <2>2 DEF t, silent
<1>10. QED
  BY <1>8, <1>9

LEMMA StepTriggerInv ==
  ASSUME TriggerAssumption, TriggerInv, [T!Next]_(T!vars)
  PROVE  TriggerInv'
<1>1. CASE T!FindActive
  <2>1. /\ now' = now /\ stored' = stored /\ quiet' = quiet /\ edits' = edits
        /\ decision' = decision /\ heard' = heard /\ postponed' = postponed /\ replaced' = FALSE
        /\ phase' = IF stored.active THEN "loaded" ELSE "done"
        /\ seen' = IF stored.active THEN {[trigger |-> stored, quiet |-> quiet]} ELSE {}
    BY <1>1 DEF T!FindActive, T!ghosts
  <2>2. T!TypeOK'
    BY <2>1 DEF TriggerInv, T!TypeOK
  <2>3. \A r \in seen' : /\ phase' = "loaded" /\ r.quiet \in Windows
                         /\ r.trigger.since = heard' /\ r.trigger.cooldown \in Cooldowns
    BY <2>1 DEF TriggerInv, T!TypeOK, TriggerRecord
  <2>4. QED
    BY <2>1, <2>2, <2>3 DEF TriggerInv
<1>2. CASE \E w \in Snapshots : T!Poll(w)
  BY <1>2, PollStep
<1>3. CASE T!Advance
  <2>1. /\ phase = "done" /\ phase' = "due" /\ now' = (now + Period) % T!DayMinutes
        /\ stored' = [stored EXCEPT !.since = T!Age(@)] /\ heard' = T!Age(heard)
        /\ quiet' = quiet /\ edits' = edits /\ seen' = seen /\ replaced' = replaced
        /\ decision' = decision /\ postponed' = postponed
    BY <1>3 DEF T!Advance
  <2>2. now' \in 0..(T!DayMinutes - 1)
    BY <2>1, TriggerNumbers, OneTurn DEF TriggerInv, T!TypeOK
  <2>3. T!Age(stored.since) \in T!Null..T!SinceCap
    BY AgeTyped DEF TriggerInv, TriggerRecord
  <2>4. stored' \in TriggerRecord /\ stored'.since = T!Age(stored.since)
    BY <2>1, <2>3 DEF TriggerInv, TriggerRecord
  <2>5. heard' = stored'.since /\ seen = {}
    BY <2>1, <2>4 DEF TriggerInv
  <2>6. T!TypeOK'
    BY <2>1, <2>2, <2>4, <2>5 DEF TriggerInv, T!TypeOK, TriggerRecord
  <2>7. QED
    BY <2>1, <2>4, <2>5, <2>6 DEF TriggerInv
<1>4. CASE T!UpdateTrigger
  <2>1. PICK c \in Cooldowns, l \in {"AND", "OR"}, a \in BOOLEAN :
          LET edited == [stored EXCEPT !.cooldown = c, !.logic = l, !.active = a] IN
          \/ stored' = edited /\ UNCHANGED replaced
          \/ /\ \E cs \in ConditionSets : stored' = [edited EXCEPT !.conditions = cs]
             /\ replaced' = (phase = "loaded")
    BY <1>4 DEF T!UpdateTrigger
  <2>2. /\ edits < MaxEdits /\ edits' = edits + 1 /\ now' = now /\ quiet' = quiet
        /\ phase' = phase /\ seen' = seen /\ decision' = decision /\ heard' = heard
        /\ postponed' = postponed
    BY <1>4 DEF T!UpdateTrigger, T!cycle, T!ghosts
  <2>3. stored' \in TriggerRecord /\ stored'.since = stored.since /\ replaced' \in BOOLEAN
    BY <2>1 DEF TriggerInv, T!TypeOK, TriggerRecord
  <2>4. edits' \in 0..MaxEdits
    BY <2>2, TriggerNumbers DEF TriggerInv, T!TypeOK
  <2>5. T!TypeOK'
    BY <2>2, <2>3, <2>4 DEF TriggerInv, T!TypeOK, TriggerRecord
  <2>6. QED
    BY <2>2, <2>3, <2>5 DEF TriggerInv
<1>5. CASE T!UpdateProfile
  <2>1. /\ edits < MaxEdits /\ edits' = edits + 1 /\ now' = now /\ quiet' \in Windows
        /\ stored' = stored /\ phase' = phase /\ seen' = seen /\ replaced' = replaced
        /\ decision' = decision /\ heard' = heard /\ postponed' = postponed
    BY <1>5 DEF T!UpdateProfile, T!cycle, T!ghosts
  <2>2. edits' \in 0..MaxEdits
    BY <2>1, TriggerNumbers DEF TriggerInv, T!TypeOK
  <2>3. QED
    BY <2>1, <2>2 DEF TriggerInv, T!TypeOK
<1>6. CASE UNCHANGED T!vars
  BY <1>6 DEF T!vars, TriggerInv, T!TypeOK
<1>7. QED
  BY <1>1, <1>2, <1>3, <1>4, <1>5, <1>6 DEF T!Next

(* Only a poll stages an alert. *)
LEMMA FiresIsPoll ==
  ASSUME [T!Next]_(T!vars), NEW r, T!Fires(r)
  PROVE  r \in seen /\ decision' = "FIRE" /\ \E w \in Snapshots : T!Poll(w)
<1>1. phase = "loaded" /\ phase' = "done" /\ decision' = "FIRE" /\ r \in seen
  BY DEF T!Fires
<1>2. ~T!FindActive /\ ~T!Advance
  BY <1>1 DEF T!FindActive, T!Advance
<1>3. ~T!UpdateTrigger /\ ~T!UpdateProfile /\ ~UNCHANGED T!vars
  BY <1>1 DEF T!UpdateTrigger, T!UpdateProfile, T!cycle, T!vars
<1>4. QED
  BY <1>1, <1>2, <1>3 DEF T!Next

(* The bounds a profile may hold are minutes of the day. *)
LEMMA BoundsParse ==
  ASSUME TriggerAssumption, NEW w \in Windows, NEW v \in w.start \cup w.end
  PROVE  T!ParseHHMM(v) \in 0..(T!DayMinutes - 1)
<1>1. /\ v.hh \in 0..(HoursPerDay - 1) /\ v.mm \in 0..(MinutesPerHour - 1)
      /\ HoursPerDay \in Nat \ {0} /\ MinutesPerHour \in Nat \ {0}
  BY DEF TriggerAssumption, T!WindowsAssumption, T!DecisionAssumption
<1>2. T!ParseHHMM(v) = v.hh * MinutesPerHour + v.mm
  BY <1>1 DEF T!ParseHHMM
<1>3. ASSUME NEW H \in Nat \ {0}, NEW M \in Nat \ {0}, NEW h \in 0..(H - 1), NEW m \in 0..(M - 1)
      PROVE  h * M + m \in 0..(H * M - 1)
  OBVIOUS
<1>4. QED
  BY <1>1, <1>2, <1>3 DEF T!DayMinutes

(* The comparisons of isWithinQuietHours cover the walk from start to end, *)
(* whether or not it wraps past midnight.                                  *)
LEMMA ArcIsQuiet ==
  ASSUME TriggerAssumption, NEW start \in 0..(T!DayMinutes - 1), NEW end \in 0..(T!DayMinutes - 1),
         NEW local \in T!Arc(start, end)
  PROVE  /\ start # end
         /\ IF start < end THEN local >= start /\ local < end
                           ELSE local >= start \/ local < end
<1> DEFINE Day == T!DayMinutes
<1>1. Day \in Nat \ {0}
  BY TriggerNumbers
<1>2. PICK k \in 0..(((end - start) % Day) - 1) : local = (start + k) % Day
  BY DEF T!Arc
<1> HIDE DEF Day
<1>3. start \in 0..(Day - 1) /\ end \in 0..(Day - 1) /\ end - start \in Int /\ start + k \in Int
  BY <1>1 DEF Day
<1>4. CASE start = end
  <2>1. end - start = 0 /\ end - start \in 0..(Day - 1)
    BY <1>1, <1>3, <1>4
  <2>2. (end - start) % Day = end - start
    BY <1>1, <1>3, <2>1, OneTurn, Zenon
  <2>3. QED
    BY <1>2, <2>1, <2>2
<1>5. CASE start < end
  <2>1. end - start \in 0..(Day - 1)
    BY <1>1, <1>3, <1>5
  <2>2. (end - start) % Day = end - start
    BY <1>1, <1>3, <2>1, OneTurn, Zenon
  <2>3. k \in 0..(end - start - 1)
    BY <1>2, <2>2
  <2>4. start + k \in start..(end - 1) /\ start + k \in 0..(Day - 1)
    BY <1>1, <1>3, <1>5, <2>3
  <2>5. local = start + k
    BY <1>1, <1>2, <1>3, <2>4, OneTurn, Zenon
  <2>6. QED
    BY <1>3, <1>5, <2>4, <2>5
<1>6. CASE start > end
  <2>1. end - start \in (-Day)..(-1)
    BY <1>1, <1>3, <1>6
  <2>2. (end - start) % Day = end - start + Day
    BY <1>1, <1>3, <2>1, OneTurn, Zenon
  <2>3. k \in 0..((end - start + Day) - 1)
    BY <1>2, <2>2, Zenon
  <2>4. start + k \in start..(Day + end - 1)
    BY <1>1, <1>3, <2>3
  <2>5. CASE start + k < Day
    <3>1. start + k \in 0..(Day - 1)
      BY <1>1, <1>3, <2>4, <2>5
    <3>2. local = start + k
      BY <1>1, <1>2, <1>3, <3>1, OneTurn, Zenon
    <3>3. QED
      BY <1>3, <1>6, <2>4, <3>2
  <2>6. CASE start + k >= Day
    <3>1. start + k \in Day..(2 * Day - 1)
      BY <1>1, <1>3, <2>4, <2>6
    <3>2. local = (start + k) - Day
      BY <1>1, <1>2, <1>3, <3>1, OneTurn, Zenon
    <3>3. QED
      BY <1>1, <1>3, <1>6, <2>4, <3>1, <3>2
  <2>7. QED
    BY <1>1, <1>3, <2>4, <2>5, <2>6
<1>7. QED
  BY <1>3, <1>4, <1>5, <1>6

(* And they cover nothing but that walk. *)
LEMMA QuietIsArc ==
  ASSUME TriggerAssumption, NEW start \in 0..(T!DayMinutes - 1), NEW end \in 0..(T!DayMinutes - 1),
         NEW local \in 0..(T!DayMinutes - 1), start # end,
         IF start < end THEN local >= start /\ local < end
                        ELSE local >= start \/ local < end
  PROVE  local \in T!Arc(start, end)
<1> DEFINE Day == T!DayMinutes
<1>1. Day \in Nat \ {0}
  BY TriggerNumbers
<1>2. ASSUME NEW k \in 0..(((end - start) % Day) - 1), (start + k) % Day = local
      PROVE  local \in T!Arc(start, end)
  BY <1>2 DEF T!Arc
<1> HIDE DEF Day
<1>3. /\ start \in 0..(Day - 1) /\ end \in 0..(Day - 1) /\ local \in 0..(Day - 1)
      /\ end - start \in Int /\ local \in Int
  BY <1>1 DEF Day
<1>4. local % Day = local
  BY <1>1, <1>3, OneTurn, Zenon
<1>5. CASE start < end
  <2>1. end - start \in 0..(Day - 1)
    BY <1>1, <1>3, <1>5
  <2>2. (end - start) % Day = end - start
    BY <1>1, <1>3, <2>1, OneTurn, Zenon
  <2>3. local - start \in 0..((end - start) - 1) /\ start + (local - start) = local
    BY <1>3, <1>5
  <2>4. local - start \in 0..(((end - start) % Day) - 1)
    BY <2>2, <2>3, Zenon
  <2>5. (start + (local - start)) % Day = local
    BY <1>4, <2>3, Zenon
  <2>6. QED
    BY <1>2, <2>4, <2>5, Zenon
<1>6. CASE start > end
  <2>1. end - start \in (-Day)..(-1)
    BY <1>1, <1>3, <1>6
  <2>2. (end - start) % Day = end - start + Day
    BY <1>1, <1>3, <2>1, OneTurn, Zenon
  <2>3. CASE local >= start
    <3>1. local - start \in 0..((end - start + Day) - 1) /\ start + (local - start) = local
      BY <1>1, <1>3, <2>3
    <3>2. local - start \in 0..(((end - start) % Day) - 1)
      BY <2>2, <3>1, Zenon
    <3>3. (start + (local - start)) % Day = local
      BY <1>4, <3>1, Zenon
    <3>4. QED
      BY <1>2, <3>2, <3>3, Zenon
  <2>4. CASE local < end
    <3> DEFINE k == (local + Day) - start
    <3>1. /\ k \in 0..((end - start + Day) - 1) /\ start + k = local + Day
          /\ local + Day \in Int /\ local + Day \in Day..(2 * Day - 1)
          /\ (local + Day) - Day = local
      BY <1>1, <1>3, <1>6, <2>4
    <3>2. k \in 0..(((end - start) % Day) - 1)
      BY <2>2, <3>1, Zenon
    <3>3. (local + Day) % Day = (local + Day) - Day
      BY <1>1, <3>1, OneTurn, Zenon
    <3>4. (start + k) % Day = local
      BY <3>1, <3>3, Zenon
    <3>5. QED
      BY <1>2, <3>2, <3>4, Zenon
  <2>5. QED
    BY <1>6, <2>3, <2>4, <1>3
<1>7. QED
  BY <1>3, <1>5, <1>6

(* The trigger of every owner keeps its type, in whatever order polls and  *)
(* edits interleave.                                                       *)
THEOREM TriggerTypeCorrect ==
  ASSUME TriggerAssumption
  PROVE  T!Spec => []T!TypeOK
<1>1. T!Init => TriggerInv
  BY InitTriggerInv
<1>2. TriggerInv /\ [T!Next]_(T!vars) => TriggerInv'
  BY StepTriggerInv
<1>3. TriggerInv => T!TypeOK
  BY DEF TriggerInv
<1>4. QED
  BY <1>1, <1>2, <1>3, PTL DEF T!Spec

(* processTrigger stages an alert only when the cooldown its cycle read    *)
(* has passed since the last alert, for every period, set of cooldowns and *)
(* weather and however often the owner edits the trigger in between.       *)
THEOREM CooldownBetweenAlerts ==
  ASSUME TriggerAssumption
  PROVE  T!Spec => T!OneAlertPerCooldown
<1> DEFINE Kept == \A r \in seen : T!Fires(r) => heard = T!Null \/ heard >= r.trigger.cooldown
<1>1. T!Init => TriggerInv
  BY InitTriggerInv
<1>2. TriggerInv /\ [T!Next]_(T!vars) => TriggerInv'
  BY StepTriggerInv
<1>3. TriggerInv /\ [T!Next]_(T!vars) => [Kept]_(T!vars)
  BY FiresIsPoll, PollStep DEF T!IsCooldownElapsed
<1>4. QED
  BY <1>1, <1>2, <1>3, PTL DEF T!Spec, T!OneAlertPerCooldown

(* No alert is staged in a minute of the quiet window its cycle read: the  *)
(* comparisons of isWithinQuietHours agree with walking the clock from the *)
(* start to the end, for every window, zone and poll period.               *)
THEOREM QuietHoursAreSilent ==
  ASSUME TriggerAssumption
  PROVE  T!Spec => T!SilentInQuietHours
<1> DEFINE Silent ==
      \A r \in seen : T!Fires(r) =>
        \A s \in r.quiet.start, e \in r.quiet.end :
          T!LocalMinutes(now, r.quiet.zone) \notin T!Arc(T!ParseHHMM(s), T!ParseHHMM(e))
<1>1. T!Init => TriggerInv
  BY InitTriggerInv
<1>2. TriggerInv /\ [T!Next]_(T!vars) => TriggerInv'
  BY StepTriggerInv
<1>3. ASSUME TriggerInv, [T!Next]_(T!vars) PROVE [Silent]_(T!vars)
  <2>1. SUFFICES ASSUME NEW r \in seen, T!Fires(r),
                        NEW s \in r.quiet.start, NEW e \in r.quiet.end,
                        T!LocalMinutes(now, r.quiet.zone) \in T!Arc(T!ParseHHMM(s), T!ParseHHMM(e))
                 PROVE  FALSE
    OBVIOUS
  <2>2. ~T!IsWithinQuietHours(now, r.quiet)
    BY <1>3, <2>1, FiresIsPoll, PollStep
  <2>3. r.quiet \in Windows
    BY <1>3, <2>1 DEF TriggerInv
  <2>4. /\ T!ParseHHMM(s) \in 0..(T!DayMinutes - 1)
        /\ T!ParseHHMM(e) \in 0..(T!DayMinutes - 1)
    BY <2>1, <2>3, BoundsParse
  <2>5. T!ParseHHMM(s) # T!Null /\ T!ParseHHMM(e) # T!Null
    BY <2>4, TriggerNumbers DEF T!Null
  <2>6. T!IsWithinQuietHours(now, r.quiet)
    BY <2>1, <2>4, <2>5, ArcIsQuiet DEF T!IsWithinQuietHours
  <2>7. QED
    BY <2>2, <2>6
<1>4. TriggerInv /\ [T!Next]_(T!vars) => [Silent]_(T!vars)
  BY <1>3
<1>5. QED
  BY <1>1, <1>2, <1>4, PTL DEF T!Spec, T!SilentInQuietHours

(* isWithinQuietHours, with its comparison for windows that wrap past      *)
(* midnight and its fallback for an unknown zone, computes the reference   *)
(* definition: the owner's clock shows a minute on the walk from the start *)
(* of the window to its end, for every window a profile can hold.          *)
THEOREM QuietHoursExact ==
  ASSUME TriggerAssumption, NEW w \in Windows, NEW n \in 0..(T!DayMinutes - 1)
  PROVE  T!IsWithinQuietHours(n, w) <=>
           \E s \in w.start, e \in w.end :
             T!LocalMinutes(n, w.zone) \in T!Arc(T!ParseHHMM(s), T!ParseHHMM(e))
<1> DEFINE local == T!LocalMinutes(n, w.zone)
<1>1. local \in 0..(T!DayMinutes - 1)
  <2>1. ASSUME w.zone \in DOMAIN ZoneOffset PROVE n + ZoneOffset[w.zone] \in Int
    BY <2>1, TriggerNumbers DEF TriggerAssumption, T!DecisionAssumption
  <2>2. QED
    BY <2>1, TriggerNumbers, OneTurn DEF T!LocalMinutes
<1>2. ASSUME NEW s \in w.start, NEW e \in w.end
      PROVE  /\ T!ParseHHMM(s) \in 0..(T!DayMinutes - 1)
             /\ T!ParseHHMM(e) \in 0..(T!DayMinutes - 1)
             /\ T!ParseHHMM(s) # T!Null /\ T!ParseHHMM(e) # T!Null
  <2>1. /\ T!ParseHHMM(s) \in 0..(T!DayMinutes - 1)
        /\ T!ParseHHMM(e) \in 0..(T!DayMinutes - 1)
    BY BoundsParse
  <2>2. QED
    BY <2>1, TriggerNumbers DEF T!Null
<1> HIDE DEF local
<1>3. ASSUME NEW s \in w.start, NEW e \in w.end, local \in T!Arc(T!ParseHHMM(s), T!ParseHHMM(e))
      PROVE  T!IsWithinQuietHours(n, w)
  BY <1>2, <1>3, ArcIsQuiet DEF T!IsWithinQuietHours, local
<1>4. ASSUME T!IsWithinQuietHours(n, w)
      PROVE  \E s \in w.start, e \in w.end : local \in T!Arc(T!ParseHHMM(s), T!ParseHHMM(e))
  <2>1. PICK s \in w.start, e \in w.end :
          /\ T!ParseHHMM(s) # T!ParseHHMM(e)
          /\ IF T!ParseHHMM(s) < T!ParseHHMM(e)
             THEN local >= T!ParseHHMM(s) /\ local < T!ParseHHMM(e)
             ELSE local >= T!ParseHHMM(s) \/ local < T!ParseHHMM(e)
    BY <1>4 DEF T!IsWithinQuietHours, local
  <2>2. local \in T!Arc(T!ParseHHMM(s), T!ParseHHMM(e))
    BY <1>1, <1>2, <2>1, QuietIsArc
  <2>3. QED
    BY <2>2
<1>5. QED
  BY <1>3, <1>4 DEF local
=============================================================================
