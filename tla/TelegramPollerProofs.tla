------------------------ MODULE TelegramPollerProofs ------------------------
(***************************************************************************)
(* The safety properties of TelegramPoller, for every number of replicas,  *)
(* updates and links and every TTL.                                        *)
(***************************************************************************)
EXTENDS TelegramPoller, TLAPS

Offsets   == 0..(MaxUpdates + 1)
RepRecord == [pc: Leading \cup {"standby", "off"}, running: BOOLEAN, offset: Offsets,
              persisted: Offsets, batch: Seq(1..MaxUpdates), age: 0..PassBound]

(* The batch of a replica that handles it is a run of updates, and what    *)
(* comes before it is done.                                                *)
BatchOK(r) ==
  rep[r].pc \in Handling =>
    /\ rep[r].batch # <<>>
    /\ \A k \in 1..Len(rep[r].batch) : rep[r].batch[k] = Head(rep[r].batch) + k - 1
    /\ Head(rep[r].batch) + Len(rep[r].batch) - 1 <= Len(inbox)
    /\ rep[r].offset <= Head(rep[r].batch)
    /\ \A i \in 1..MaxUpdates : i < Head(rep[r].batch) => i \in handled

(* Offsets name an update that was sent, or the one after the last. *)
Cursors ==
  /\ confirmed <= Len(inbox) + 1 /\ stored <= Len(inbox) + 1
  /\ \A r \in Replicas : rep[r].offset <= Len(inbox) + 1

(* A replica that renewed the lock in time holds it, for at least the time *)
(* it has left.                                                            *)
LeaseHeld ==
  \A r \in Replicas : Fresh(r) => lock.by = r /\ lock.left + rep[r].age >= LockTTL

(* The links: the account's live link and the ones being bound are not     *)
(* among the dead, and no link is issued twice.                            *)
LinksOK ==
  /\ user.link <= issued /\ \A l \in dead : l <= issued
  /\ \A i \in 1..Len(inbox) : inbox[i] <= issued
  /\ user.link # NoLink /\ ~user.expired => user.link \notin dead
  /\ \A r \in Replicas : rep[r].pc = "bind" => LinkOf(r) \notin dead

PollerInv ==
  /\ TypeOK
  /\ \A r \in Replicas : BatchOK(r)
  /\ Cursors
  /\ NothingSkipped
  /\ LeaseHeld
  /\ LinksOK

Working == Handling \cup {"persist"}

(* Without a failed call, a crash or an overrun, the leader holds the      *)
(* lock, its offset is ahead of the stored one and what was handled is     *)
(* below it; between two leaders it is below the stored one.               *)
Handed ==
  /\ lock.by # None => lock.left > 0
  /\ \A r \in Replicas : rep[r].pc \in Leading => lock.by = r
  /\ \A r \in Replicas : rep[r].persisted <= stored
  /\ \A r \in Replicas : rep[r].pc \notin Working => rep[r].offset <= stored
  /\ \A r \in Replicas : rep[r].pc \in Leading \ {"load"} => stored <= rep[r].offset
  /\ \A r \in Replicas, i \in handled : rep[r].pc \in Working => i < rep[r].offset
  /\ (\A r \in Replicas : rep[r].pc \notin Working) => \A i \in handled : i < stored
  /\ again = {}

Handover == faults = 0 /\ ~overran => Handed

----------------------------------------------------------------------------
(* The records the actions build *)

Pcs == Leading \cup {"standby", "off"}

(* TypeOK but for the replicas. *)
OthersTyped ==
  /\ inbox \in Seq({NoLink} \cup Links) /\ Len(inbox) <= MaxUpdates
  /\ confirmed \in 1..(MaxUpdates + 1) /\ stored \in 0..(MaxUpdates + 1)
  /\ lock \in [by: Replicas \cup {None}, left: 0..LockTTL]
  /\ user \in [link: {NoLink} \cup Links, expired: BOOLEAN, chat: {NoLink} \cup Links]
  /\ issued \in 0..MaxLinks /\ faults \in 0..MaxFaults /\ stops \in 0..MaxFaults
  /\ handled \subseteq 1..MaxUpdates /\ again \subseteq handled
  /\ overran \in BOOLEAN /\ dead \subseteq Links

LEMMA TypeSplit == TypeOK <=> OthersTyped /\ rep \in [Replicas -> RepRecord]
  BY DEF TypeOK, OthersTyped, RepRecord, Offsets

(* Head and tail of a sequence that is not empty. *)
LEMMA SeqFacts ==
  ASSUME NEW S, NEW s \in Seq(S), s # <<>>
  PROVE  /\ Len(s) \in Nat /\ Len(s) > 0 /\ Head(s) \in S /\ Head(s) = s[1]
         /\ Tail(s) \in Seq(S) /\ Len(Tail(s)) = Len(s) - 1
         /\ \A k \in 1..Len(Tail(s)) : Tail(s)[k] = s[k + 1]
<1>1. Len(s) \in Nat /\ Len(s) > 0
  OBVIOUS
<1>2. Head(s) \in S /\ Head(s) = s[1]
  BY <1>1
<1>3. /\ Tail(s) \in Seq(S) /\ Len(Tail(s)) = Len(s) - 1
      /\ \A k \in 1..Len(Tail(s)) : Tail(s)[k] = s[k + 1]
  BY <1>1
<1>4. QED
  BY <1>1, <1>2, <1>3

(* The fields of a replica. *)
LEMMA RepFields ==
  ASSUME NEW m \in RepRecord
  PROVE  /\ m.pc \in Pcs /\ m.running \in BOOLEAN /\ m.offset \in Offsets
         /\ m.persisted \in Offsets /\ m.batch \in Seq(1..MaxUpdates) /\ m.age \in 0..PassBound
         /\ m.offset \in Nat /\ m.persisted \in Nat /\ m.age \in Nat
  BY PollerAssumption DEF RepRecord, Pcs, Offsets

(* A new program counter, with the age kept or reset. *)
LEMMA PcUpdates ==
  ASSUME NEW m \in RepRecord, NEW pc \in Pcs
  PROVE  /\ LET n == [m EXCEPT !.pc = pc] IN
              /\ n \in RepRecord /\ n.pc = pc /\ n.offset = m.offset
              /\ n.persisted = m.persisted /\ n.batch = m.batch /\ n.age = m.age
         /\ LET n == [m EXCEPT !.pc = pc, !.age = 0] IN
              /\ n \in RepRecord /\ n.pc = pc /\ n.offset = m.offset
              /\ n.persisted = m.persisted /\ n.batch = m.batch /\ n.age = 0
<1> DEFINE a == [m EXCEPT !.pc = pc]
           b == [m EXCEPT !.pc = pc, !.age = 0]
<1>1. a \in RepRecord
  BY Zenon DEF RepRecord, Pcs
<1>2. 0 \in 0..PassBound
  BY PollerAssumption
<1>3. b \in RepRecord
  BY <1>2, Zenon DEF RepRecord, Pcs
<1>4. /\ a.pc = pc /\ a.offset = m.offset /\ a.persisted = m.persisted
      /\ a.batch = m.batch /\ a.age = m.age
  BY DEF RepRecord
<1>5. /\ b.pc = pc /\ b.offset = m.offset /\ b.persisted = m.persisted
      /\ b.batch = m.batch /\ b.age = 0
  BY DEF RepRecord
<1>6. QED
  BY <1>1, <1>3, <1>4, <1>5

(* A process that starts, and one that has ended. *)
LEMMA FreshRecords ==
  /\ Booted \in RepRecord /\ Booted.pc = "standby" /\ Booted.offset = 0 /\ Booted.persisted = 0
  /\ Stopped \in RepRecord /\ Stopped.pc = "off" /\ Stopped.offset = 0 /\ Stopped.persisted = 0
<1>1. <<>> \in Seq(1..MaxUpdates) /\ 0 \in Offsets /\ 0 \in 0..PassBound
  BY PollerAssumption DEF Offsets
<1>2. Booted \in RepRecord
  BY <1>1, Zenon DEF Booted, RepRecord
<1>3. Stopped \in RepRecord
  BY <1>2, Zenon DEF Stopped, RepRecord
<1>4. Booted.pc = "standby" /\ Booted.offset = 0 /\ Booted.persisted = 0
  BY DEF Booted
<1>5. Stopped.pc = "off" /\ Stopped.offset = 0 /\ Stopped.persisted = 0
  BY DEF Booted, Stopped
<1>6. QED
  BY <1>2, <1>3, <1>4, <1>5

----------------------------------------------------------------------------
(* A step of one replica *)

(* What the step of replica r to the record new owes to PollerInv. *)
MoveOK(r, new) ==
  /\ new.pc \in Handling =>
       /\ new.batch # <<>>
       /\ \A k \in 1..Len(new.batch) : new.batch[k] = Head(new.batch) + k - 1
       /\ Head(new.batch) + Len(new.batch) - 1 <= Len(inbox)
       /\ new.offset <= Head(new.batch)
       /\ \A i \in 1..MaxUpdates : i < Head(new.batch) => i \in handled'
  /\ new.offset <= Len(inbox) + 1
  /\ \A i \in 1..MaxUpdates : i < new.offset => i \in handled'
  /\ new.pc \in Leading /\ new.age < LockTTL => lock'.by = r /\ lock'.left + new.age >= LockTTL

(* It keeps PollerInv if it owes nothing and takes nobody else's lock. *)
LEMMA MoveKeeps ==
  ASSUME PollerInv, NEW r \in Replicas, NEW new \in RepRecord, rep' = [rep EXCEPT ![r] = new],
         MoveOK(r, new), OthersTyped', LinksOK', inbox' = inbox,
         handled \subseteq handled',
         confirmed' <= Len(inbox) + 1, stored' <= Len(inbox) + 1,
         \A i \in 1..MaxUpdates : i < confirmed' \/ i < stored' => i \in handled',
         \A q \in Replicas \ {r} : lock.by = q => lock' = lock
  PROVE  PollerInv'
<1>1. /\ rep' \in [Replicas -> RepRecord] /\ rep'[r] = new
      /\ \A q \in Replicas \ {r} : rep'[q] = rep[q]
  BY TypeSplit DEF PollerInv
<1>2. TypeOK'
  BY <1>1 DEF TypeOK, OthersTyped, RepRecord, Offsets
<1>3. \A q \in Replicas : BatchOK(q)'
  BY <1>1 DEF PollerInv, BatchOK, MoveOK
<1>4. Cursors'
  BY <1>1 DEF PollerInv, Cursors, MoveOK
<1>5. NothingSkipped'
  BY <1>1 DEF PollerInv, NothingSkipped, MoveOK
<1>6. LeaseHeld'
  BY <1>1 DEF PollerInv, LeaseHeld, Fresh, MoveOK
<1>7. QED
  BY <1>2, <1>3, <1>4, <1>5, <1>6 DEF PollerInv

(* The links are as they were, and a replica that starts to bind one does  *)
(* so with a link that is not dead.                                        *)
LEMMA LinksKept ==
  ASSUME PollerInv, NEW r \in Replicas, NEW new \in RepRecord, rep' = [rep EXCEPT ![r] = new],
         new.pc = "bind" => inbox[Head(new.batch)] \notin dead,
         UNCHANGED <<inbox, user, issued, dead>>
  PROVE  LinksOK'
<1>1. rep'[r] = new /\ \A q \in Replicas \ {r} : rep'[q] = rep[q]
  BY TypeSplit DEF PollerInv
<1>2. QED
  BY <1>1 DEF PollerInv, LinksOK, LinkOf

(* A replica that moves on with its batch and offset as they are. *)
LEMMA PlainMoveOK ==
  ASSUME PollerInv, NEW r \in Replicas, NEW new \in RepRecord,
         new.offset = rep[r].offset, new.batch = rep[r].batch,
         new.pc \in Handling => rep[r].pc \in Handling,
         new.pc \in Leading /\ new.age < LockTTL => lock'.by = r /\ lock'.left + new.age >= LockTTL,
         handled \subseteq handled'
  PROVE  MoveOK(r, new)
<1>1. BatchOK(r) /\ rep[r].offset <= Len(inbox) + 1
  BY DEF PollerInv, Cursors
<1>2. \A i \in 1..MaxUpdates : i < rep[r].offset => i \in handled
  BY DEF PollerInv, NothingSkipped
<1>3. QED
  BY <1>1, <1>2 DEF MoveOK, BatchOK

(* A step to pc, all else unchanged but for what failed. *)
LEMMA GotoKeeps ==
  ASSUME PollerInv, NEW r \in Replicas, NEW pc \in Pcs, Goto(r, pc),
         pc \in Leading => rep[r].pc \in Leading,
         pc \in Handling => rep[r].pc \in Handling,
         pc = "bind" => LinkOf(r) \notin dead,
         faults' \in 0..MaxFaults,
         UNCHANGED <<inbox, confirmed, stored, lock, user, issued, stops, history>>
  PROVE  PollerInv'
<1> DEFINE new == [rep[r] EXCEPT !.pc = pc]
<1>1. rep[r] \in RepRecord
  BY TypeSplit DEF PollerInv
<1>2. /\ new \in RepRecord /\ new.pc = pc /\ new.offset = rep[r].offset
      /\ new.batch = rep[r].batch /\ new.age = rep[r].age
  BY <1>1, PcUpdates
<1>3. rep' = [rep EXCEPT ![r] = new]
  BY DEF Goto
<1> HIDE DEF new
<1>4. MoveOK(r, new)
  <2>1. new.pc \in Leading /\ new.age < LockTTL => lock'.by = r /\ lock'.left + new.age >= LockTTL
    BY <1>2 DEF PollerInv, LeaseHeld, Fresh
  <2>2. QED
    BY <1>2, <2>1, PlainMoveOK DEF history
<1>5. LinksOK'
  BY <1>2, <1>3, LinksKept DEF LinkOf, history
<1>6. OthersTyped'
  BY TypeSplit DEF PollerInv, OthersTyped, history
<1>7. QED
  BY <1>2, <1>3, <1>4, <1>5, <1>6, MoveKeeps DEF PollerInv, Cursors, NothingSkipped, history


(* What every replica's step may rely on. *)
LEMMA Facts ==
  ASSUME PollerInv, NEW r \in Replicas
  PROVE  /\ rep[r] \in RepRecord /\ rep[r].offset \in Nat /\ rep[r].age \in Nat
         /\ rep[r].batch \in Seq(1..MaxUpdates)
         /\ rep \in [Replicas -> RepRecord] /\ OthersTyped
         /\ confirmed \in Nat /\ stored \in Nat /\ Len(inbox) \in Nat
         /\ confirmed <= Len(inbox) + 1 /\ stored <= Len(inbox) + 1
         /\ rep[r].offset <= Len(inbox) + 1
         /\ \A i \in 1..MaxUpdates :
              i < confirmed \/ i < stored \/ i < rep[r].offset => i \in handled
<1>1. OthersTyped /\ rep \in [Replicas -> RepRecord]
  BY TypeSplit DEF PollerInv
<1>2. rep[r] \in RepRecord
  BY <1>1
<1>3. rep[r].offset \in Nat /\ rep[r].age \in Nat /\ rep[r].batch \in Seq(1..MaxUpdates)
  BY <1>2, RepFields
<1>4. confirmed \in Nat /\ stored \in Nat /\ Len(inbox) \in Nat
  BY <1>1, PollerAssumption DEF OthersTyped
<1>5. QED
  BY <1>1, <1>2, <1>3, <1>4 DEF PollerInv, Cursors, NothingSkipped

(* A step to pc that starts the age anew and may touch the lock. *)
LEMMA RestartKeeps ==
  ASSUME PollerInv, NEW r \in Replicas, NEW pc \in Pcs \ Handling,
         rep' = [rep EXCEPT ![r].pc = pc, ![r].age = 0],
         pc \in Leading => lock' = [by |-> r, left |-> LockTTL],
         lock' \in [by: Replicas \cup {None}, left: 0..LockTTL],
         \A q \in Replicas \ {r} : lock.by = q => lock' = lock,
         faults' \in 0..MaxFaults,
         UNCHANGED <<inbox, confirmed, stored, user, issued, stops, history>>
  PROVE  PollerInv'
<1> DEFINE new == [rep[r] EXCEPT !.pc = pc, !.age = 0]
<1>1. rep[r] \in RepRecord
  BY Facts
<1>2. /\ new \in RepRecord /\ new.pc = pc /\ new.offset = rep[r].offset
      /\ new.batch = rep[r].batch /\ new.age = 0
  BY <1>1, PcUpdates
<1>3. rep' = [rep EXCEPT ![r] = new]
  OBVIOUS
<1> HIDE DEF new
<1>4. MoveOK(r, new)
  <2>1. new.pc \in Leading /\ new.age < LockTTL => lock'.by = r /\ lock'.left + new.age >= LockTTL
    BY <1>2, PollerAssumption
  <2>2. QED
    BY <1>2, <2>1, PlainMoveOK DEF history
<1>5. LinksOK'
  BY <1>2, <1>3, LinksKept DEF history, Handling
<1>6. OthersTyped'
  BY Facts DEF OthersTyped, history
<1>7. QED
  BY <1>2, <1>3, <1>4, <1>5, <1>6, Facts, MoveKeeps DEF history

(* A process that starts or ends forgets its batch and its offset. *)
LEMMA ProcessKeeps ==
  ASSUME PollerInv, NEW r \in Replicas, NEW new \in {Booted, Stopped},
         rep' = [rep EXCEPT ![r] = new], faults' \in 0..MaxFaults,
         UNCHANGED <<inbox, confirmed, stored, lock, user, issued, stops, history>>
  PROVE  PollerInv'
<1>1. new \in RepRecord /\ new.pc \in {"standby", "off"} /\ new.offset = 0
  BY FreshRecords
<1>2. MoveOK(r, new)
  BY <1>1, Facts DEF MoveOK, Leading, Handling
<1>3. LinksOK'
  BY <1>1, LinksKept DEF history
<1>4. OthersTyped'
  BY Facts DEF OthersTyped, history
<1>5. QED
  BY <1>1, <1>2, <1>3, <1>4, Facts, MoveKeeps DEF history

(* loadOffset takes the stored offset when it is ahead: it names no update *)
(* that nobody handled.                                                    *)
LEMMA LoadOffsetKeeps ==
  ASSUME PollerInv, NEW r \in Replicas, LoadOffset(r)
  PROVE  PollerInv'
<1> DEFINE new == [Loaded(rep[r]) EXCEPT !.pc = "poll"]
<1>1. /\ rep[r].pc = "load" /\ rep' = [rep EXCEPT ![r] = new]
      /\ UNCHANGED <<inbox, confirmed, stored, lock, user, issued, faults, stops, history>>
  BY DEF LoadOffset, telegram
<1>2. /\ Loaded(rep[r]) \in RepRecord /\ Loaded(rep[r]).offset \in {stored, rep[r].offset}
      /\ Loaded(rep[r]).age = rep[r].age
  <2> DEFINE ahead == [rep[r] EXCEPT !.offset = stored, !.persisted = stored]
  <2>1. rep[r] \in RepRecord /\ stored \in Offsets
    BY Facts DEF OthersTyped, Offsets
  <2>2. ahead \in RepRecord
    BY <2>1, Zenon DEF RepRecord
  <2>3. ahead.offset = stored /\ ahead.age = rep[r].age
    BY <2>1 DEF RepRecord
  <2>4. Loaded(rep[r]) \in {ahead, rep[r]}
    BY DEF Loaded
  <2> HIDE DEF ahead
  <2>5. QED
    BY <2>1, <2>2, <2>3, <2>4
<1>3. /\ new \in RepRecord /\ new.pc = "poll" /\ new.offset \in {stored, rep[r].offset}
      /\ new.age = rep[r].age
  BY <1>2, PcUpdates DEF Pcs, Leading
<1> HIDE DEF new
<1>4. MoveOK(r, new)
  <2>1. new.pc \in Leading /\ new.age < LockTTL => lock'.by = r /\ lock'.left + new.age >= LockTTL
    BY <1>1, <1>3 DEF PollerInv, LeaseHeld, Fresh, Leading
  <2>2. QED
    BY <1>1, <1>3, <2>1, Facts DEF MoveOK, Handling, history
<1>5. LinksOK'
  BY <1>1, <1>3, LinksKept DEF history
<1>6. OthersTyped'
  BY <1>1, Facts DEF OthersTyped, history
<1>7. QED
  BY <1>1, <1>3, <1>4, <1>5, <1>6, Facts, MoveKeeps DEF history

(* getUpdates confirms only what its caller has counted as done. *)
LEMMA PollKeeps ==
  ASSUME PollerInv, NEW r \in Replicas, Poll(r)
  PROVE  PollerInv'
<1>1. /\ rep[r].pc = "poll"
      /\ confirmed' \in {confirmed, rep[r].offset} /\ confirmed' >= confirmed
      /\ UNCHANGED <<inbox, stored, lock, user, issued, faults, stops, history>>
  BY Facts DEF Poll
<1>2. PICK pc \in {"polling", "release"} : Goto(r, pc)
  BY DEF Poll
<1> DEFINE new == [rep[r] EXCEPT !.pc = pc]
<1>3. /\ new \in RepRecord /\ new.pc = pc /\ new.offset = rep[r].offset
      /\ new.batch = rep[r].batch /\ new.age = rep[r].age /\ rep' = [rep EXCEPT ![r] = new]
  <2>1. pc \in Pcs /\ rep[r] \in RepRecord
    BY Facts DEF Pcs, Leading
  <2>2. rep' = [rep EXCEPT ![r] = new]
    BY <1>2 DEF Goto
  <2> HIDE DEF new
  <2>3. QED
    BY <2>1, <2>2, PcUpdates DEF new
<1> HIDE DEF new
<1>4. MoveOK(r, new)
  <2>1. new.pc \in Leading /\ new.age < LockTTL => lock'.by = r /\ lock'.left + new.age >= LockTTL
    BY <1>1, <1>3 DEF PollerInv, LeaseHeld, Fresh, Leading
  <2>2. QED
    BY <1>1, <1>2, <1>3, <2>1, PlainMoveOK DEF history, Handling
<1>5. LinksOK'
  BY <1>1, <1>2, <1>3, LinksKept DEF history
<1>6. OthersTyped'
  <2>1. confirmed' \in 1..(MaxUpdates + 1)
    BY <1>1, Facts, PollerAssumption DEF OthersTyped
  <2>2. QED
    BY <1>1, <2>1, Facts DEF OthersTyped, history
<1>7. QED
  BY <1>1, <1>3, <1>4, <1>5, <1>6, Facts, MoveKeeps DEF history


(* What Telegram serves is the run of updates from the later of the offset *)
(* and what it has forgotten.                                              *)
LEMMA ServedFacts ==
  ASSUME PollerInv, NEW r \in Replicas
  PROVE  LET s == Served(rep[r].offset) IN
           /\ s \in Seq(1..MaxUpdates)
           /\ s # <<>> =>
                /\ \A k \in 1..Len(s) : s[k] = Head(s) + k - 1
                /\ Head(s) + Len(s) - 1 <= Len(inbox)
                /\ rep[r].offset <= Head(s)
                /\ \A i \in 1..MaxUpdates : i < Head(s) => i \in handled
<1> DEFINE from == IF rep[r].offset > confirmed THEN rep[r].offset ELSE confirmed
           n == Len(inbox) + 1 - from
           s == Served(rep[r].offset)
<1>1. /\ from \in Nat /\ from >= 1 /\ from <= Len(inbox) + 1 /\ rep[r].offset <= from
      /\ \A i \in 1..MaxUpdates : i < from => i \in handled
  BY Facts DEF OthersTyped
<1>a. Len(inbox) <= MaxUpdates /\ Len(inbox) \in Nat /\ MaxUpdates \in Nat
  BY Facts, PollerAssumption DEF OthersTyped
<1> HIDE DEF from
<1>2. n \in Nat /\ Len(inbox) <= MaxUpdates /\ Len(inbox) \in Nat /\ MaxUpdates \in Nat
  BY <1>1, <1>a
<1>3. s = [i \in 1..n |-> i - 1 + from]
  BY DEF Served, from
<1> HIDE DEF s, n
<1>4. s \in Seq(1..MaxUpdates) /\ Len(s) = n /\ \A k \in 1..n : s[k] = k - 1 + from
  BY <1>1, <1>2, <1>3 DEF n
<1>5. s # <<>> => Head(s) = from /\ n > 0
  BY <1>1, <1>4, SeqFacts
<1>6. /\ s \in Seq(1..MaxUpdates)
      /\ s # <<>> =>
           /\ \A k \in 1..Len(s) : s[k] = Head(s) + k - 1
           /\ Head(s) + Len(s) - 1 <= Len(inbox)
           /\ rep[r].offset <= Head(s)
           /\ \A i \in 1..MaxUpdates : i < Head(s) => i \in handled
  <2>1. s # <<>> => \A k \in 1..Len(s) : s[k] = Head(s) + k - 1
    BY <1>1, <1>2, <1>4, <1>5
  <2>2. s # <<>> => Head(s) + Len(s) - 1 <= Len(inbox)
    <3>1. from + n - 1 = Len(inbox)
      BY <1>1, <1>2 DEF n
    <3>2. QED
      BY <1>2, <1>4, <1>5, <3>1
  <2>3. QED
    BY <1>1, <1>4, <1>5, <2>1, <2>2
<1>7. QED
  BY <1>6 DEF s

(* A batch arrives; the offset stays until its updates are handled. *)
LEMMA ReceiveKeeps ==
  ASSUME PollerInv, NEW r \in Replicas, Receive(r)
  PROVE  PollerInv'
<1>1. PICK b : b = Served(rep[r].offset)
  OBVIOUS
<1>2. PICK pc \in {"persist", "handle"} : pc = IF b = <<>> THEN "persist" ELSE "handle"
  OBVIOUS
<1> DEFINE new == [rep[r] EXCEPT !.pc = pc, !.batch = b]
<1>3. /\ rep[r].pc = "polling" /\ rep' = [rep EXCEPT ![r] = new]
      /\ UNCHANGED <<inbox, confirmed, stored, lock, user, issued, faults, stops, history>>
  BY <1>1, <1>2 DEF Receive, telegram
<1>4. /\ b \in Seq(1..MaxUpdates)
      /\ b # <<>> =>
           /\ \A k \in 1..Len(b) : b[k] = Head(b) + k - 1
           /\ Head(b) + Len(b) - 1 <= Len(inbox)
           /\ rep[r].offset <= Head(b)
           /\ \A i \in 1..MaxUpdates : i < Head(b) => i \in handled
  BY <1>1, ServedFacts
<1>5. new \in RepRecord
  BY <1>2, <1>4, Facts, Zenon DEF RepRecord, Leading, Handling
<1>6. new.pc = pc /\ new.offset = rep[r].offset /\ new.batch = b /\ new.age = rep[r].age
  BY Facts DEF RepRecord
<1> HIDE DEF new
<1>7. MoveOK(r, new)
  <2>1. new.pc \in Leading /\ new.age < LockTTL => lock'.by = r /\ lock'.left + new.age >= LockTTL
    BY <1>3, <1>6 DEF PollerInv, LeaseHeld, Fresh, Leading
  <2>2. new.pc \in Handling => b # <<>>
    BY <1>2, <1>6 DEF Handling
  <2>3. QED
    BY <1>3, <1>4, <1>6, <2>1, <2>2, Facts DEF MoveOK, history
<1>8. LinksOK'
  BY <1>3, <1>5, <1>6, LinksKept DEF history
<1>9. OthersTyped'
  BY <1>3, Facts DEF OthersTyped, history
<1>10. QED
  BY <1>3, <1>5, <1>7, <1>8, <1>9, Facts, MoveKeeps DEF history

(* The head of the batch is an update that was sent. *)
LEMMA HeadFacts ==
  ASSUME PollerInv, NEW r \in Replicas, rep[r].pc \in Handling
  PROVE  /\ Head(rep[r].batch) \in 1..MaxUpdates /\ Head(rep[r].batch) \in 1..Len(inbox)
         /\ LinkOf(r) \in {NoLink} \cup Links
         /\ rep[r].offset <= Head(rep[r].batch)
         /\ \A i \in 1..MaxUpdates : i < Head(rep[r].batch) => i \in handled
<1>1. BatchOK(r) /\ rep[r].batch \in Seq(1..MaxUpdates) /\ Len(inbox) \in Nat
  BY Facts DEF PollerInv
<1>2. /\ Head(rep[r].batch) \in 1..MaxUpdates /\ Len(rep[r].batch) \in Nat /\ Len(rep[r].batch) > 0
      /\ Head(rep[r].batch) + Len(rep[r].batch) - 1 <= Len(inbox)
      /\ rep[r].offset <= Head(rep[r].batch)
      /\ \A i \in 1..MaxUpdates : i < Head(rep[r].batch) => i \in handled
  BY <1>1, SeqFacts DEF BatchOK
<1>3. Head(rep[r].batch) \in 1..Len(inbox)
  BY <1>1, <1>2, PollerAssumption
<1>4. LinkOf(r) \in {NoLink} \cup Links
  BY <1>3, Facts DEF LinkOf, OthersTyped
<1>5. QED
  BY <1>2, <1>3, <1>4

(* The update at the head of the batch is done, and the next one follows it. *)
LEMMA HandledKeeps ==
  ASSUME PollerInv, NEW r \in Replicas, rep[r].pc \in Handling, Handled(r),
         faults' \in 0..MaxFaults,
         UNCHANGED <<inbox, confirmed, stored, lock, user, issued, stops, overran, dead>>
  PROVE  PollerInv'
<1>1. PICK h \in 1..MaxUpdates : h = Head(rep[r].batch)
  BY HeadFacts
<1>2. PICK t \in Seq(1..MaxUpdates) : t = Tail(rep[r].batch)
  <2>1. rep[r].batch \in Seq(1..MaxUpdates) /\ rep[r].batch # <<>>
    BY Facts DEF PollerInv, BatchOK
  <2>2. QED
    BY <2>1, SeqFacts
<1>3. PICK pc \in {"persist", "handle"} : pc = IF t = <<>> THEN "persist" ELSE "handle"
  OBVIOUS
<1> DEFINE new == [rep[r] EXCEPT !.offset = h + 1, !.batch = t, !.pc = pc]
<1>4. /\ rep' = [rep EXCEPT ![r] = new] /\ handled' = handled \cup {h}
      /\ again' = again \cup ({h} \cap handled)
  BY <1>1, <1>2, <1>3 DEF Handled, Advanced
<1>5. h + 1 \in Offsets /\ h \in Nat /\ h <= Len(inbox) /\ Len(inbox) \in Nat
  <2>1. h \in 1..Len(inbox) /\ Len(inbox) \in Nat /\ Len(inbox) <= MaxUpdates
    BY <1>1, HeadFacts, Facts DEF OthersTyped
  <2>2. QED
    BY <2>1, PollerAssumption DEF Offsets
<1>6. new \in RepRecord
  BY <1>5, Facts, Zenon DEF RepRecord, Leading, Handling
<1>7. new.pc = pc /\ new.offset = h + 1 /\ new.batch = t /\ new.age = rep[r].age
  BY Facts DEF RepRecord
<1> HIDE DEF new
<1>8. \A i \in 1..MaxUpdates : i < h + 1 => i \in handled'
  BY <1>1, <1>4, <1>5, HeadFacts
<1>9. t # <<>> => /\ Head(t) = h + 1
                  /\ \A k \in 1..Len(t) : t[k] = h + k
                  /\ h + Len(t) <= Len(inbox)
  <2>1. /\ rep[r].batch \in Seq(1..MaxUpdates) /\ rep[r].batch # <<>>
        /\ \A k \in 1..Len(rep[r].batch) : rep[r].batch[k] = h + k - 1
        /\ h + Len(rep[r].batch) - 1 <= Len(inbox)
    BY <1>1, Facts DEF PollerInv, BatchOK
  <2>2. Len(t) = Len(rep[r].batch) - 1 /\ \A k \in 1..Len(t) : t[k] = rep[r].batch[k + 1]
    BY <1>2, <2>1, SeqFacts
  <2>3. \A k \in 1..Len(t) : t[k] = h + k
    BY <1>5, <2>1, <2>2
  <2>4. t # <<>> => Head(t) = h + 1
    BY <1>5, <2>3, SeqFacts
  <2>5. QED
    BY <1>5, <2>1, <2>2, <2>3, <2>4
<1>10. MoveOK(r, new)
  <2>1. new.pc \in Leading /\ new.age < LockTTL => lock'.by = r /\ lock'.left + new.age >= LockTTL
    BY <1>7 DEF PollerInv, LeaseHeld, Fresh, Leading
  <2>2. new.pc \in Handling => t # <<>>
    BY <1>3, <1>7 DEF Handling
  <2>3. t # <<>> => /\ \A k \in 1..Len(t) : t[k] = Head(t) + k - 1
                    /\ Head(t) + Len(t) - 1 <= Len(inbox)
    BY <1>5, <1>9
  <2>4. QED
    BY <1>5, <1>7, <1>8, <1>9, <2>1, <2>2, <2>3 DEF MoveOK
<1>11. LinksOK'
  BY <1>3, <1>4, <1>6, <1>7, LinksKept
<1>12. OthersTyped'
  BY <1>4, Facts DEF OthersTyped
<1>13. QED
  BY <1>4, <1>6, <1>10, <1>11, <1>12, Facts, MoveKeeps

(* persistOffset stores only what its replica has counted as done; the     *)
(* write may be one that Redis did without answering.                      *)
LEMMA PersistKeeps ==
  ASSUME PollerInv, NEW r \in Replicas, rep[r].pc = "persist",
         NEW p \in {rep[r].persisted, rep[r].offset},
         rep' = [rep EXCEPT ![r].pc = "renew", ![r].persisted = p],
         stored' \in {stored, rep[r].offset}, faults' \in 0..MaxFaults,
         UNCHANGED <<inbox, confirmed, lock, user, issued, stops, history>>
  PROVE  PollerInv'
<1> DEFINE new == [rep[r] EXCEPT !.pc = "renew", !.persisted = p]
<1>1. rep[r] \in RepRecord /\ p \in Offsets /\ rep[r].offset \in Offsets
  BY Facts, RepFields
<1>2. rep' = [rep EXCEPT ![r] = new]
  OBVIOUS
<1>3. new \in RepRecord
  BY <1>1, Zenon DEF RepRecord, Leading
<1>4. /\ new.pc = "renew" /\ new.offset = rep[r].offset /\ new.batch = rep[r].batch
      /\ new.age = rep[r].age
  BY <1>1 DEF RepRecord
<1> HIDE DEF new
<1>5. MoveOK(r, new)
  <2>1. new.pc \in Leading /\ new.age < LockTTL => lock'.by = r /\ lock'.left + new.age >= LockTTL
    BY <1>4 DEF PollerInv, LeaseHeld, Fresh, Leading
  <2>2. QED
    BY <1>3, <1>4, <2>1, PlainMoveOK DEF history, Handling
<1>6. LinksOK'
  BY <1>2, <1>3, <1>4, LinksKept DEF history
<1>7. OthersTyped'
  BY <1>1, Facts DEF OthersTyped, Offsets, history
<1>8. QED
  BY <1>2, <1>3, <1>5, <1>6, <1>7, Facts, MoveKeeps DEF history

(* onModuleDestroy only tells the replica to stop. *)
LEMMA ShutdownKeeps ==
  ASSUME PollerInv, NEW r \in Replicas, Shutdown(r)
  PROVE  PollerInv'
<1> DEFINE new == [rep[r] EXCEPT !.running = FALSE]
<1>1. /\ rep' = [rep EXCEPT ![r] = new] /\ stops' = stops + 1 /\ faults + stops < MaxFaults
      /\ UNCHANGED <<inbox, confirmed, stored, lock, user, issued, faults, history>>
  BY DEF Shutdown, telegram
<1>2. rep[r] \in RepRecord
  BY Facts
<1>3. new \in RepRecord
  BY <1>2, Zenon DEF RepRecord
<1>4. /\ new.pc = rep[r].pc /\ new.offset = rep[r].offset /\ new.batch = rep[r].batch
      /\ new.age = rep[r].age
  BY <1>2 DEF RepRecord
<1> HIDE DEF new
<1>5. MoveOK(r, new)
  <2>1. new.pc \in Leading /\ new.age < LockTTL => lock'.by = r /\ lock'.left + new.age >= LockTTL
    BY <1>1, <1>4 DEF PollerInv, LeaseHeld, Fresh
  <2>2. QED
    BY <1>1, <1>3, <1>4, <2>1, PlainMoveOK DEF history
<1>6. LinksOK'
  BY <1>1, <1>3, <1>4, LinksKept DEF history, PollerInv, LinksOK, LinkOf
<1>7. OthersTyped'
  <2>1. stops' \in 0..MaxFaults
    <3>1. faults \in Nat /\ stops \in Nat /\ MaxFaults \in Nat
      BY Facts, PollerAssumption DEF OthersTyped
    <3>2. QED
      BY <1>1, <3>1
  <2>2. QED
    BY <1>1, <2>1, Facts DEF OthersTyped, history
<1>8. QED
  BY <1>1, <1>3, <1>5, <1>6, <1>7, Facts, MoveKeeps DEF history

----------------------------------------------------------------------------
(* The links *)

(* Withdrawing a link makes only that link dead, and none being bound. *)
LEMMA WithdrawnFacts ==
  ASSUME NEW l, NEW among
  PROVE  /\ Withdrawn(l, among) \subseteq {l} \ {NoLink}
         /\ \A q \in among : rep[q].pc = "bind" => LinkOf(q) \notin Withdrawn(l, among)
  BY DEF Withdrawn, Binding

(* A bind that went by the account's id leaves no link behind. *)
LEMMA BindKeeps ==
  ASSUME PollerInv, NEW r \in Replicas, Bind(r)
  PROVE  PollerInv'
<1> DEFINE new == [rep[r] EXCEPT !.pc = "reply"]
<1>1. PICK used : used = LinkOf(r)
  OBVIOUS
<1>2. PICK gone : gone = Withdrawn(user.link, Replicas \ {r}) \cup Withdrawn(used, Replicas \ {r})
  OBVIOUS
<1>3. /\ rep[r].pc = "bind" /\ rep' = [rep EXCEPT ![r] = new]
      /\ user' = [link |-> NoLink, expired |-> FALSE, chat |-> used]
      /\ dead' = dead \cup gone
      /\ UNCHANGED <<inbox, confirmed, stored, lock, issued, faults, stops, handled, again, overran>>
  BY <1>1, <1>2 DEF Bind, Goto, telegram
<1>4. /\ new \in RepRecord /\ new.pc = "reply" /\ new.offset = rep[r].offset
      /\ new.batch = rep[r].batch /\ new.age = rep[r].age
  <2>1. rep[r] \in RepRecord /\ "reply" \in Pcs
    BY Facts DEF Pcs, Leading, Handling
  <2>2. QED
    BY <2>1, PcUpdates
<1> HIDE DEF new
<1>5. /\ used \in {NoLink} \cup Links /\ used <= issued
      /\ user.link \in {NoLink} \cup Links /\ user.link <= issued /\ issued \in Nat
  <2>1. used \in {NoLink} \cup Links /\ Head(rep[r].batch) \in 1..Len(inbox)
    BY <1>1, <1>3, HeadFacts DEF Handling
  <2>2. used <= issued /\ user.link <= issued
    BY <1>1, <2>1 DEF PollerInv, LinksOK, LinkOf
  <2>3. user.link \in {NoLink} \cup Links /\ issued \in Nat
    BY Facts, PollerAssumption DEF OthersTyped
  <2>4. QED
    BY <2>1, <2>2, <2>3
<1>6. /\ gone \subseteq Links /\ \A l \in gone : l <= issued
      /\ \A q \in Replicas \ {r} : rep[q].pc = "bind" => LinkOf(q) \notin gone
  BY <1>2, <1>5, WithdrawnFacts
<1>7. MoveOK(r, new)
  <2>1. new.pc \in Leading /\ new.age < LockTTL => lock'.by = r /\ lock'.left + new.age >= LockTTL
    BY <1>3, <1>4 DEF PollerInv, LeaseHeld, Fresh, Leading, Handling
  <2>2. QED
    BY <1>3, <1>4, <2>1, PlainMoveOK DEF Handling
<1>8. LinksOK'
  <2>1. rep'[r].pc = "reply" /\ \A q \in Replicas \ {r} : rep'[q] = rep[q]
    BY <1>3, <1>4, Facts
  <2>2. user'.link <= issued' /\ user'.link = NoLink /\ \A l \in dead' : l <= issued'
    BY <1>3, <1>5, <1>6 DEF PollerInv, LinksOK, NoLink
  <2>3. \A q \in Replicas : rep'[q].pc = "bind" => LinkOf(q)' \notin dead'
    BY <1>3, <1>6, <2>1 DEF PollerInv, LinksOK, LinkOf
  <2>4. QED
    BY <1>3, <2>2, <2>3 DEF PollerInv, LinksOK
<1>9. OthersTyped'
  <2>1. user' \in [link: {NoLink} \cup Links, expired: BOOLEAN, chat: {NoLink} \cup Links]
    BY <1>3, <1>5, Zenon
  <2>2. QED
    BY <1>3, <1>6, <2>1, Facts DEF OthersTyped
<1>10. QED
  BY <1>3, <1>4, <1>7, <1>8, <1>9, Facts, MoveKeeps

(* The account's row changes and its link dies, or one link more is issued. *)
LEMMA RowKeepsLinks ==
  ASSUME PollerInv, dead' = dead \cup Withdrawn(user.link, Replicas),
         NEW l \in {NoLink, user.link, issued + 1}, user'.link = l,
         l = user.link => user'.expired \/ l = NoLink,
         l = issued + 1 => issued' = issued + 1,
         issued' \in {issued, issued + 1}, inbox' = inbox,
         \A q \in Replicas : rep'[q].pc = "bind" => rep[q].pc = "bind" /\ rep'[q].batch = rep[q].batch
  PROVE  LinksOK' /\ (issued' \in 0..MaxLinks => dead' \subseteq Links)
<1>1. PICK gone : gone = Withdrawn(user.link, Replicas)
  OBVIOUS
<1>2. /\ gone \subseteq {user.link} \ {NoLink}
      /\ \A q \in Replicas : rep[q].pc = "bind" => LinkOf(q) \notin gone
  BY <1>1, WithdrawnFacts
<1>3. /\ user.link \in {NoLink} \cup Links /\ user.link \in Nat /\ issued \in Nat
      /\ dead \subseteq Links /\ user.link <= issued /\ \A k \in dead : k <= issued /\ k \in Nat
  <2>1. /\ user.link \in {NoLink} \cup Links /\ issued \in 0..MaxLinks /\ dead \subseteq Links
    BY TypeSplit DEF PollerInv, OthersTyped
  <2>2. QED
    BY <2>1, PollerAssumption DEF PollerInv, LinksOK, Links, NoLink
<1>4. \A k \in dead' : k \in Links /\ k <= issued
  BY <1>1, <1>2, <1>3
<1>5. user'.link <= issued' /\ \A k \in dead' : k <= issued'
  BY <1>3, <1>4 DEF NoLink, Links
<1>6. user'.link # NoLink /\ ~user'.expired => user'.link \notin dead'
  BY <1>3, <1>4 DEF NoLink, Links
<1>7. \A q \in Replicas : rep'[q].pc = "bind" => LinkOf(q)' \notin dead'
  BY <1>1, <1>2 DEF PollerInv, LinksOK, LinkOf
<1>8. \A i \in 1..Len(inbox') : inbox'[i] <= issued'
  <2>1. \A i \in 1..Len(inbox) : inbox[i] <= issued /\ inbox[i] \in Nat
    BY TypeSplit, PollerAssumption DEF PollerInv, LinksOK, OthersTyped, Links, NoLink
  <2>2. QED
    BY <1>3, <2>1
<1>9. QED
  BY <1>4, <1>5, <1>6, <1>7, <1>8 DEF LinksOK

(* An owner's step leaves the pollers, the lock and the cursors alone. *)
LEMMA OwnerKeeps ==
  ASSUME PollerInv, LinksOK', dead' \subseteq Links, issued' \in 0..MaxLinks,
         user' \in [link: {NoLink} \cup Links, expired: BOOLEAN, chat: {NoLink} \cup Links],
         UNCHANGED <<inbox, confirmed, stored, lock, rep, faults, stops, handled, again, overran>>
  PROVE  PollerInv'
<1>1. TypeOK'
  BY DEF PollerInv, TypeOK
<1>2. (\A r \in Replicas : BatchOK(r)') /\ Cursors' /\ NothingSkipped' /\ LeaseHeld'
  BY DEF PollerInv, BatchOK, Cursors, NothingSkipped, LeaseHeld, Fresh
<1>3. QED
  BY <1>1, <1>2 DEF PollerInv

(* A call that fails is counted. *)
LEMMA FaultTyped ==
  ASSUME PollerInv, Fault
  PROVE  faults' \in 0..MaxFaults /\ faults' > 0
<1>1. faults \in Nat /\ stops \in Nat /\ MaxFaults \in Nat
  BY TypeSplit, PollerAssumption DEF PollerInv, OthersTyped
<1>2. QED
  BY <1>1 DEF Fault

LEMMA ClearExpiredKeeps ==
  ASSUME PollerInv, NEW r \in Replicas, ClearExpired(r)
  PROVE  PollerInv'
<1> DEFINE new == [rep[r] EXCEPT !.pc = "reply"]
<1>1. /\ rep[r].pc = "clear" /\ rep' = [rep EXCEPT ![r] = new]
      /\ user' = [user EXCEPT !.link = NoLink, !.expired = FALSE]
      /\ dead' = dead \cup Withdrawn(user.link, Replicas)
      /\ UNCHANGED <<inbox, confirmed, stored, lock, issued, faults, stops, handled, again, overran>>
  BY DEF ClearExpired, Goto, telegram
<1>2. /\ new \in RepRecord /\ new.pc = "reply" /\ new.offset = rep[r].offset
      /\ new.batch = rep[r].batch /\ new.age = rep[r].age
  <2>1. rep[r] \in RepRecord /\ "reply" \in Pcs
    BY Facts DEF Pcs, Leading, Handling
  <2>2. QED
    BY <2>1, PcUpdates
<1> HIDE DEF new
<1>3. MoveOK(r, new)
  <2>1. new.pc \in Leading /\ new.age < LockTTL => lock'.by = r /\ lock'.left + new.age >= LockTTL
    BY <1>1, <1>2 DEF PollerInv, LeaseHeld, Fresh, Leading, Handling
  <2>2. QED
    BY <1>1, <1>2, <2>1, PlainMoveOK DEF Handling
<1>4. user \in [link: {NoLink} \cup Links, expired: BOOLEAN, chat: {NoLink} \cup Links]
  BY Facts DEF OthersTyped
<1>5. user'.link = NoLink
  BY <1>1, <1>4
<1>6. user' \in [link: {NoLink} \cup Links, expired: BOOLEAN, chat: {NoLink} \cup Links]
  BY <1>1, <1>4, Zenon
<1>7. LinksOK' /\ dead' \subseteq Links
  <2>1. \A q \in Replicas : rep'[q].pc = "bind" => rep[q].pc = "bind" /\ rep'[q].batch = rep[q].batch
    BY <1>1, <1>2, Facts
  <2>2. issued' \in 0..MaxLinks /\ issued \in Nat
    BY <1>1, Facts, PollerAssumption DEF OthersTyped
  <2>3. NoLink = issued + 1 => issued' = issued + 1
    BY <2>2 DEF NoLink
  <2>4. QED
    BY <1>1, <1>5, <2>1, <2>2, <2>3, RowKeepsLinks
<1>8. OthersTyped'
  BY <1>1, <1>6, <1>7, Facts DEF OthersTyped
<1>9. QED
  BY <1>1, <1>2, <1>3, <1>7, <1>8, Facts, MoveKeeps

LEMMA CreateLinkKeeps ==
  ASSUME PollerInv, CreateTelegramLink
  PROVE  PollerInv'
<1>1. /\ issued < MaxLinks /\ issued' = issued + 1
      /\ user' = [user EXCEPT !.link = issued + 1, !.expired = FALSE]
      /\ dead' = dead \cup Withdrawn(user.link, Replicas)
      /\ UNCHANGED <<inbox, confirmed, stored, lock, rep, faults, stops, handled, again, overran>>
  BY DEF CreateTelegramLink, telegram
<1>2. /\ user \in [link: {NoLink} \cup Links, expired: BOOLEAN, chat: {NoLink} \cup Links]
      /\ issued \in Nat /\ MaxLinks \in Nat /\ user.link <= issued
  BY TypeSplit, PollerAssumption DEF PollerInv, OthersTyped, LinksOK
<1>3. issued + 1 \in Links /\ issued' \in 0..MaxLinks
  BY <1>1, <1>2 DEF Links
<1>4. user' \in [link: {NoLink} \cup Links, expired: BOOLEAN, chat: {NoLink} \cup Links]
  BY <1>1, <1>2, <1>3, Zenon
<1>5. user'.link = issued + 1
  BY <1>1, <1>2
<1>6. issued + 1 # user.link
  BY <1>2 DEF NoLink, Links
<1>7. PICK l : l = issued + 1
  OBVIOUS
<1>8. LinksOK' /\ dead' \subseteq Links
  BY <1>1, <1>3, <1>5, <1>6, <1>7, RowKeepsLinks
<1>9. QED
  BY <1>1, <1>3, <1>4, <1>8, OwnerKeeps

LEMMA UnlinkKeeps ==
  ASSUME PollerInv, UnlinkTelegram
  PROVE  PollerInv'
<1>1. /\ user' = [link |-> NoLink, expired |-> FALSE, chat |-> NoLink]
      /\ dead' = dead \cup Withdrawn(user.link, Replicas)
      /\ UNCHANGED <<inbox, confirmed, stored, lock, rep, issued, faults, stops, handled, again, overran>>
  BY DEF UnlinkTelegram, Unlinked, telegram
<1>2. issued \in 0..MaxLinks /\ issued \in Nat
  BY TypeSplit, PollerAssumption DEF PollerInv, OthersTyped
<1>3. user' \in [link: {NoLink} \cup Links, expired: BOOLEAN, chat: {NoLink} \cup Links]
  BY <1>1, Zenon
<1>4. user'.link = NoLink
  BY <1>1
<1>5. NoLink # issued + 1
  BY <1>2 DEF NoLink
<1>6. LinksOK' /\ dead' \subseteq Links
  BY <1>1, <1>2, <1>4, <1>5, RowKeepsLinks
<1>7. QED
  BY <1>1, <1>2, <1>3, <1>6, OwnerKeeps

LEMMA LinkExpiresKeeps ==
  ASSUME PollerInv, LinkExpires
  PROVE  PollerInv'
<1>1. /\ user' = [user EXCEPT !.expired = TRUE]
      /\ dead' = dead \cup Withdrawn(user.link, Replicas)
      /\ UNCHANGED <<inbox, confirmed, stored, lock, rep, issued, faults, stops, handled, again, overran>>
  BY DEF LinkExpires, telegram
<1>2. /\ user \in [link: {NoLink} \cup Links, expired: BOOLEAN, chat: {NoLink} \cup Links]
      /\ issued \in 0..MaxLinks /\ issued \in Nat /\ user.link <= issued
  BY TypeSplit, PollerAssumption DEF PollerInv, OthersTyped, LinksOK
<1>3. user' \in [link: {NoLink} \cup Links, expired: BOOLEAN, chat: {NoLink} \cup Links]
  BY <1>1, <1>2, Zenon
<1>4. user'.link = user.link
  BY <1>1, <1>2
<1>5. user'.expired
  BY <1>1, <1>2, Zenon
<1>6. PICK l : l = user.link
  OBVIOUS
<1>7. l # issued + 1
  BY <1>2, <1>6 DEF NoLink, Links
<1>8. LinksOK' /\ dead' \subseteq Links
  BY <1>1, <1>2, <1>4, <1>5, <1>6, <1>7, RowKeepsLinks
<1>9. QED
  BY <1>1, <1>2, <1>3, <1>8, OwnerKeeps

(* A new message is behind every offset. *)
LEMMA SendMessageKeeps ==
  ASSUME PollerInv, NEW l \in {NoLink} \cup Links, SendMessage(l)
  PROVE  PollerInv'
<1>1. /\ Len(inbox) < MaxUpdates /\ l <= issued /\ inbox' = Append(inbox, l)
      /\ UNCHANGED <<confirmed, stored, lock, rep, user, issued, faults, stops, history>>
  BY DEF SendMessage
<1>2. OthersTyped /\ rep \in [Replicas -> RepRecord] /\ MaxUpdates \in Nat
  BY TypeSplit, PollerAssumption DEF PollerInv
<1>3. /\ inbox' \in Seq({NoLink} \cup Links) /\ Len(inbox') = Len(inbox) + 1 /\ Len(inbox) \in Nat
      /\ \A i \in 1..Len(inbox) : inbox'[i] = inbox[i]
      /\ inbox'[Len(inbox) + 1] = l
  BY <1>1, <1>2 DEF OthersTyped
<1>4. TypeOK'
  BY <1>1, <1>2, <1>3 DEF OthersTyped, TypeOK, RepRecord, Offsets, history
<1>5. ASSUME NEW q \in Replicas PROVE BatchOK(q)'
  <2>1. /\ rep[q].pc \in Handling => Head(rep[q].batch) \in Nat
        /\ Len(rep[q].batch) \in Nat /\ BatchOK(q)
    BY HeadFacts, Facts, <1>2 DEF PollerInv
  <2>2. QED
    BY <1>1, <1>3, <2>1 DEF BatchOK, history
<1>6. Cursors'
  <2>1. confirmed \in Nat /\ stored \in Nat /\ \A q \in Replicas : rep[q].offset \in Nat
    BY <1>2, Facts DEF OthersTyped
  <2>2. QED
    BY <1>1, <1>3, <2>1 DEF PollerInv, Cursors
<1>7. NothingSkipped' /\ LeaseHeld'
  BY <1>1 DEF PollerInv, NothingSkipped, LeaseHeld, Fresh, history
<1>8. LinksOK'
  <2>1. \A i \in 1..Len(inbox') : inbox'[i] <= issued'
    BY <1>1, <1>3 DEF PollerInv, LinksOK
  <2>2. \A q \in Replicas : rep[q].pc = "bind" => LinkOf(q)' = LinkOf(q)
    BY <1>1, <1>3, HeadFacts DEF LinkOf, Handling
  <2>3. QED
    BY <1>1, <2>1, <2>2 DEF PollerInv, LinksOK, history
<1>9. QED
  BY <1>4, <1>5, <1>6, <1>7, <1>8 DEF PollerInv

----------------------------------------------------------------------------
(* Time *)

(* The age of every leading replica goes up by one. *)
LEMMA TickFacts ==
  ASSUME PollerInv, Tick
  PROVE  /\ rep' \in [Replicas -> RepRecord]
         /\ \A q \in Replicas :
              /\ rep'[q].pc = rep[q].pc /\ rep'[q].offset = rep[q].offset
              /\ rep'[q].batch = rep[q].batch /\ rep'[q].persisted = rep[q].persisted
              /\ rep[q].pc \in Leading => rep'[q].age = rep[q].age + 1
         /\ lock' \in [by: Replicas \cup {None}, left: 0..LockTTL]
         /\ lock.left > 1 => lock'.by = lock.by /\ lock'.left = lock.left - 1
         /\ ~(lock.left > 1) => lock' = FreeLock
<1>1. OthersTyped /\ rep \in [Replicas -> RepRecord]
  BY TypeSplit DEF PollerInv
<1>2. ASSUME NEW q \in Replicas
      PROVE  /\ rep'[q] \in RepRecord /\ rep'[q].pc = rep[q].pc /\ rep'[q].offset = rep[q].offset
             /\ rep'[q].batch = rep[q].batch /\ rep'[q].persisted = rep[q].persisted
             /\ rep[q].pc \in Leading => rep'[q].age = rep[q].age + 1
  <2>1. PICK m \in RepRecord : m = rep[q]
    BY <1>1
  <2>2. m.pc \in Leading => m.age < PassBound
    BY <2>1, RepFields, PollerAssumption DEF Tick, Deadline
  <2>3. PICK a : a = m.age + 1
    OBVIOUS
  <2> DEFINE older == [m EXCEPT !.age = a]
  <2>4. m.pc \in Leading => a \in 0..PassBound
    BY <2>2, <2>3, RepFields, PollerAssumption
  <2>5. m.pc \in Leading => older \in RepRecord
    BY <2>4, Zenon DEF RepRecord
  <2>6. /\ older.pc = m.pc /\ older.offset = m.offset /\ older.batch = m.batch
        /\ older.persisted = m.persisted /\ older.age = m.age + 1
    BY <2>3 DEF RepRecord
  <2>7. rep'[q] = IF m.pc \in Leading THEN older ELSE m
    BY <2>1, <2>3 DEF Tick
  <2> HIDE DEF older
  <2>8. CASE m.pc \in Leading
    BY <2>1, <2>5, <2>6, <2>7, <2>8
  <2>9. CASE m.pc \notin Leading
    BY <2>1, <2>7, <2>9
  <2>10. QED
    BY <2>8, <2>9
<1>3. rep' \in [Replicas -> RepRecord]
  <2>1. rep' = [q \in Replicas |-> rep'[q]]
    BY DEF Tick
  <2>2. QED
    BY <1>2, <2>1, Zenon
<1>4. lock \in [by: Replicas \cup {None}, left: 0..LockTTL]
  BY <1>1 DEF OthersTyped
<1>5. /\ lock' \in [by: Replicas \cup {None}, left: 0..LockTTL]
      /\ lock.left > 1 => lock'.by = lock.by /\ lock'.left = lock.left - 1
      /\ ~(lock.left > 1) => lock' = FreeLock
  BY <1>4, PollerAssumption DEF Tick, Expired, FreeLock
<1>6. QED
  BY <1>2, <1>3, <1>5

(* The lock does not expire under a replica that is still fresh. *)
LEMMA TickKeeps ==
  ASSUME PollerInv, Tick
  PROVE  PollerInv'
<1>1. UNCHANGED <<inbox, confirmed, stored, user, issued, faults, stops, handled, again, dead>>
  BY DEF Tick, telegram
<1>2. /\ rep' \in [Replicas -> RepRecord]
      /\ \A q \in Replicas :
           /\ rep'[q].pc = rep[q].pc /\ rep'[q].offset = rep[q].offset
           /\ rep'[q].batch = rep[q].batch
           /\ rep[q].pc \in Leading => rep'[q].age = rep[q].age + 1
      /\ lock' \in [by: Replicas \cup {None}, left: 0..LockTTL]
      /\ lock.left > 1 => lock'.by = lock.by /\ lock'.left = lock.left - 1
  BY TickFacts
<1>3. overran' \in BOOLEAN
  BY Zenon DEF Tick
<1>4. OthersTyped
  BY TypeSplit DEF PollerInv
<1>5. TypeOK'
  BY <1>1, <1>2, <1>3, <1>4 DEF OthersTyped, TypeOK, RepRecord, Offsets
<1>6. (\A q \in Replicas : BatchOK(q)') /\ Cursors' /\ NothingSkipped' /\ LinksOK'
  BY <1>1, <1>2 DEF PollerInv, BatchOK, Cursors, NothingSkipped, LinksOK, LinkOf
<1>7. LeaseHeld'
  <2>1. SUFFICES ASSUME NEW q \in Replicas, Fresh(q)'
                 PROVE  lock'.by = q /\ lock'.left + rep'[q].age >= LockTTL
    BY DEF LeaseHeld
  <2>2. /\ rep[q].pc \in Leading /\ rep'[q].age = rep[q].age + 1 /\ rep[q].age \in Nat
        /\ rep[q].age + 1 < LockTTL /\ lock.left \in Nat /\ LockTTL \in Nat
    BY <1>2, <1>4, <2>1, Facts, PollerAssumption DEF Fresh, OthersTyped
  <2>3. lock.by = q /\ lock.left + rep[q].age >= LockTTL
    BY <2>2 DEF PollerInv, LeaseHeld, Fresh
  <2>4. QED
    BY <1>2, <2>2, <2>3
<1>8. QED
  BY <1>5, <1>6, <1>7 DEF PollerInv

----------------------------------------------------------------------------
(* Renewals and failed calls *)

LEMMA RenewKeeps ==
  ASSUME PollerInv, NEW r \in Replicas, Renew(r)
  PROVE  PollerInv'
<1>1. /\ rep[r].pc = "renew"
      /\ UNCHANGED <<inbox, confirmed, stored, user, issued, faults, stops, history>>
      /\ faults' \in 0..MaxFaults /\ LockTTL \in 0..LockTTL
  BY Facts, PollerAssumption DEF Renew, telegram, OthersTyped
<1>2. CASE /\ lock.by = r /\ lock' = [by |-> r, left |-> LockTTL]
           /\ rep' = [rep EXCEPT ![r].pc = "poll", ![r].age = 0]
  <2>1. "poll" \in Pcs \ Handling
    BY DEF Pcs, Leading, Handling
  <2>2. QED
    BY <1>1, <1>2, <2>1, RestartKeeps
<1>3. CASE Goto(r, "release") /\ UNCHANGED lock
  BY <1>1, <1>3, GotoKeeps DEF Pcs, Leading, Handling
<1>4. QED
  BY <1>2, <1>3 DEF Renew

(* A renewal that Redis did without answering helps nobody but its holder. *)
LEMMA LostRenewKeeps ==
  ASSUME PollerInv, NEW r \in Replicas, rep[r].pc = "renew", Goto(r, "release"),
         lock' \in {lock, IF lock.by = r THEN [lock EXCEPT !.left = LockTTL] ELSE lock},
         faults' \in 0..MaxFaults,
         UNCHANGED <<inbox, confirmed, stored, user, issued, stops, history>>
  PROVE  PollerInv'
<1> DEFINE new == [rep[r] EXCEPT !.pc = "release"]
<1>1. /\ new \in RepRecord /\ new.pc = "release" /\ new.offset = rep[r].offset
      /\ new.batch = rep[r].batch /\ new.age = rep[r].age
  <2>1. rep[r] \in RepRecord /\ "release" \in Pcs
    BY Facts DEF Pcs, Leading
  <2>2. QED
    BY <2>1, PcUpdates
<1>2. rep' = [rep EXCEPT ![r] = new]
  BY DEF Goto
<1> HIDE DEF new
<1>3. /\ lock' \in [by: Replicas \cup {None}, left: 0..LockTTL]
      /\ lock'.by = lock.by /\ lock'.left >= lock.left
      /\ \A q \in Replicas \ {r} : lock.by = q => lock' = lock
      /\ lock.left \in Nat /\ lock'.left \in Nat
  <2>1. lock \in [by: Replicas \cup {None}, left: 0..LockTTL] /\ LockTTL \in Nat
    BY Facts, PollerAssumption DEF OthersTyped
  <2>2. QED
    BY <2>1
<1>4. MoveOK(r, new)
  <2>1. new.pc \in Leading /\ new.age < LockTTL => lock'.by = r /\ lock'.left + new.age >= LockTTL
    <3>1. rep[r].age < LockTTL => lock.by = r /\ lock.left + rep[r].age >= LockTTL
      BY DEF PollerInv, LeaseHeld, Fresh, Leading
    <3>2. rep[r].age \in Nat /\ LockTTL \in Nat
      BY Facts, PollerAssumption
    <3>3. QED
      BY <1>1, <1>3, <3>1, <3>2
  <2>2. QED
    BY <1>1, <2>1, PlainMoveOK DEF history, Handling
<1>5. LinksOK'
  BY <1>1, <1>2, LinksKept DEF history
<1>6. OthersTyped'
  BY <1>3, Facts DEF OthersTyped, history
<1>7. QED
  BY <1>1, <1>2, <1>3, <1>4, <1>5, <1>6, Facts, MoveKeeps DEF history

LEMMA RedisFailsKeeps ==
  ASSUME PollerInv, NEW r \in Replicas, RedisFails(r)
  PROVE  PollerInv'
<1>1. /\ faults' \in 0..MaxFaults
      /\ UNCHANGED <<inbox, confirmed, user, issued, stops, history>>
  BY FaultTyped DEF RedisFails, telegram
<1>2. CASE rep[r].pc = "load" /\ Goto(r, "poll") /\ UNCHANGED <<stored, lock>>
  BY <1>1, <1>2, GotoKeeps DEF Pcs, Leading, Handling
<1>3. CASE /\ rep[r].pc = "persist" /\ stored' \in {stored, rep[r].offset}
           /\ Goto(r, "renew") /\ UNCHANGED lock
  <2>1. PICK m \in RepRecord : m = rep[r]
    BY Facts
  <2>2. [m EXCEPT !.pc = "renew"] = [m EXCEPT !.pc = "renew", !.persisted = m.persisted]
    BY DEF RepRecord
  <2>3. rep' = [rep EXCEPT ![r].pc = "renew", ![r].persisted = rep[r].persisted]
    BY <1>3, <2>1, <2>2 DEF Goto
  <2>4. PICK p \in {rep[r].persisted, rep[r].offset} : p = rep[r].persisted
    OBVIOUS
  <2>5. QED
    BY <1>1, <1>3, <2>3, <2>4, PersistKeeps
<1>4. CASE /\ rep[r].pc = "renew" /\ Goto(r, "release") /\ UNCHANGED stored
           /\ lock' \in {lock, IF lock.by = r THEN [lock EXCEPT !.left = LockTTL] ELSE lock}
  BY <1>1, <1>4, LostRenewKeeps
<1>5. CASE rep[r].pc = "release" /\ StandBy(r) /\ UNCHANGED <<stored, lock>>
  <2>1. "standby" \in Pcs \ Handling /\ "standby" \notin Leading
    BY DEF Pcs, Leading, Handling
  <2>2. lock' \in [by: Replicas \cup {None}, left: 0..LockTTL]
    BY <1>5, Facts DEF OthersTyped
  <2>3. QED
    BY <1>1, <1>5, <2>1, <2>2, RestartKeeps DEF StandBy
<1>6. QED
  BY <1>2, <1>3, <1>4, <1>5 DEF RedisFails

----------------------------------------------------------------------------
(* The invariant and what follows from it *)

LEMMA InitPollerInv == Init => PollerInv
<1> SUFFICES ASSUME Init PROVE PollerInv
  OBVIOUS
<1>1. /\ \A r \in Replicas : rep[r] = Booted
      /\ rep \in [Replicas -> RepRecord]
  BY FreshRecords DEF Init
<1>2. \A r \in Replicas : rep[r].pc = "standby" /\ rep[r].offset = 0
  BY <1>1, FreshRecords
<1>3. OthersTyped
  <2>1. user \in [link: {NoLink} \cup Links, expired: BOOLEAN, chat: {NoLink} \cup Links]
    BY Zenon DEF Init
  <2>2. inbox \in Seq({NoLink} \cup Links) /\ Len(inbox) = 0
    BY DEF Init
  <2>3. lock \in [by: Replicas \cup {None}, left: 0..LockTTL]
    BY PollerAssumption DEF Init, FreeLock
  <2>4. confirmed \in 1..(MaxUpdates + 1) /\ stored \in 0..(MaxUpdates + 1) /\ Len(inbox) <= MaxUpdates
    BY <2>2, PollerAssumption DEF Init
  <2>5. issued \in 0..MaxLinks /\ faults \in 0..MaxFaults /\ stops \in 0..MaxFaults
    BY PollerAssumption DEF Init
  <2>6. handled \subseteq 1..MaxUpdates /\ again \subseteq handled /\ overran \in BOOLEAN /\ dead \subseteq Links
    BY Zenon DEF Init
  <2>7. QED
    BY <2>1, <2>2, <2>3, <2>4, <2>5, <2>6 DEF OthersTyped
<1>4. (\A r \in Replicas : BatchOK(r)) /\ LeaseHeld
  BY <1>2 DEF BatchOK, LeaseHeld, Fresh, Leading, Handling
<1>5. Cursors /\ NothingSkipped
  <2>1. Len(inbox) = 0 /\ confirmed = 1 /\ stored = 0
    BY DEF Init
  <2>2. QED
    BY <1>2, <2>1 DEF Cursors, NothingSkipped
<1>6. LinksOK
  <2>1. Len(inbox) = 0 /\ user.link = NoLink /\ issued = 0 /\ dead = {}
    BY DEF Init
  <2>2. QED
    BY <1>2, <2>1 DEF LinksOK, NoLink
<1>7. QED
  BY <1>1, <1>3, <1>4, <1>5, <1>6, TypeSplit DEF PollerInv

(* The steps of a replica's poll loop. *)
LEMMA PollerStepKeeps ==
  ASSUME PollerInv, NEW r \in Replicas, PollerStep(r)
  PROVE  PollerInv'
<1>1. faults \in 0..MaxFaults /\ lock \in [by: Replicas \cup {None}, left: 0..LockTTL]
  BY Facts DEF OthersTyped
<1>2. CASE LoadOffset(r)
  BY <1>2, LoadOffsetKeeps
<1>3. CASE Poll(r)
  BY <1>3, PollKeeps
<1>4. CASE Receive(r)
  BY <1>4, ReceiveKeeps
<1>5. CASE Lookup(r)
  <2>1. /\ rep[r].pc = "handle"
        /\ UNCHANGED <<inbox, confirmed, stored, lock, user, issued, faults, stops, history>>
    BY <1>5 DEF Lookup, telegram
  <2>2. PICK pc \in {"reply", "clear", "bind"} :
          /\ Goto(r, pc)
          /\ pc = "bind" => user.link = LinkOf(r) /\ LinkOf(r) # NoLink /\ ~user.expired
    BY <1>5 DEF Lookup
  <2>3. pc = "bind" => LinkOf(r) \notin dead
    BY <2>2 DEF PollerInv, LinksOK
  <2>4. pc \in Pcs /\ rep[r].pc \in Handling /\ rep[r].pc \in Leading
    BY <2>1, <2>2 DEF Pcs, Leading, Handling
  <2>5. QED
    BY <1>1, <2>1, <2>2, <2>3, <2>4, GotoKeeps
<1>6. CASE Bind(r)
  BY <1>6, BindKeeps
<1>7. CASE ClearExpired(r)
  BY <1>7, ClearExpiredKeeps
<1>8. CASE Reply(r)
  BY <1>1, <1>8, HandledKeeps DEF Reply, Handling, telegram
<1>9. CASE PersistOffset(r)
  <2>1. PICK p \in {rep[r].persisted, rep[r].offset} : p = rep[r].offset
    OBVIOUS
  <2>2. /\ rep[r].pc = "persist" /\ stored' \in {stored, rep[r].offset}
        /\ rep' = [rep EXCEPT ![r].pc = "renew", ![r].persisted = p]
        /\ UNCHANGED <<inbox, confirmed, lock, user, issued, faults, stops, history>>
    BY <1>9, <2>1 DEF PersistOffset, telegram
  <2>3. QED
    BY <1>1, <2>2, PersistKeeps
<1>10. CASE Renew(r)
  BY <1>10, RenewKeeps
<1>11. CASE Release(r)
  <2>1. "standby" \in Pcs \ Handling /\ "standby" \notin Leading
    BY DEF Pcs, Leading, Handling
  <2>2. /\ lock' \in [by: Replicas \cup {None}, left: 0..LockTTL]
        /\ \A q \in Replicas \ {r} : lock.by = q => lock' = lock
    BY <1>1, <1>11, PollerAssumption DEF Release, Released, FreeLock
  <2>3. QED
    BY <1>1, <1>11, <2>1, <2>2, RestartKeeps DEF Release, StandBy, telegram
<1>12. CASE Stop(r)
  BY <1>1, <1>12, ProcessKeeps DEF Stop, telegram
<1>13. CASE Start(r)
  BY <1>1, <1>13, ProcessKeeps DEF Start, telegram
<1>14. QED
  BY <1>2, <1>3, <1>4, <1>5, <1>6, <1>7, <1>8, <1>9, <1>10, <1>11, <1>12, <1>13 DEF PollerStep

(* Every step keeps PollerInv. *)
LEMMA StepPollerInv == PollerInv /\ [Next]_vars => PollerInv'
<1> SUFFICES ASSUME PollerInv, [Next]_vars PROVE PollerInv'
  OBVIOUS
<1>1. CASE UNCHANGED vars
  BY <1>1 DEF vars, PollerInv, TypeOK, BatchOK, Cursors, NothingSkipped, LeaseHeld, Fresh,
    LinksOK, LinkOf
<1>2. ASSUME NEW l \in {NoLink} \cup Links, SendMessage(l) PROVE PollerInv'
  BY <1>2, SendMessageKeeps
<1>3. CASE CreateTelegramLink \/ UnlinkTelegram \/ LinkExpires
  BY <1>3, CreateLinkKeeps, UnlinkKeeps, LinkExpiresKeeps
<1>4. ASSUME NEW r \in Replicas, Acquire(r) PROVE PollerInv'
  <2>1. "load" \in Pcs \ Handling
    BY DEF Pcs, Leading, Handling
  <2>2. faults \in 0..MaxFaults /\ LockTTL \in 0..LockTTL
    BY Facts, PollerAssumption DEF OthersTyped
  <2>3. /\ lock' \in [by: Replicas \cup {None}, left: 0..LockTTL]
        /\ \A q \in Replicas \ {r} : lock.by # q
    BY <1>4, <2>2, PollerAssumption DEF Acquire
  <2>4. QED
    BY <1>4, <2>1, <2>2, <2>3, RestartKeeps DEF Acquire, telegram
<1>5. ASSUME NEW r \in Replicas, PollerStep(r) PROVE PollerInv'
  BY <1>5, PollerStepKeeps
<1>6. ASSUME NEW r \in Replicas, PollEnds(r) PROVE PollerInv'
  <2>1. /\ rep[r].pc = "polling" /\ faults' \in 0..MaxFaults
        /\ UNCHANGED <<inbox, confirmed, stored, lock, user, issued, stops, history>>
    BY <1>6, Facts, FaultTyped DEF PollEnds, telegram, OthersTyped
  <2>2. PICK pc \in {"release", "renew", "persist"} : Goto(r, pc)
    BY <1>6 DEF PollEnds
  <2>3. pc \in Pcs /\ pc \notin Handling /\ rep[r].pc \in Leading
    BY <2>1, <2>2 DEF Pcs, Leading, Handling
  <2>4. QED
    BY <2>1, <2>2, <2>3, GotoKeeps DEF Handling
<1>7. ASSUME NEW r \in Replicas, HandleFails(r) PROVE PollerInv'
  BY <1>7, FaultTyped, HandledKeeps DEF HandleFails, telegram
<1>8. ASSUME NEW r \in Replicas, RedisFails(r) PROVE PollerInv'
  BY <1>8, RedisFailsKeeps
<1>9. ASSUME NEW r \in Replicas, Shutdown(r) PROVE PollerInv'
  BY <1>9, ShutdownKeeps
<1>10. ASSUME NEW r \in Replicas, Crash(r) PROVE PollerInv'
  BY <1>10, FaultTyped, ProcessKeeps DEF Crash, telegram
<1>11. CASE Tick
  BY <1>11, TickKeeps
<1>12. QED
  BY <1>1, <1>2, <1>3, <1>4, <1>5, <1>6, <1>7, <1>8, <1>9, <1>10, <1>11 DEF Next

LEMMA PollerInvHolds == Spec => []PollerInv
  BY InitPollerInv, StepPollerInv, PTL DEF Spec

(* Every offset names an update or the one after the last, the batch of a  *)
(* poller holds updates that were sent, and no lock outlives its TTL.      *)
THEOREM TypeCorrect == Spec => []TypeOK
<1>1. PollerInv => TypeOK
  BY DEF PollerInv
<1>2. QED
  BY <1>1, PollerInvHolds, PTL

(* TelegramBotService.poll: whatever the pollers that overlap, crash or    *)
(* are replaced do with the cursor, no update is passed over.              *)
THEOREM NoUpdateSkipped == Spec => []NothingSkipped
<1>1. PollerInv => NothingSkipped
  BY DEF PollerInv
<1>2. QED
  BY <1>1, PollerInvHolds, PTL

(* runExclusive's lock, for every TTL: two pollers that renewed it within  *)
(* its TTL are the same one.                                               *)
THEOREM PollersExclude == Spec => []OneFreshPoller
<1>1. PollerInv => OneFreshPoller
  BY DEF PollerInv, LeaseHeld, OneFreshPoller
<1>2. QED
  BY <1>1, PollerInvHolds, PTL

(* bindTelegram and createTelegramLink: a link that was used or withdrawn  *)
(* is bound to no chat.                                                    *)
THEOREM LinksBindOnce == Spec => DeadLinkBindsNothing
<1>1. PollerInv => [\A r \in Replicas : Bind(r) => LinkOf(r) \notin dead]_vars
  BY DEF PollerInv, LinksOK, Bind
<1>2. QED
  BY <1>1, PollerInvHolds, PTL DEF DeadLinkBindsNothing

----------------------------------------------------------------------------
(* Leadership handed on without a failure *)

(* What a replica keeps when only its program counter and its age change. *)
LEMMA GotoFields ==
  ASSUME PollerInv, NEW r \in Replicas, NEW pc \in Pcs,
         \/ Goto(r, pc)
         \/ rep' = [rep EXCEPT ![r].pc = pc, ![r].age = 0]
  PROVE  /\ rep'[r].pc = pc /\ rep'[r].offset = rep[r].offset
         /\ rep'[r].persisted = rep[r].persisted
         /\ \A q \in Replicas \ {r} : rep'[q] = rep[q]
<1>1. rep \in [Replicas -> RepRecord]
  BY Facts
<1>2. PICK m \in RepRecord : m = rep[r]
  BY <1>1
<1>3. /\ \A q \in Replicas \ {r} : rep'[q] = rep[q]
      /\ rep'[r] \in {[m EXCEPT !.pc = pc], [m EXCEPT !.pc = pc, !.age = 0]}
  BY <1>1, <1>2 DEF Goto
<1>4. PICK n : n = rep'[r]
  OBVIOUS
<1>5. n.pc = pc /\ n.offset = m.offset /\ n.persisted = m.persisted
  <2>1. CASE n = [m EXCEPT !.pc = pc]
    BY <2>1, PcUpdates
  <2>2. CASE n = [m EXCEPT !.pc = pc, !.age = 0]
    BY <2>2, PcUpdates
  <2>3. QED
    BY <1>3, <1>4, <2>1, <2>2
<1>6. QED
  BY <1>2, <1>3, <1>4, <1>5

(* A step of replica r keeps Handed if it takes nobody else's lock, only   *)
(* the leader stores or handles anything, and r keeps its own part.        *)
LEMMA HandMove ==
  ASSUME PollerInv, PollerInv', Handed, NEW r \in Replicas,
         \A q \in Replicas \ {r} : rep'[q] = rep[q],
         lock'.by # None => lock'.left > 0,
         rep'[r].pc \in Leading => lock'.by = r,
         \A q \in Replicas \ {r} : lock.by = q => lock'.by = q,
         stored <= stored',
         stored' # stored \/ handled' # handled => rep[r].pc \in Leading,
         rep'[r].persisted <= stored',
         rep'[r].pc \notin Working => rep'[r].offset <= stored',
         rep'[r].pc \in Leading \ {"load"} => stored' <= rep'[r].offset,
         rep'[r].pc \in Working => \A i \in handled' : i < rep'[r].offset,
         rep'[r].pc \notin Working /\ (\A q \in Replicas \ {r} : rep[q].pc \notin Working)
           => \A i \in handled' : i < stored',
         again' = {}
  PROVE  Handed'
<1>1. /\ stored \in Nat /\ stored' \in Nat
      /\ \A q \in Replicas : rep[q].offset \in Nat /\ rep[q].persisted \in Nat
  <2>1. TypeOK /\ TypeOK'
    BY DEF PollerInv
  <2>2. stored \in Nat /\ stored' \in Nat
    BY <2>1, PollerAssumption DEF TypeOK
  <2>3. ASSUME NEW q \in Replicas PROVE rep[q].offset \in Nat /\ rep[q].persisted \in Nat
    BY Facts, RepFields
  <2>4. QED
    BY <2>2, <2>3
<1>2. \A q \in Replicas \ {r} : rep[r].pc \in Leading => rep[q].pc \notin Leading
  BY DEF Handed
<1>3. \A q \in Replicas : q # r => /\ rep'[q].pc \in Leading => lock'.by = q
                                   /\ rep'[q].persisted <= stored'
                                   /\ rep'[q].pc \notin Working => rep'[q].offset <= stored'
  BY <1>1 DEF Handed
<1>4. \A q \in Replicas : q # r =>
        /\ rep'[q].pc \in Leading \ {"load"} => stored' <= rep'[q].offset
        /\ rep'[q].pc \in Working => \A i \in handled' : i < rep'[q].offset
  BY <1>2 DEF Handed, Working, Leading
<1>5. QED
  BY <1>3, <1>4 DEF Handed

(* The same for a step that moves nothing but program counters. *)
LEMMA HandPlain ==
  ASSUME PollerInv, PollerInv', Handed, NEW r \in Replicas,
         \A q \in Replicas \ {r} : rep'[q] = rep[q],
         rep'[r].offset = rep[r].offset, rep'[r].persisted = rep[r].persisted,
         rep'[r].pc \in Working => rep[r].pc \in Working \cup {"polling"},
         rep[r].pc \in Working => rep'[r].pc \in Working,
         rep'[r].pc \in Leading \ {"load"} => rep[r].pc \in Leading \ {"load"},
         lock'.by # None => lock'.left > 0,
         rep'[r].pc \in Leading => lock'.by = r,
         \A q \in Replicas \ {r} : lock.by = q => lock'.by = q,
         UNCHANGED <<stored, handled, again>>
  PROVE  Handed'
<1>1. stored \in Nat /\ rep[r].offset \in Nat /\ handled \subseteq Nat
  BY Facts DEF OthersTyped
<1>2. \A q \in Replicas \ {r} : rep[r].pc \in Leading => rep[q].pc \notin Working
  BY DEF Handed, Working, Leading
<1>3. rep[r].pc = "polling" => \A i \in handled : i < rep[r].offset
  <2>1. SUFFICES ASSUME rep[r].pc = "polling" PROVE \A i \in handled : i < rep[r].offset
    OBVIOUS
  <2>2. (\A q \in Replicas : rep[q].pc \notin Working) /\ stored <= rep[r].offset
    BY <1>2, <2>1 DEF Handed, Working, Leading, Handling
  <2>3. QED
    BY <1>1, <2>2 DEF Handed
<1>4. rep'[r].pc \in Working => \A i \in handled' : i < rep'[r].offset
  BY <1>3 DEF Handed
<1>5. /\ rep'[r].persisted <= stored'
      /\ rep'[r].pc \notin Working => rep'[r].offset <= stored'
      /\ rep'[r].pc \in Leading \ {"load"} => stored' <= rep'[r].offset
      /\ again' = {} /\ stored <= stored' /\ stored' = stored /\ handled' = handled
  BY <1>1 DEF Handed
<1>6. rep'[r].pc \notin Working /\ (\A q \in Replicas \ {r} : rep[q].pc \notin Working)
        => \A i \in handled' : i < stored'
  BY DEF Handed
<1>7. QED
  BY <1>4, <1>5, <1>6, HandMove

(* loadOffset brings a new leader to the stored offset. *)
LEMMA LoadHands ==
  ASSUME PollerInv, PollerInv', Handed, NEW r \in Replicas, LoadOffset(r)
  PROVE  Handed'
<1>1. PICK m \in RepRecord : m = rep[r]
  BY Facts
<1>2. /\ stored \in Nat /\ m.offset \in Nat /\ m.offset <= stored /\ m.persisted <= stored
      /\ m.pc = "load"
  BY <1>1, Facts DEF Handed, LoadOffset, Working, Handling
<1>3. PICK l : l = Loaded(m)
  OBVIOUS
<1>4. l \in RepRecord /\ l.offset = stored /\ l.persisted <= stored
  <2> DEFINE ahead == [m EXCEPT !.offset = stored, !.persisted = stored]
  <2>1. stored \in Offsets
    BY Facts DEF OthersTyped, Offsets
  <2>2. ahead \in RepRecord
    BY <2>1, Zenon DEF RepRecord
  <2>3. ahead.offset = stored /\ ahead.persisted = stored
    BY DEF RepRecord
  <2>4. l = IF stored > m.offset THEN ahead ELSE m
    BY <1>3 DEF Loaded
  <2> HIDE DEF ahead
  <2>5. QED
    BY <1>2, <2>2, <2>3, <2>4
<1>5. /\ rep'[r] = [l EXCEPT !.pc = "poll"] /\ \A q \in Replicas \ {r} : rep'[q] = rep[q]
      /\ UNCHANGED <<stored, lock, handled, again>>
  BY <1>1, <1>3, Facts DEF LoadOffset, history
<1>6. rep'[r].pc = "poll" /\ rep'[r].offset = stored /\ rep'[r].persisted <= stored
  <2>1. "poll" \in Pcs
    BY DEF Pcs, Leading
  <2>2. PICK n : n = [l EXCEPT !.pc = "poll"]
    OBVIOUS
  <2>3. n.pc = "poll" /\ n.offset = l.offset /\ n.persisted = l.persisted
    BY <1>4, <2>1, <2>2, PcUpdates
  <2>4. QED
    BY <1>4, <1>5, <2>2, <2>3
<1>7. /\ "poll" \notin Working /\ "poll" \in Leading
      /\ rep[r].pc \notin Working /\ rep[r].pc \in Leading
  BY <1>1, <1>2 DEF Working, Leading, Handling
<1>8. /\ (\A q \in Replicas \ {r} : rep[q].pc \notin Working) => \A i \in handled' : i < stored'
      /\ stored' = stored /\ handled' = handled /\ stored <= stored'
      /\ rep'[r].offset <= stored' /\ stored' <= rep'[r].offset /\ rep'[r].persisted <= stored'
  BY <1>2, <1>5, <1>6, <1>7 DEF Handed
<1>9. /\ lock'.by # None => lock'.left > 0
      /\ lock'.by = r /\ again' = {}
  BY <1>5, <1>7 DEF Handed
<1>10. QED
  BY <1>5, <1>6, <1>7, <1>8, <1>9, HandMove

(* An update is handled by the leader, for the first time. *)
LEMMA ReplyHands ==
  ASSUME PollerInv, PollerInv', Handed, NEW r \in Replicas, Reply(r)
  PROVE  Handed'
<1>1. PICK h \in 1..MaxUpdates : h = Head(rep[r].batch)
  BY HeadFacts DEF Reply, Handling
<1>2. /\ rep[r].pc = "reply" /\ rep[r].offset <= h /\ h \in Nat /\ rep[r].offset \in Nat
      /\ stored \in Nat /\ handled \subseteq Nat
  <2>1. rep[r].pc = "reply" /\ rep[r].pc \in Handling
    BY DEF Reply, Handling
  <2>2. rep[r].offset <= h /\ h \in Nat /\ rep[r].offset \in Nat /\ stored \in Nat
    BY <1>1, <2>1, HeadFacts, Facts, PollerAssumption
  <2>3. handled \subseteq Nat
    BY Facts DEF OthersTyped
  <2>4. QED
    BY <2>1, <2>2, <2>3
<1>3. /\ \A i \in handled : i < rep[r].offset
      /\ stored <= rep[r].offset /\ rep[r].persisted <= stored /\ lock.by = r
      /\ lock.by # None => lock.left > 0
  BY <1>2 DEF Handed, Working, Leading, Handling
<1>4. PICK m \in RepRecord : m = rep[r]
  BY Facts
<1>5. PICK pc \in {"persist", "handle"} : pc = IF Tail(m.batch) = <<>> THEN "persist" ELSE "handle"
  OBVIOUS
<1>6. PICK t : t = Tail(m.batch)
  OBVIOUS
<1>7. /\ rep'[r] = [m EXCEPT !.offset = h + 1, !.batch = t, !.pc = pc]
      /\ \A q \in Replicas \ {r} : rep'[q] = rep[q]
      /\ handled' = handled \cup {h} /\ again' = again \cup ({h} \cap handled)
      /\ UNCHANGED <<stored, lock>>
  BY <1>1, <1>4, <1>5, <1>6, Facts DEF Reply, Handled, Advanced
<1>8. rep'[r].pc = pc /\ rep'[r].offset = h + 1 /\ rep'[r].persisted = rep[r].persisted
  <2>1. PICK n : n = [m EXCEPT !.offset = h + 1, !.batch = t, !.pc = pc]
    OBVIOUS
  <2>2. n.pc = pc /\ n.offset = h + 1 /\ n.persisted = m.persisted
    BY <2>1 DEF RepRecord
  <2>3. QED
    BY <1>4, <1>7, <2>1, <2>2
<1>9. again' = {}
  <2>1. h \notin handled
    BY <1>2, <1>3
  <2>2. QED
    BY <1>7, <2>1 DEF Handed
<1>10. pc \in Working /\ pc \in Leading /\ rep[r].pc \in Leading
  BY <1>2, <1>5 DEF Working, Leading, Handling
<1>11. /\ stored' <= rep'[r].offset /\ stored <= stored' /\ rep'[r].persisted <= stored'
       /\ \A i \in handled' : i < rep'[r].offset
  BY <1>2, <1>3, <1>7, <1>8
<1>12. lock'.by = r /\ (lock'.by # None => lock'.left > 0)
  BY <1>3, <1>7
<1>13. QED
  BY <1>7, <1>8, <1>9, <1>10, <1>11, <1>12, HandMove

(* persistOffset: the stored offset catches up with the leader's. *)
LEMMA PersistHands ==
  ASSUME PollerInv, PollerInv', Handed, NEW r \in Replicas, PersistOffset(r)
  PROVE  Handed'
<1>1. /\ rep[r].pc = "persist" /\ rep[r].offset \in Nat /\ rep[r].persisted \in Nat
      /\ stored \in Nat
  BY Facts, RepFields DEF PersistOffset
<1>2. /\ \A i \in handled : i < rep[r].offset
      /\ stored <= rep[r].offset /\ rep[r].persisted <= stored /\ lock.by = r
      /\ (lock.by # None => lock.left > 0) /\ again = {}
  BY <1>1 DEF Handed, Working, Leading, Handling
<1>3. stored' = rep[r].offset /\ UNCHANGED <<lock, handled, again>>
  BY <1>1, <1>2 DEF PersistOffset, history
<1>4. PICK m \in RepRecord : m = rep[r]
  BY Facts
<1>5. PICK o : o = rep[r].offset
  OBVIOUS
<1>6. /\ rep'[r] = [m EXCEPT !.pc = "renew", !.persisted = o]
      /\ \A q \in Replicas \ {r} : rep'[q] = rep[q]
  BY <1>4, <1>5, Facts DEF PersistOffset
<1>7. rep'[r].pc = "renew" /\ rep'[r].offset = rep[r].offset /\ rep'[r].persisted = rep[r].offset
  <2>1. PICK n : n = [m EXCEPT !.pc = "renew", !.persisted = o]
    OBVIOUS
  <2>2. n.pc = "renew" /\ n.offset = m.offset /\ n.persisted = o
    BY <2>1 DEF RepRecord
  <2>3. QED
    BY <1>4, <1>5, <1>6, <2>1, <2>2
<1>8. "renew" \notin Working /\ "renew" \in Leading /\ rep[r].pc \in Leading
  BY <1>1 DEF Working, Leading, Handling
<1>9. /\ stored <= stored' /\ rep'[r].offset <= stored' /\ stored' <= rep'[r].offset
      /\ rep'[r].persisted <= stored' /\ \A i \in handled' : i < stored'
  BY <1>1, <1>2, <1>3, <1>7
<1>10. lock'.by = r /\ (lock'.by # None => lock'.left > 0) /\ again' = {}
  BY <1>2, <1>3
<1>11. QED
  BY <1>2, <1>6, <1>7, <1>8, <1>9, <1>10, HandMove

(* Without an overrun the lock expires only after its holder is gone. *)
LEMMA TickHands ==
  ASSUME PollerInv, PollerInv', Handed, Tick, ~overran'
  PROVE  Handed'
<1>1. /\ \A q \in Replicas :
           /\ rep'[q].pc = rep[q].pc /\ rep'[q].offset = rep[q].offset
           /\ rep'[q].persisted = rep[q].persisted
      /\ lock.left > 1 => lock'.by = lock.by /\ lock'.left = lock.left - 1
      /\ ~(lock.left > 1) => lock' = FreeLock
  BY TickFacts
<1>2. UNCHANGED <<stored, handled, again>>
  BY DEF Tick
<1>3. lock.left \in Nat
  BY TypeSplit, PollerAssumption DEF PollerInv, OthersTyped
<1>4. ~(lock.left > 1) => \A q \in Replicas : rep[q].pc \notin Leading
  <2>1. SUFFICES ASSUME ~(lock.left > 1), NEW q \in Replicas, rep[q].pc \in Leading PROVE FALSE
    OBVIOUS
  <2>2. lock.by = q /\ lock.left > 0
    BY <2>1, PollerAssumption DEF Handed
  <2>3. lock.left = 1
    BY <1>3, <2>1, <2>2
  <2>4. QED
    BY <2>1, <2>2, <2>3 DEF Tick
<1>5. lock'.by # None => lock'.left > 0
  BY <1>1, <1>3 DEF FreeLock
<1>6. \A q \in Replicas : rep'[q].pc \in Leading => lock'.by = q
  BY <1>1, <1>4 DEF Handed
<1>7. QED
  BY <1>1, <1>2, <1>5, <1>6 DEF Handed

(* The steps that move no offset. *)
LEMMA PlainHands ==
  ASSUME PollerInv, PollerInv', Handed, NEW r \in Replicas,
         \/ Acquire(r) \/ Poll(r) \/ Lookup(r) \/ Bind(r) \/ ClearExpired(r)
         \/ Renew(r) \/ Release(r) \/ (PollEnds(r) /\ faults' = faults)
  PROVE  Handed'
<1>1. UNCHANGED <<stored, handled, again>>
  BY DEF Acquire, Poll, Lookup, Bind, ClearExpired, Renew, Release, PollEnds, history
<1>2. /\ lock.by # None => lock.left > 0
      /\ \A q \in Replicas : rep[q].pc \in Leading => lock.by = q
  BY DEF Handed
<1>3. "load" \in Pcs /\ "standby" \in Pcs /\ "poll" \in Pcs /\ "reply" \in Pcs
      /\ "polling" \in Pcs /\ "release" \in Pcs /\ "bind" \in Pcs /\ "clear" \in Pcs
  BY DEF Pcs, Leading, Handling
<1>4. CASE Acquire(r)
  <2>1. /\ rep'[r].pc = "load" /\ rep[r].pc = "standby" /\ rep'[r].offset = rep[r].offset
        /\ rep'[r].persisted = rep[r].persisted /\ \A q \in Replicas \ {r} : rep'[q] = rep[q]
    BY <1>3, <1>4, GotoFields DEF Acquire
  <2>2. lock.by = None /\ lock'.by = r /\ lock'.left > 0
    BY <1>4, PollerAssumption DEF Acquire
  <2>3. QED
    BY <1>1, <2>1, <2>2, HandPlain, PollerAssumption DEF Working, Leading, Handling
<1>5. CASE Release(r)
  <2>1. /\ rep'[r].pc = "standby" /\ rep[r].pc = "release" /\ rep'[r].offset = rep[r].offset
        /\ rep'[r].persisted = rep[r].persisted /\ \A q \in Replicas \ {r} : rep'[q] = rep[q]
    BY <1>3, <1>5, GotoFields DEF Release, StandBy
  <2>2. lock.by = r
    BY <1>2, <2>1 DEF Leading
  <2>3. lock'.by = None
    BY <1>5, <2>2 DEF Release, Released, FreeLock
  <2>4. QED
    BY <1>1, <2>1, <2>2, <2>3, HandPlain DEF Working, Leading, Handling
<1>6. CASE Renew(r)
  <2>1. rep[r].pc = "renew" /\ lock.by = r
    BY <1>2, <1>6 DEF Renew, Leading
  <2>2. lock'.by = r /\ lock'.left > 0 /\ rep' = [rep EXCEPT ![r].pc = "poll", ![r].age = 0]
    BY <1>6, <2>1, PollerAssumption DEF Renew
  <2>3. /\ rep'[r].pc = "poll" /\ rep'[r].offset = rep[r].offset
        /\ rep'[r].persisted = rep[r].persisted /\ \A q \in Replicas \ {r} : rep'[q] = rep[q]
    BY <1>3, <2>2, GotoFields
  <2>4. QED
    BY <1>1, <2>1, <2>2, <2>3, HandPlain DEF Working, Leading, Handling
<1>7. CASE Poll(r) \/ Lookup(r) \/ Bind(r) \/ ClearExpired(r) \/ (PollEnds(r) /\ faults' = faults)
  <2>1. PICK pc \in Pcs :
          /\ Goto(r, pc)
          /\ \/ rep[r].pc \in {"poll", "polling"} /\ pc \in {"polling", "release"}
             \/ rep[r].pc \in Handling /\ pc \in {"reply", "clear", "bind"}
    <3>1. CASE Poll(r)
      BY <1>3, <3>1 DEF Poll
    <3>2. CASE Lookup(r)
      BY <1>3, <3>2 DEF Lookup, Handling
    <3>3. CASE Bind(r) \/ ClearExpired(r)
      BY <1>3, <3>3 DEF Bind, ClearExpired, Handling
    <3>4. CASE PollEnds(r) /\ faults' = faults
      <4>1. rep[r].pc = "polling" /\ \A q \in Replicas \ {r} : rep[q].pc # "polling"
        BY <1>2, <3>4 DEF PollEnds, Leading
      <4>2. faults \in Nat
        BY Facts DEF OthersTyped
      <4>3. Goto(r, "release")
        BY <3>4, <4>1, <4>2 DEF PollEnds, Fault
      <4>4. QED
        BY <1>3, <4>1, <4>3
    <3>5. QED
      BY <1>7, <3>1, <3>2, <3>3, <3>4
  <2>2. lock' = lock /\ rep[r].pc \in Leading /\ lock.by = r
    <3>1. rep[r].pc \in Leading
      BY <2>1 DEF Leading
    <3>2. lock' = lock
      BY <1>7 DEF Poll, Lookup, Bind, ClearExpired, PollEnds
    <3>3. QED
      BY <1>2, <3>1, <3>2
  <2>3. /\ rep'[r].pc = pc /\ rep'[r].offset = rep[r].offset
        /\ rep'[r].persisted = rep[r].persisted /\ \A q \in Replicas \ {r} : rep'[q] = rep[q]
    BY <2>1, GotoFields
  <2>4. /\ rep'[r].pc \in Working => rep[r].pc \in Working \cup {"polling"}
        /\ rep[r].pc \in Working => rep'[r].pc \in Working
        /\ rep'[r].pc \in Leading \ {"load"} => rep[r].pc \in Leading \ {"load"}
    BY <2>1, <2>3 DEF Working, Leading, Handling
  <2>5. QED
    BY <1>1, <1>2, <2>2, <2>3, <2>4, HandPlain
<1>8. QED
  BY <1>4, <1>5, <1>6, <1>7

(* A batch arrives. *)
LEMMA ReceiveHands ==
  ASSUME PollerInv, PollerInv', Handed, NEW r \in Replicas, Receive(r)
  PROVE  Handed'
<1>1. PICK m \in RepRecord : m = rep[r]
  BY Facts
<1>2. PICK b : b = Served(rep[r].offset)
  OBVIOUS
<1>3. PICK pc \in {"persist", "handle"} : pc = IF b = <<>> THEN "persist" ELSE "handle"
  OBVIOUS
<1>4. /\ rep'[r] = [m EXCEPT !.pc = pc, !.batch = b] /\ m.pc = "polling"
      /\ \A q \in Replicas \ {r} : rep'[q] = rep[q]
      /\ UNCHANGED <<lock, stored, handled, again>>
  BY <1>1, <1>2, <1>3, Facts DEF Receive, history
<1>5. rep'[r].pc = pc /\ rep'[r].offset = rep[r].offset /\ rep'[r].persisted = rep[r].persisted
  <2>1. PICK n : n = [m EXCEPT !.pc = pc, !.batch = b]
    OBVIOUS
  <2>2. n.pc = pc /\ n.offset = m.offset /\ n.persisted = m.persisted
    BY <2>1 DEF RepRecord
  <2>3. QED
    BY <1>1, <1>4, <2>1, <2>2
<1>6. lock.by = r /\ (lock.by # None => lock.left > 0)
  BY <1>1, <1>4 DEF Handed, Leading
<1>7. QED
  BY <1>1, <1>3, <1>4, <1>5, <1>6, HandPlain DEF Working, Leading, Handling

(* A process is told to stop, stops or starts. *)
LEMMA ProcessHands ==
  ASSUME PollerInv, PollerInv', Handed, NEW r \in Replicas,
         Shutdown(r) \/ Stop(r) \/ Start(r)
  PROVE  Handed'
<1>1. /\ rep \in [Replicas -> RepRecord] /\ stored \in Nat
      /\ \A q \in Replicas \ {r} : rep'[q] = rep[q]
      /\ UNCHANGED <<lock, stored, handled, again>>
  BY Facts DEF Shutdown, Stop, Start, history
<1>2. /\ lock.by # None => lock.left > 0
      /\ rep[r].pc \in Leading => lock.by = r
      /\ again = {}
  BY DEF Handed
<1>3. CASE Shutdown(r)
  <2>1. PICK m \in RepRecord : m = rep[r]
    BY <1>1
  <2>2. PICK n : n = [m EXCEPT !.running = FALSE]
    OBVIOUS
  <2>3. n.pc = m.pc /\ n.offset = m.offset /\ n.persisted = m.persisted
    BY <2>2 DEF RepRecord
  <2>4. rep'[r] = n
    BY <1>1, <1>3, <2>1, <2>2 DEF Shutdown
  <2>5. QED
    BY <1>1, <1>2, <2>1, <2>3, <2>4, HandPlain
<1>4. CASE Stop(r) \/ Start(r)
  <2>1. rep[r].pc \in {"standby", "off"} /\ rep'[r] \in {Booted, Stopped}
    BY <1>1, <1>4 DEF Stop, Start
  <2>2. rep'[r].pc \in {"standby", "off"} /\ rep'[r].offset = 0 /\ rep'[r].persisted = 0
    BY <2>1, FreshRecords
  <2>3. /\ \A p \in {"standby", "off"} : p \notin Working /\ p \notin Leading
        /\ stored <= stored' /\ 0 <= stored' /\ stored' = stored /\ handled' = handled
    BY <1>1 DEF Working, Leading, Handling
  <2>4. (\A q \in Replicas \ {r} : rep[q].pc \notin Working) => \A i \in handled' : i < stored'
    BY <1>1, <2>1, <2>3 DEF Handed
  <2>5. QED
    BY <1>1, <1>2, <2>2, <2>3, <2>4, HandMove
<1>5. QED
  BY <1>3, <1>4

LEMMA InitHandover == Init => Handover
<1> SUFFICES ASSUME Init PROVE Handed
  BY DEF Handover
<1>1. \A r \in Replicas : rep[r].pc = "standby" /\ rep[r].offset = 0 /\ rep[r].persisted = 0
  BY FreshRecords DEF Init
<1>2. lock.by = None /\ stored = 0 /\ handled = {} /\ again = {}
  BY DEF Init, FreeLock
<1>3. QED
  BY <1>1, <1>2 DEF Handed, Leading, Handling

(* No step undoes a failure or an overrun; without one, Handed is kept. *)
LEMMA StepHandover == PollerInv /\ Handover /\ [Next]_vars => Handover'
<1> SUFFICES ASSUME PollerInv, PollerInv', Handover, [Next]_vars, faults' = 0, ~overran'
             PROVE  Handed'
  BY StepPollerInv DEF Handover
<1>1. CASE UNCHANGED vars
  BY <1>1 DEF vars, Handover, Handed
<1>2. ASSUME Fault PROVE FALSE
  BY <1>2, FaultTyped
<1>3. ASSUME faults' = faults, overran' = overran PROVE Handed
  BY <1>3 DEF Handover
<1>4. CASE \/ \E l \in {NoLink} \cup Links : SendMessage(l)
           \/ CreateTelegramLink \/ UnlinkTelegram \/ LinkExpires
  <2>1. UNCHANGED <<stored, lock, rep, faults, handled, again, overran>>
    BY <1>4 DEF SendMessage, CreateTelegramLink, UnlinkTelegram, LinkExpires, history
  <2>2. QED
    BY <2>1 DEF Handover, Handed
<1>5. ASSUME NEW r \in Replicas,
             \/ Acquire(r) \/ PollerStep(r) \/ PollEnds(r)
             \/ HandleFails(r) \/ RedisFails(r) \/ Shutdown(r) \/ Crash(r)
      PROVE  Handed'
  <2>1. CASE HandleFails(r) \/ RedisFails(r) \/ Crash(r)
    BY <1>2, <2>1 DEF HandleFails, RedisFails, Crash
  <2>2. CASE Acquire(r) \/ Poll(r) \/ Lookup(r) \/ Bind(r) \/ ClearExpired(r) \/ Renew(r) \/ Release(r)
    <3>1. faults' = faults /\ overran' = overran
      BY <2>2 DEF Acquire, Poll, Lookup, Bind, ClearExpired, Renew, Release, history
    <3>2. QED
      BY <1>3, <2>2, <3>1, PlainHands
  <2>3. CASE PollEnds(r)
    <3>1. faults' = faults /\ overran' = overran
      BY <1>2, <2>3 DEF PollEnds, history
    <3>2. QED
      BY <1>3, <2>3, <3>1, PlainHands
  <2>4. CASE LoadOffset(r) \/ Receive(r) \/ Reply(r) \/ PersistOffset(r)
    <3>1. faults' = faults /\ overran' = overran
      BY <2>4 DEF LoadOffset, Receive, Reply, PersistOffset, history
    <3>2. QED
      BY <1>3, <2>4, <3>1, LoadHands, ReceiveHands, ReplyHands, PersistHands
  <2>5. CASE Shutdown(r) \/ Stop(r) \/ Start(r)
    <3>1. faults' = faults /\ overran' = overran
      BY <2>5 DEF Shutdown, Stop, Start, history
    <3>2. QED
      BY <1>3, <2>5, <3>1, ProcessHands
  <2>6. QED
    BY <1>5, <2>1, <2>2, <2>3, <2>4, <2>5 DEF PollerStep
<1>6. CASE Tick
  <2>1. faults' = faults /\ ~overran
    BY <1>6 DEF Tick
  <2>2. QED
    BY <1>6, <2>1, TickHands DEF Handover
<1>7. QED
  BY <1>1, <1>4, <1>5, <1>6 DEF Next

(* persistOffset and loadOffset hand the cursor on: without a failed call, *)
(* a crash or a pass that outlasts its lock, no update is handled twice,   *)
(* however often the leader is shut down and replaced.                     *)
THEOREM NothingRepeated == Spec => []HandoverRepeatsNothing
<1>1. PollerInv /\ Handover => HandoverRepeatsNothing
  <2>1. SUFFICES ASSUME PollerInv, Handover, faults = 0, ~overran PROVE again = {}
    <3>1. PollerInv => faults \in Nat
      BY TypeSplit DEF PollerInv, OthersTyped
    <3>2. QED
      BY <3>1 DEF HandoverRepeatsNothing
  <2>2. QED
    BY <2>1 DEF Handover, Handed
<1>2. Spec => []Handover
  BY InitHandover, StepHandover, PollerInvHolds, PTL DEF Spec
<1>3. QED
  BY <1>1, <1>2, PollerInvHolds, PTL

=============================================================================
