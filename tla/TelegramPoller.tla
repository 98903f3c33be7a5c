--------------------------- MODULE TelegramPoller ---------------------------
(***************************************************************************)
(* The Telegram bot of core-api (TelegramBotService): replicas elect one   *)
(* poller with a Redis lock, the poller reads updates by offset and        *)
(* handles them one by one, and the offset is handed on through Redis.     *)
(* Handling a /start update binds the chat to the account that owns the    *)
(* link (UsersService.bindTelegram), while the owner issues and withdraws  *)
(* links. Telegram itself is modelled from how it is used: it keeps the    *)
(* updates that no getUpdates has confirmed with a later offset.           *)
(***************************************************************************)
EXTENDS Integers, Sequences, FiniteSets

CONSTANTS
  Replicas,    \* core-api processes
  LockTTL,     \* POLL_LOCK_TTL_SEC, in ticks
  PollBound,   \* how long a poll without updates can go without renewing the lock
  PassBound,   \* the same for a pass that handles updates
  MaxUpdates,  \* how many messages the bot is sent
  MaxLinks,    \* how many links the owner issues
  MaxFaults,   \* how many calls fail, processes crash or are shut down
  None

ASSUME PollerAssumption ==
  /\ LockTTL \in Nat \ {0} /\ PollBound \in Nat /\ PassBound \in Nat
  /\ PollBound < LockTTL /\ PollBound <= PassBound /\ MaxUpdates \in Nat
  /\ MaxLinks \in Nat /\ MaxFaults \in Nat
  /\ None \notin Replicas

Links   == 1..MaxLinks
NoLink  == 0

VARIABLES
  inbox,      \* Telegram: the updates in order, each the link it carries
  confirmed,  \* Telegram: updates below this one are gone
  stored,     \* the cursor in Redis, 0 while there is none
  lock,       \* the Redis key: who holds it and for how long
  rep,        \* the replicas
  user,       \* the account's row: link and whether it expired, bound chat
  issued,     \* links issued so far
  faults, stops,
  handled,    \* history: the updates some replica has handled
  again,      \* history: the updates handled more than once
  overran,    \* history: the lock expired under its holder
  dead        \* history: links used or withdrawn that no replica is binding

vars == <<inbox, confirmed, stored, lock, rep, user, issued, faults, stops,
          handled, again, overran, dead>>

telegram == <<inbox, confirmed>>
history  == <<handled, again, overran, dead>>

FreeLock == [by |-> None, left |-> 0]
Handling == {"handle", "bind", "clear", "reply"}
Leading  == {"load", "poll", "polling", "persist", "renew", "release"} \cup Handling

(* onModuleInit in a new process: the offset in memory starts at zero. *)
Booted == [pc |-> "standby", running |-> TRUE, offset |-> 0, persisted |-> 0,
           batch |-> <<>>, age |-> 0]

Stopped == [Booted EXCEPT !.pc = "off", !.running = FALSE]

Init ==
  /\ inbox = <<>> /\ confirmed = 1 /\ stored = 0
  /\ lock = FreeLock
  /\ rep = [r \in Replicas |-> Booted]
  /\ user = [link |-> NoLink, expired |-> FALSE, chat |-> NoLink]
  /\ issued = 0 /\ faults = 0 /\ stops = 0
  /\ handled = {} /\ again = {} /\ overran = FALSE /\ dead = {}

Fault == faults + stops < MaxFaults /\ faults' = faults + 1

Goto(r, pc) == rep' = [rep EXCEPT ![r].pc = pc]

StandBy(r) == rep' = [rep EXCEPT ![r].pc = "standby", ![r].age = 0]

----------------------------------------------------------------------------
(* The owner: a message to the bot carries a link issued before, or none.  *)

(* The link of the update a replica handles. *)
LinkOf(r) == inbox[Head(rep[r].batch)]

(* A link is dead once it is withdrawn and no replica has looked it up. *)
Binding(l, among) == \E r \in among : rep[r].pc = "bind" /\ LinkOf(r) = l

Withdrawn(l, among) == IF l = NoLink \/ Binding(l, among) THEN {} ELSE {l}

SendMessage(l) ==
  /\ Len(inbox) < MaxUpdates
  /\ l <= issued
  /\ inbox' = Append(inbox, l)
  /\ UNCHANGED <<confirmed, stored, lock, rep, user, issued, faults, stops, history>>

CreateTelegramLink ==
  /\ issued < MaxLinks
  /\ issued' = issued + 1
  /\ user' = [user EXCEPT !.link = issued + 1, !.expired = FALSE]
  /\ dead' = dead \cup Withdrawn(user.link, Replicas)
  /\ UNCHANGED <<telegram, stored, lock, rep, faults, stops, handled, again, overran>>

(* The chat is cleared, a pending link stays. *)
MutUnlinked == [user EXCEPT !.chat = NoLink]

Unlinked == [link |-> NoLink, expired |-> FALSE, chat |-> NoLink]

UnlinkTelegram ==
  /\ user.chat # NoLink \/ user.link # NoLink
  /\ user' = Unlinked
  /\ dead' = dead \cup Withdrawn(user.link, Replicas)
  /\ UNCHANGED <<telegram, stored, lock, rep, issued, faults, stops, handled, again, overran>>

(* TELEGRAM_LINK_TTL_MS passes. *)
LinkExpires ==
  /\ user.link # NoLink /\ ~user.expired
  /\ user' = [user EXCEPT !.expired = TRUE]
  /\ dead' = dead \cup Withdrawn(user.link, Replicas)
  /\ UNCHANGED <<telegram, stored, lock, rep, issued, faults, stops, handled, again, overran>>

----------------------------------------------------------------------------
(* run: stand by, become the poller, resume from the stored offset *)

Acquire(r) ==
  /\ rep[r].pc = "standby" /\ rep[r].running
  /\ lock.by = None
  /\ lock' = [by |-> r, left |-> LockTTL]
  /\ rep' = [rep EXCEPT ![r].pc = "load", ![r].age = 0]
  /\ UNCHANGED <<telegram, stored, user, issued, faults, stops, history>>

(* Keeps the offset in memory. *)
MutLoaded(m) == m

(* stored !== null && stored > this.offset *)
Loaded(m) == IF stored > m.offset
               THEN [m EXCEPT !.offset = stored, !.persisted = stored]
               ELSE m

LoadOffset(r) ==
  /\ rep[r].pc = "load"
  /\ rep' = [rep EXCEPT ![r] = [Loaded(rep[r]) EXCEPT !.pc = "poll"]]
  /\ UNCHANGED <<telegram, stored, lock, user, issued, faults, stops, history>>

(* Deletes the key whoever holds it. *)
MutReleased(r) == FreeLock

(* The finally block of run *)
Released(r) == IF lock.by = r THEN FreeLock ELSE lock

Release(r) ==
  /\ rep[r].pc = "release"
  /\ lock' = Released(r)
  /\ StandBy(r)
  /\ UNCHANGED <<telegram, stored, user, issued, faults, stops, history>>

Stop(r) ==
  /\ rep[r].pc = "standby" /\ ~rep[r].running
  /\ rep' = [rep EXCEPT ![r] = Stopped]
  /\ UNCHANGED <<telegram, stored, lock, user, issued, faults, stops, history>>

----------------------------------------------------------------------------
(* pollWhileLeader *)

(* while (this.running), then getUpdates: the request confirms every       *)
(* update before its offset.                                               *)
Poll(r) ==
  /\ rep[r].pc = "poll"
  /\ Goto(r, IF rep[r].running THEN "polling" ELSE "release")
  /\ confirmed' = IF rep[r].running /\ rep[r].offset > confirmed
                    THEN rep[r].offset ELSE confirmed
  /\ UNCHANGED <<inbox, stored, lock, user, issued, faults, stops, history>>

(* The updates Telegram still has, from the offset asked for. *)
Served(offset) ==
  [i \in 1..(Len(inbox) + 1 - (IF offset > confirmed THEN offset ELSE confirmed)) |->
     i - 1 + (IF offset > confirmed THEN offset ELSE confirmed)]

(* The offset moves when the batch arrives, not when an update was handled. *)
MutReceive(r) ==
  /\ rep[r].pc = "polling" /\ rep[r].running
  /\ LET batch == Served(rep[r].offset) IN
       rep' = [rep EXCEPT ![r].pc = IF batch = <<>> THEN "persist" ELSE "handle",
                          ![r].batch = batch,
                          ![r].offset = IF batch = <<>> THEN @ ELSE Len(inbox) + 1]
  /\ UNCHANGED <<telegram, stored, lock, user, issued, faults, stops, history>>

Receive(r) ==
  /\ rep[r].pc = "polling" /\ rep[r].running
  /\ LET batch == Served(rep[r].offset) IN
       rep' = [rep EXCEPT ![r].pc = IF batch = <<>> THEN "persist" ELSE "handle",
                          ![r].batch = batch]
  /\ UNCHANGED <<telegram, stored, lock, user, issued, faults, stops, history>>

(* A timeout, a refusal, the 409 of a second poller, or shutdown's abort:  *)
(* getUpdates throws and the offset stays. ok: false persists instead.     *)
PollEnds(r) ==
  /\ rep[r].pc = "polling"
  /\ \/ /\ ~rep[r].running
        /\ Goto(r, "release")
        /\ UNCHANGED faults
     \/ /\ rep[r].running
        /\ \/ Fault
           \/ /\ \E q \in Replicas \ {r} : rep[q].pc = "polling"
              /\ UNCHANGED faults
        /\ \E pc \in {"renew", "persist"} : Goto(r, pc)
  /\ UNCHANGED <<telegram, stored, lock, user, issued, stops, history>>

(* handle and the lookup of bindTelegram: no link, an unknown one and an   *)
(* expired one are answered, a live one is bound.                          *)
Lookup(r) ==
  /\ rep[r].pc = "handle"
  /\ Goto(r, IF LinkOf(r) = NoLink \/ user.link # LinkOf(r) THEN "reply"
             ELSE IF user.expired THEN "clear" ELSE "bind")
  /\ UNCHANGED <<telegram, stored, lock, user, issued, faults, stops, history>>

(* The two updates of bindTelegram go by the account's id: whatever link   *)
(* the row holds by now is cleared.                                        *)
Bind(r) ==
  /\ rep[r].pc = "bind"
  /\ user' = [link |-> NoLink, expired |-> FALSE, chat |-> LinkOf(r)]
  /\ dead' = dead \cup Withdrawn(user.link, Replicas \ {r})
                  \cup Withdrawn(LinkOf(r), Replicas \ {r})
  /\ Goto(r, "reply")
  /\ UNCHANGED <<telegram, stored, lock, issued, faults, stops, handled, again, overran>>

ClearExpired(r) ==
  /\ rep[r].pc = "clear"
  /\ user' = [user EXCEPT !.link = NoLink, !.expired = FALSE]
  /\ dead' = dead \cup Withdrawn(user.link, Replicas)
  /\ Goto(r, "reply")
  /\ UNCHANGED <<telegram, stored, lock, issued, faults, stops, handled, again, overran>>

(* The update after this one is next, and the poller's batch moves on.     *)
Advanced(m) ==
  [m EXCEPT !.offset = Head(m.batch) + 1, !.batch = Tail(m.batch),
            !.pc = IF Tail(m.batch) = <<>> THEN "persist" ELSE "handle"]

Handled(r) ==
  /\ rep' = [rep EXCEPT ![r] = Advanced(@)]
  /\ handled' = handled \cup {Head(rep[r].batch)}
  /\ again' = again \cup ({Head(rep[r].batch)} \cap handled)

(* reply, and the finally block around handle *)
Reply(r) ==
  /\ rep[r].pc = "reply"
  /\ Handled(r)
  /\ UNCHANGED <<telegram, stored, lock, user, issued, faults, stops, overran, dead>>

(* handle throws: logged, and the offset moves on. *)
HandleFails(r) ==
  /\ rep[r].pc \in Handling
  /\ Fault
  /\ Handled(r)
  /\ UNCHANGED <<telegram, stored, lock, user, issued, stops, overran, dead>>

PersistOffset(r) ==
  /\ rep[r].pc = "persist"
  /\ stored' = IF rep[r].offset = rep[r].persisted THEN stored ELSE rep[r].offset
  /\ rep' = [rep EXCEPT ![r].pc = "renew", ![r].persisted = rep[r].offset]
  /\ UNCHANGED <<telegram, lock, user, issued, faults, stops, history>>

(* extendLease: false once the lock is gone or taken *)
Renew(r) ==
  /\ rep[r].pc = "renew"
  /\ \/ /\ lock.by = r
        /\ lock' = [by |-> r, left |-> LockTTL]
        /\ rep' = [rep EXCEPT ![r].pc = "poll", ![r].age = 0]
     \/ /\ lock.by # r
        /\ Goto(r, "release")
        /\ UNCHANGED lock
  /\ UNCHANGED <<telegram, stored, user, issued, faults, stops, history>>

(* Redis does not answer in time, whether or not it did what was asked:    *)
(* loadOffset and persistOffset go on, extendLease counts as lost, and a   *)
(* release is left to the TTL.                                             *)
RedisFails(r) ==
  /\ Fault
  /\ \/ /\ rep[r].pc = "load"
        /\ Goto(r, "poll")
        /\ UNCHANGED <<stored, lock>>
     \/ /\ rep[r].pc = "persist" /\ rep[r].offset # rep[r].persisted
        /\ stored' \in {stored, rep[r].offset}
        /\ Goto(r, "renew")
        /\ UNCHANGED lock
     \/ /\ rep[r].pc = "renew"
        /\ lock' \in {lock, IF lock.by = r THEN [lock EXCEPT !.left = LockTTL] ELSE lock}
        /\ Goto(r, "release")
        /\ UNCHANGED stored
     \/ /\ rep[r].pc = "release"
        /\ StandBy(r)
        /\ UNCHANGED <<stored, lock>>
  /\ UNCHANGED <<telegram, user, issued, stops, history>>

----------------------------------------------------------------------------
(* Processes and time *)

(* onModuleDestroy *)
Shutdown(r) ==
  /\ rep[r].running
  /\ faults + stops < MaxFaults /\ stops' = stops + 1
  /\ rep' = [rep EXCEPT ![r].running = FALSE]
  /\ UNCHANGED <<telegram, stored, lock, user, issued, faults, history>>

Crash(r) ==
  /\ rep[r].pc # "off"
  /\ Fault
  /\ rep' = [rep EXCEPT ![r] = Stopped]
  /\ UNCHANGED <<telegram, stored, lock, user, issued, stops, history>>

Start(r) ==
  /\ rep[r].pc = "off"
  /\ rep' = [rep EXCEPT ![r] = Booted]
  /\ UNCHANGED <<telegram, stored, lock, user, issued, faults, stops, history>>

(* getUpdates and the Redis calls have timeouts that add up to less than   *)
(* the TTL; handle has none, so only a pass with updates can outlast it.   *)
Deadline(r) == IF rep[r].pc \in Handling THEN PassBound ELSE PollBound

(* SET NX without EX: the lock of a dead poller stays. *)
MutExpired == lock

Expired == IF lock.left > 1 THEN [lock EXCEPT !.left = @ - 1] ELSE FreeLock

Tick ==
  /\ lock.by # None \/ \E r \in Replicas : rep[r].pc \in Leading
  /\ \A r \in Replicas : rep[r].pc \in Leading => rep[r].age < Deadline(r)
  /\ rep' = [r \in Replicas |->
               IF rep[r].pc \in Leading THEN [rep[r] EXCEPT !.age = @ + 1] ELSE rep[r]]
  /\ lock' = Expired
  /\ overran' = (overran \/ (lock.left = 1 /\ rep[lock.by].pc \in Leading))
  /\ UNCHANGED <<telegram, stored, user, issued, faults, stops, handled, again, dead>>

PollerStep(r) ==
  \/ LoadOffset(r) \/ Poll(r) \/ Receive(r) \/ Lookup(r) \/ Bind(r) \/ ClearExpired(r)
  \/ Reply(r) \/ PersistOffset(r) \/ Renew(r) \/ Release(r) \/ Stop(r) \/ Start(r)

Next ==
  \/ \E l \in {NoLink} \cup Links : SendMessage(l)
  \/ CreateTelegramLink \/ UnlinkTelegram \/ LinkExpires
  \/ \E r \in Replicas :
       \/ Acquire(r) \/ PollerStep(r) \/ PollEnds(r)
       \/ HandleFails(r) \/ RedisFails(r) \/ Shutdown(r) \/ Crash(r)
  \/ Tick

Spec == Init /\ [][Next]_vars

(* A replica whose await resolved goes on, a stopped one is replaced, one  *)
(* of those standing by takes a free lock, and time passes.                *)
FairSpec ==
  /\ Spec
  /\ \A r \in Replicas : WF_vars(PollerStep(r) \/ (PollEnds(r) /\ ~rep[r].running))
  /\ WF_vars(\E r \in Replicas : Acquire(r))
  /\ WF_vars(Tick)

----------------------------------------------------------------------------
(* Properties *)

(* Every variable keeps its type: offsets name an update or the one after  *)
(* the last, and no lock outlives its TTL.                                 *)
TypeOK ==
  /\ inbox \in Seq({NoLink} \cup Links) /\ Len(inbox) <= MaxUpdates
  /\ confirmed \in 1..(MaxUpdates + 1) /\ stored \in 0..(MaxUpdates + 1)
  /\ lock \in [by: Replicas \cup {None}, left: 0..LockTTL]
  /\ rep \in [Replicas -> [pc: Leading \cup {"standby", "off"}, running: BOOLEAN,
                           offset: 0..(MaxUpdates + 1), persisted: 0..(MaxUpdates + 1),
                           batch: Seq(1..MaxUpdates), age: 0..PassBound]]
  /\ user \in [link: {NoLink} \cup Links, expired: BOOLEAN, chat: {NoLink} \cup Links]
  /\ issued \in 0..MaxLinks /\ faults \in 0..MaxFaults /\ stops \in 0..MaxFaults
  /\ handled \subseteq 1..MaxUpdates /\ again \subseteq handled
  /\ overran \in BOOLEAN /\ dead \subseteq Links

(* No update is skipped: whatever Telegram has forgotten, Redis has        *)
(* recorded or a replica has counted as done was handled by someone, also  *)
(* when two pollers overlap and an old one writes its offset last.         *)
NothingSkipped ==
  \A i \in 1..MaxUpdates :
    (i < confirmed \/ i < stored \/ \E r \in Replicas : i < rep[r].offset) => i \in handled

(* The fenced lock keeps the pollers that renewed it in time apart, even   *)
(* when an overrunning one finishes its pass and releases after its TTL.   *)
Fresh(r) == rep[r].pc \in Leading /\ rep[r].age < LockTTL

OneFreshPoller == \A r, q \in Replicas : Fresh(r) /\ Fresh(q) => r = q

(* "Leadership moving to another replica must not send the new poller back *)
(* to the start" (POLL_OFFSET_KEY): as long as no call failed, no process  *)
(* crashed and no pass outlasted its lock, no update is handled twice,     *)
(* however often replicas are shut down and replaced.                      *)
HandoverRepeatsNothing == again # {} => faults > 0 \/ overran

(* "One-time deep-link" (createTelegramLink): a link that was used,        *)
(* replaced, expired or unlinked binds no chat any more, save by a bind    *)
(* that had looked it up before; pollers that overlap or handle an update  *)
(* twice change nothing about it.                                          *)
DeadLinkBindsNothing ==
  [][\A r \in Replicas : Bind(r) => LinkOf(r) \notin dead]_vars

(* Every message sent to the bot is handled, whichever poller crashed over *)
(* it, left its lock behind or lost Redis on the way.                      *)
EveryUpdateHandled ==
  \A i \in 1..MaxUpdates : Len(inbox) >= i ~> i \in handled
=============================================================================
