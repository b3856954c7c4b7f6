----------------------------- MODULE QueueRoom -----------------------------
(***************************************************************************)
(* The QueueRoom Durable Object (src/durable-object/queue-room.ts): the    *)
(* authoritative state of one waiting room.                                *)
(*                                                                         *)
(* Every RPC is one atomic action: the platform delivers one event at a    *)
(* time and holds new events back while storage is awaited.  The alarm     *)
(* handler is the only one that awaits the network, twice: it delivers     *)
(* webhooks before its sweep and probes the origin after it.  RPCs run     *)
(* while it is suspended, and it goes on with the `now' it read first.     *)
(*                                                                         *)
(* An instant is a positive number of seconds and 0 stands for null.  The  *)
(* columns of a terminal row that no statement reads again are cleared.    *)
(***************************************************************************)
EXTENDS QueueEngine, FiniteSets

CONSTANTS
  Visitor,      \* visitor ids a ticket may carry
  Hash,         \* hashString of each id
  Capacity,     \* MAX_CONCURRENT_USERS
  Stay,         \* QUEUE_TIMEOUT_SECONDS
  TokenTtl,     \* TOKEN_TTL_SECONDS
  Retain,       \* how long a terminal row is kept, from joined_at
  SweepGap,     \* an unforced sweep is skipped this soon after the last one
  ActiveTick,   \* alarm interval with somebody to admit
  WaitTick,     \* alarm interval with waiters and a closed gate
  IdleTick,     \* alarm interval with nobody waiting
  ProbeTick,    \* interval of the origin probe
  RetryDelay,   \* first webhook retry delay
  SlowDiv,      \* the slow level divides the rate by this
  Settings,     \* bound: the settings the operators may choose
  MaxClock,     \* bound: last instant of the instance
  MaxSeq        \* bound: sequence numbers handed out

VARIABLES
  clock,      \* Date.now()
  row,        \* table visitors
  nextSeq,    \* meta next_sequence
  meta,       \* meta count_waiting, count_admitted
  depth,      \* this.depth; not loaded after a restart
  ahead,      \* this.aheadCache: sequence -> waiters ahead of it
  lastSweep,  \* meta last_sweep
  settings,   \* meta keys written by the operators
  level,      \* meta health_state.level
  remainder,  \* meta admit_remainder
  outbox,     \* earliest next_attempt_at in webhook_outbox
  alarm,      \* the scheduled alarm of the object
  handler     \* the alarm handler: where it is and the `now' it captured

vars == <<clock, row, nextSeq, meta, depth, ahead, lastSweep, settings, level,
          remainder, outbox, alarm, handler>>

ASSUME RoomAssumption ==
  /\ IsFiniteSet(Visitor)
  /\ Hash \in [Visitor -> Nat]
  /\ Capacity \in Nat \ {0}
  /\ Stay \in Nat \ {0} /\ TokenTtl \in Nat \ {0} /\ Retain \in Nat
  /\ SweepGap \in Nat
  /\ ActiveTick \in Nat \ {0} /\ WaitTick \in Nat \ {0}
  /\ IdleTick \in Nat \ {0} /\ ProbeTick \in Nat \ {0}
  /\ RetryDelay \in Nat \ {0} /\ SlowDiv \in Nat \ {0}
  /\ MaxClock \in Nat /\ MaxSeq \in Nat

\* Settings an operator can store.  `hold' is admit_hold_seconds.
Setting == [paused: BOOLEAN, opensAt: Nat, closesAt: Nat,
            mode: {"queue", "lottery"}, click: BOOLEAN, hold: Nat \ {0},
            grace: Nat, rate: Nat, maxWaiting: Nat \ {0},
            healthOn: BOOLEAN, overrideUntil: Nat]

ASSUME SettingsAssumption == Settings \subseteq Setting

\* RateDen is fine enough for the slowed rates, which the code keeps with their fractions.
ASSUME RateAssumption == \A cfg \in Settings : cfg.healthOn => cfg.rate % SlowDiv = 0

Live == {"waiting", "admitted"}
Terminal == {"left", "expired"}

Row == [status: {"none"} \cup Live \cup Terminal, joined: Nat, check: Nat,
        admittedAt: Nat, entered: BOOLEAN, seq: Nat]

NoRow == [status |-> "none", joined |-> 0, check |-> 0, admittedAt |-> 0,
          entered |-> FALSE, seq |-> 0]

Waiting(r) == {v \in Visitor : r[v].status = "waiting"}
Admitted(r) == {v \in Visitor : r[v].status = "admitted"}
AheadOf(r, seq) == Cardinality({v \in Waiting(r) : r[v].seq < seq})

NoAhead == [s \in {} |-> 0]
NotRunning == [pc |-> "idle", at |-> 0, seen |-> "ok"]

-----------------------------------------------------------------------------
(***************************************************************************)
(* Gates and rates.                                                        *)
(***************************************************************************)
Overridden(cfg, t) == t < cfg.overrideUntil

AutoPaused(cfg, lvl, t) ==
  cfg.healthOn /\ lvl = "pause" /\ ~Overridden(cfg, t)

\* Mutant: the operator's pause is forgotten.
CanAdmitPaused(cfg, lvl, t) ==
  /\ t >= cfg.opensAt
  /\ cfg.closesAt # 0 => t < cfg.closesAt
  /\ ~AutoPaused(cfg, lvl, t)

CanAdmit(cfg, lvl, t) ==
  /\ ~cfg.paused
  /\ t >= cfg.opensAt
  /\ cfg.closesAt # 0 => t < cfg.closesAt
  /\ ~AutoPaused(cfg, lvl, t)

EffectiveRate(cfg, lvl, t) ==
  IF ~CanAdmit(cfg, lvl, t) THEN 0
  ELSE IF cfg.healthOn /\ lvl = "slow" /\ ~Overridden(cfg, t)
       THEN cfg.rate \div SlowDiv
       ELSE cfg.rate

(***************************************************************************)
(* A handler works on a snapshot [row, depth, ahead] of the room, one      *)
(* operator per step of the code, and commits the result.                  *)
(***************************************************************************)
Counts(r) == [waiting |-> Cardinality(Waiting(r)),
              admitted |-> Cardinality(Admitted(r))]

\* ensureDepth: the memory copy, or the persisted one after a restart.
Depth == IF depth.loaded
         THEN [waiting |-> depth.waiting, admitted |-> depth.admitted]
         ELSE meta

BumpDepth(d, waitingDelta, admittedDelta) ==
  [waiting |-> Larger(0, d.waiting + waitingDelta),
   admitted |-> Larger(0, d.admitted + admittedDelta)]

Snapshot == [row |-> row, depth |-> Depth, ahead |-> ahead]

Commit(s) ==
  /\ row' = s.row
  /\ meta' = s.depth
  /\ depth' = [loaded |-> TRUE, waiting |-> s.depth.waiting,
               admitted |-> s.depth.admitted]
  /\ ahead' = s.ahead

-----------------------------------------------------------------------------
(***************************************************************************)
(* sweep: expire the overdue, purge old terminal rows, recount if anybody  *)
(* expired.                                                                *)
(***************************************************************************)
\* Mutant: the hold ends confirmed seats too.
OverdueConfirmed(r, d, t) ==
  {v \in Visitor :
     \/ r[v].status = "waiting" /\ r[v].joined + Stay <= t
     \/ r[v].status = "admitted" /\ r[v].admittedAt + settings.hold <= t}

Overdue(r, d, t) ==
  LET grace == MissedSlotGrace(CheckInPeriod(d.waiting), settings.grace)
  IN {v \in Visitor :
        \/ /\ r[v].status = "waiting"
           /\ r[v].joined + Stay <= t \/ r[v].check + grace <= t
        \/ /\ r[v].status = "admitted" /\ ~r[v].entered
           /\ r[v].admittedAt + settings.hold <= t
        \/ /\ r[v].status = "admitted" /\ r[v].entered
           /\ r[v].admittedAt + TokenTtl <= t}

Ended(r, status) == [NoRow EXCEPT !.status = status, !.joined = r.joined]

Expire(r, gone) == [v \in Visitor |-> IF v \in gone THEN Ended(r[v], "expired") ELSE r[v]]

Purge(r, t) ==
  [v \in Visitor |-> IF r[v].status \in Terminal /\ r[v].joined + Retain < t
                     THEN NoRow ELSE r[v]]

\* Mutant: expiring visitors does not recount.
SweepNoRecount(s, t) ==
  [row   |-> Purge(Expire(s.row, Overdue(s.row, s.depth, t)), t),
   depth |-> s.depth,
   ahead |-> NoAhead]

Sweep(s, t) ==
  LET gone == Overdue(s.row, s.depth, t)
      kept == Purge(Expire(s.row, gone), t)
  IN [row   |-> kept,
      depth |-> IF gone = {} THEN s.depth ELSE Counts(kept),
      ahead |-> IF gone = {} THEN s.ahead ELSE NoAhead]

(***************************************************************************)
(* Check-in slots of a waiter.                                             *)
(***************************************************************************)
Position(s, v) == AheadOf(s.row, s.row[v].seq) + 1

Eta(n, t) ==
  LET rate == EffectiveRate(settings, level, t)
  IN IF rate = 0 THEN NearEta + 1 ELSE CeilDiv(n * RateDen, rate)

\* Before the room opens every slot is at or after the opening instant.
AssignCheckIn(v, waiting, position, eta, lead, t) ==
  IF settings.opensAt > t
  THEN NextCheckAt(Hash[v], settings.opensAt, CheckInPeriod(waiting))
  ELSE NextCheckAt(Hash[v], t + lead,
         EffectiveCheckInPeriod(waiting, position, settings.mode, eta,
           EffectiveRate(settings, level, t)))

\* waitingAhead memoizes the position it computes for a view.
Memoize(s, v) ==
  LET seq == s.row[v].seq
  IN IF \/ s.row[v].status # "waiting" \/ settings.mode # "queue"
        \/ seq \in DOMAIN s.ahead
     THEN s
     ELSE [s EXCEPT !.ahead = [x \in DOMAIN s.ahead \cup {seq} |->
             IF x = seq THEN AheadOf(s.row, seq) ELSE s.ahead[x]]]

NeedsRepair(r, t) == t < settings.opensAt /\ r.check < settings.opensAt

\* repairCheckInBeforeOpen, else renewCheckIn when due, else read-only.
CheckIn(s, v, t) ==
  LET w == s.depth.waiting
      repaired == AssignCheckIn(v, w, Position(s, v), 0, 0, t)
      renewed == AssignCheckIn(v, w, Position(s, v), Eta(w, t), 1, t)
  IN IF NeedsRepair(s.row[v], t)
     THEN [s EXCEPT !.row[v].check = repaired]
     ELSE IF IsCheckInDue(t, s.row[v].check)
          THEN [s EXCEPT !.row[v].check = renewed]
          ELSE s

(***************************************************************************)
(* Admission.                                                              *)
(***************************************************************************)
\* Mutant: Queue Mode forgets the order of the line.
SelectionsUnordered(s, limit) ==
  {S \in SUBSET Waiting(s.row) :
     Cardinality(S) = Smaller(limit, Cardinality(Waiting(s.row)))}

\* The sets selectWaiting may return for a positive limit.
Selections(s, limit) ==
  LET w == Waiting(s.row)
      all == Smaller(limit, s.depth.waiting)
  IN IF settings.mode = "queue"
     THEN {S \in SUBSET w :
             /\ Cardinality(S) = Smaller(limit, Cardinality(w))
             /\ \A u \in S, x \in w \ S : s.row[u].seq < s.row[x].seq}
     ELSE IF all = s.depth.waiting THEN {w}
          ELSE {S \in SUBSET w : Cardinality(S) \in 1 .. all}

AdmitSelected(s, S, t) ==
  [row   |-> [v \in Visitor |-> IF v \in S
                THEN [s.row[v] EXCEPT !.status = "admitted", !.admittedAt = t,
                        !.entered = ~settings.click, !.check = 0]
                ELSE s.row[v]],
   depth |-> BumpDepth(s.depth, -Cardinality(S), Cardinality(S)),
   ahead |-> IF S = {} THEN s.ahead ELSE NoAhead]

\* Mutant: the limit is not cut to the open slots.
AdmissionsUnbounded(s, limit, t) ==
  IF limit <= 0 THEN {s}
  ELSE {AdmitSelected(s, S, t) : S \in Selections(s, limit)}

\* Promote up to `limit' waiters into the open slots.
Admissions(s, limit, t) ==
  LET take == Smaller(limit, OpenSlots(Capacity, s.depth.admitted))
  IN IF take <= 0 THEN {s}
     ELSE {AdmitSelected(s, S, t) : S \in Selections(s, take)}

InsertVisitor(s, v, r) ==
  [s EXCEPT !.row[v] = r,
            !.depth = IF r.status = "waiting" THEN BumpDepth(s.depth, 1, 0)
                      ELSE BumpDepth(s.depth, 0, 1)]

(***************************************************************************)
(* ensureAlarm: drop the alarm of an idle room, otherwise bring it forward *)
(* to the next instant with work.                                          *)
(***************************************************************************)
Idle(cfg, d, hook) ==
  d.waiting = 0 /\ d.admitted = 0 /\ ~cfg.healthOn /\ hook = 0

AlarmInterval(cfg, lvl, d) ==
  LET base == IF d.waiting = 0 THEN IdleTick
              ELSE IF CanAdmit(cfg, lvl, clock) THEN ActiveTick
              ELSE Smaller(WaitTick, IdleTick)
  IN IF cfg.healthOn THEN Smaller(base, ProbeTick) ELSE base

NextAlarm(cfg, lvl, d, hook) ==
  LET scheduled == clock + AlarmInterval(cfg, lvl, d)
  IN IF hook = 0 THEN scheduled
     ELSE IF d.waiting > 0 \/ d.admitted > 0 \/ cfg.healthOn
          THEN Smaller(scheduled, hook)
          ELSE hook

EnsureAlarm(cfg, lvl, d, hook) ==
  alarm' = IF Idle(cfg, d, hook) THEN 0
           ELSE IF alarm = 0 \/ alarm > NextAlarm(cfg, lvl, d, hook)
                THEN NextAlarm(cfg, lvl, d, hook)
                ELSE alarm

-----------------------------------------------------------------------------
(***************************************************************************)
(* RPCs.                                                                   *)
(***************************************************************************)
\* An event is delivered unless the alarm handler is in a synchronous part.
Interruptible == handler.pc \in {"idle", "outbox", "probe"}

Swept == Sweep(Snapshot, clock)
ForcedSweep == Interruptible /\ lastSweep' = clock

SeatFree(s) ==
  CanAdmit(settings, level, clock) /\ OpenSlots(Capacity, s.depth.admitted) > 0
\* Mutant: the cap is exceeded by one.
LineFullLate(s) == s.depth.waiting > settings.maxWaiting
LineFull(s) == s.depth.waiting >= settings.maxWaiting

RoomOnly == UNCHANGED <<clock, settings, level, remainder, outbox, handler>>

\* Mutant: the sequence is read and not advanced.
NextSequenceStuck == nextSeq < MaxSeq /\ UNCHANGED nextSeq

\* MaxSeq bounds the sequence numbers of the instance.
NextSequence == nextSeq < MaxSeq /\ nextSeq' = nextSeq + 1

\* A visitor that already waits or holds a seat resumes.
JoinResume(v) ==
  /\ ForcedSweep
  /\ Swept.row[v].status \in Live
  /\ Commit(Memoize(Swept, v))
  /\ EnsureAlarm(settings, level, Swept.depth, outbox)
  /\ UNCHANGED nextSeq /\ RoomOnly

\* A newcomer is seated at once when a slot is free and the gates allow.
JoinSeat(v) ==
  /\ ForcedSweep /\ NextSequence
  /\ Swept.row[v].status = "none" /\ SeatFree(Swept)
  /\ LET r == [NoRow EXCEPT !.status = "admitted", !.joined = clock,
                 !.admittedAt = clock, !.entered = ~settings.click,
                 !.seq = nextSeq]
         s == InsertVisitor(Swept, v, r)
     IN Commit(s) /\ EnsureAlarm(settings, level, s.depth, outbox)
  /\ RoomOnly

\* Otherwise it is appended to the line.
JoinLine(v) ==
  /\ ForcedSweep /\ NextSequence
  /\ Swept.row[v].status = "none" /\ ~SeatFree(Swept) /\ ~LineFull(Swept)
  /\ LET w == Swept.depth.waiting + 1
         slot == AssignCheckIn(v, w, w, 0, MinPeriod, clock)
         r == [NoRow EXCEPT !.status = "waiting", !.joined = clock,
                 !.check = slot, !.seq = nextSeq]
         s == InsertVisitor(Swept, v, r)
     IN Commit(Memoize(s, v)) /\ EnsureAlarm(settings, level, s.depth, outbox)
  /\ RoomOnly

\* queue_full is thrown after the sweep.
JoinFull(v) ==
  /\ ForcedSweep
  /\ Swept.row[v].status \notin Live /\ ~SeatFree(Swept) /\ LineFull(Swept)
  /\ Commit(Swept)
  /\ UNCHANGED <<nextSeq, alarm>> /\ RoomOnly

\* A terminal row still holds the primary key: the insert throws after the
\* sequence number was drawn.
JoinConflict(v) ==
  /\ ForcedSweep /\ NextSequence
  /\ Swept.row[v].status \in Terminal /\ (SeatFree(Swept) \/ ~LineFull(Swept))
  /\ Commit(Swept)
  /\ UNCHANGED alarm /\ RoomOnly

Join(v) == JoinResume(v) \/ JoinSeat(v) \/ JoinLine(v) \/ JoinFull(v) \/ JoinConflict(v)

\* Status and heartbeat sweep at most once per SweepGap and write the row of
\* a waiter only when its slot is due or must move behind the opening.
SweepDue == clock - lastSweep >= SweepGap
MaybeSwept == IF SweepDue THEN Swept ELSE Snapshot

Poll(v) ==
  /\ Interruptible
  /\ lastSweep' = IF SweepDue THEN clock ELSE lastSweep
  /\ IF MaybeSwept.row[v].status = "waiting"
     THEN Commit(Memoize(CheckIn(MaybeSwept, v, clock), v))
     ELSE IF SweepDue \/ MaybeSwept.row[v].status = "admitted"
          THEN Commit(MaybeSwept)
          ELSE UNCHANGED <<row, meta, depth, ahead>>
  /\ UNCHANGED <<nextSeq, alarm>> /\ RoomOnly

\* metrics reads the counters after the same throttled sweep.
Metrics ==
  /\ Interruptible
  /\ lastSweep' = IF SweepDue THEN clock ELSE lastSweep
  /\ Commit(MaybeSwept)
  /\ UNCHANGED <<nextSeq, alarm>> /\ RoomOnly

\* Mutant: enter reads the row without sweeping first.
EnterUnswept(v) ==
  /\ Interruptible /\ UNCHANGED lastSweep
  /\ row[v].status = "admitted"
  /\ Commit([Snapshot EXCEPT !.row[v].entered = TRUE])
  /\ EnsureAlarm(settings, level, Depth, outbox)
  /\ UNCHANGED nextSeq /\ RoomOnly

Enter(v) ==
  /\ ForcedSweep
  /\ IF Swept.row[v].status = "admitted"
     THEN /\ Commit([Swept EXCEPT !.row[v].entered = TRUE])
          /\ EnsureAlarm(settings, level, Swept.depth, outbox)
     ELSE Commit(Swept) /\ UNCHANGED alarm
  /\ UNCHANGED nextSeq /\ RoomOnly

\* Mutant: the memo survives a departure.
DepartedMemo(s, v) ==
  [row   |-> [s.row EXCEPT ![v] = Ended(s.row[v], "left")],
   depth |-> IF s.row[v].status = "waiting" THEN BumpDepth(s.depth, -1, 0)
             ELSE BumpDepth(s.depth, 0, -1),
   ahead |-> s.ahead]

Departed(s, v) ==
  [row   |-> [s.row EXCEPT ![v] = Ended(s.row[v], "left")],
   depth |-> IF s.row[v].status = "waiting" THEN BumpDepth(s.depth, -1, 0)
             ELSE BumpDepth(s.depth, 0, -1),
   ahead |-> IF s.row[v].status = "waiting" THEN NoAhead ELSE s.ahead]

\* admitAvailable: leaving fills every open slot, whatever the rate.
Leave(v) ==
  /\ ForcedSweep
  /\ IF Swept.row[v].status \in Live
     THEN \E s \in IF CanAdmit(settings, level, clock)
                   THEN Admissions(Departed(Swept, v), Capacity, clock)
                   ELSE {Departed(Swept, v)} :
            Commit(s) /\ EnsureAlarm(settings, level, s.depth, outbox)
     ELSE Commit(Swept) /\ UNCHANGED alarm
  /\ UNCHANGED nextSeq /\ RoomOnly

ForceAdmit(count) ==
  /\ ForcedSweep
  /\ \E s \in IF CanAdmit(settings, level, clock)
              THEN Admissions(Swept, count, clock) ELSE {Swept} :
       Commit(s) /\ EnsureAlarm(settings, level, s.depth, outbox)
  /\ UNCHANGED nextSeq /\ RoomOnly

-----------------------------------------------------------------------------
(***************************************************************************)
(* Operator settings.  `Settings' bounds what the operators choose.        *)
(***************************************************************************)
Configure(new) ==
  /\ Interruptible
  /\ new \in Settings
  /\ settings' = new
  /\ UNCHANGED <<clock, row, nextSeq, meta, ahead, lastSweep, remainder,
                 outbox, handler>>

LoadDepth == depth' = [loaded |-> TRUE, waiting |-> Depth.waiting, admitted |-> Depth.admitted]

ConfigureAndArm(new) ==
  /\ Configure(new)
  /\ UNCHANGED level
  /\ LoadDepth /\ EnsureAlarm(new, level, Depth, outbox)

\* Mutant: resuming the room does not bring its alarm forward.
SetPausedUnarmed(paused) ==
  Configure([settings EXCEPT !.paused = paused]) /\ UNCHANGED <<level, depth, alarm>>

SetPaused(paused) ==
  LET new == [settings EXCEPT !.paused = paused]
  IN \/ ~paused /\ ConfigureAndArm(new)
     \/ paused /\ Configure(new) /\ UNCHANGED <<level, depth, alarm>>

SetSchedule(opensAt, closesAt) ==
  ConfigureAndArm([settings EXCEPT !.opensAt = opensAt, !.closesAt = closesAt])

SetMode(mode) == ConfigureAndArm([settings EXCEPT !.mode = mode])

SetAdmitUx(click, hold) ==
  ConfigureAndArm([settings EXCEPT !.click = click, !.hold = hold])

SetAdmitRate(rate) == ConfigureAndArm([settings EXCEPT !.rate = rate])

SetMissedSlotGrace(grace) == ConfigureAndArm([settings EXCEPT !.grace = grace])

SetMaxWaiting(n) ==
  Configure([settings EXCEPT !.maxWaiting = n]) /\ UNCHANGED <<level, depth, alarm>>

\* Disabling the probe resets the health state.
SetHealth(on) ==
  LET new == [settings EXCEPT !.healthOn = on]
      lvl == IF on THEN level ELSE "ok"
  IN /\ Configure(new)
     /\ level' = lvl
     /\ LoadDepth /\ EnsureAlarm(new, lvl, Depth, outbox)

OverrideHealth(until) ==
  /\ until > clock
  /\ ConfigureAndArm([settings EXCEPT !.overrideUntil = until])

ClearHealthOverride ==
  Configure([settings EXCEPT !.overrideUntil = 0]) /\ UNCHANGED <<level, depth, alarm>>

\* The values of one field among the settings an operator may choose.
Chosen(field) == {new[field] : new \in Settings}

Operate ==
  \/ \E p \in BOOLEAN : SetPaused(p)
  \/ \E o \in Chosen("opensAt"), c \in Chosen("closesAt") : SetSchedule(o, c)
  \/ \E mode \in Chosen("mode") : SetMode(mode)
  \/ \E click \in Chosen("click"), hold \in Chosen("hold") : SetAdmitUx(click, hold)
  \/ \E rate \in Chosen("rate") : SetAdmitRate(rate)
  \/ \E grace \in Chosen("grace") : SetMissedSlotGrace(grace)
  \/ \E n \in Chosen("maxWaiting") : SetMaxWaiting(n)
  \/ \E on \in Chosen("healthOn") : SetHealth(on)
  \/ \E until \in Chosen("overrideUntil") : OverrideHealth(until)
  \/ ClearHealthOverride

\* A failed webhook is queued for retry; the instance holds one such row.
EnqueueWebhook ==
  /\ Interruptible /\ outbox = 0
  /\ outbox' = clock + RetryDelay
  /\ LoadDepth /\ EnsureAlarm(settings, level, Depth, outbox')
  /\ UNCHANGED <<clock, row, nextSeq, meta, ahead, lastSweep, settings, level,
                 remainder, handler>>

-----------------------------------------------------------------------------
(***************************************************************************)
(* The alarm handler, cut at its two network awaits.                       *)
(***************************************************************************)
AlarmRest == UNCHANGED <<clock, nextSeq, settings>>

AlarmFire ==
  /\ handler.pc = "idle" /\ alarm # 0 /\ alarm <= clock
  /\ alarm' = 0
  /\ handler' = [pc |-> IF outbox # 0 /\ outbox <= clock THEN "outbox" ELSE "sweep",
                 at |-> clock, seen |-> "ok"]
  /\ UNCHANGED <<row, meta, depth, ahead, lastSweep, level, remainder, outbox>>
  /\ AlarmRest

\* The delivery succeeded or was given up, or is due again.
AlarmDelivered ==
  /\ handler.pc = "outbox"
  /\ outbox' \in {0, handler.at + RetryDelay}
  /\ handler' = [handler EXCEPT !.pc = "sweep"]
  /\ UNCHANGED <<row, meta, depth, ahead, lastSweep, level, remainder, alarm>>
  /\ AlarmRest

\* The probe is awaited when it is enabled and its interval has passed; the
\* health state is read before that await.
AlarmSweep ==
  /\ handler.pc = "sweep"
  /\ Commit(Sweep(Snapshot, handler.at))
  /\ lastSweep' = handler.at
  /\ \E pc \in IF settings.healthOn THEN {"probe", "admit"} ELSE {"admit"} :
       handler' = [handler EXCEPT !.pc = pc,
                     !.seen = IF pc = "probe" THEN level ELSE "ok"]
  /\ UNCHANGED <<level, remainder, outbox, alarm>> /\ AlarmRest

\* advanceHealthState, from the level read before the await: one level down,
\* back to ok, or no change.
AlarmProbed ==
  /\ handler.pc = "probe"
  /\ level' \in {handler.seen, "ok", IF handler.seen = "ok" THEN "slow" ELSE "pause"}
  /\ handler' = [handler EXCEPT !.pc = "admit", !.seen = "ok"]
  /\ UNCHANGED <<row, meta, depth, ahead, lastSweep, remainder, outbox, alarm>>
  /\ AlarmRest

\* admitFromBudget with the `now' of the start of the handler, then ensureAlarm.
AlarmAdmit ==
  /\ handler.pc = "admit"
  /\ LET rate == EffectiveRate(settings, level, handler.at)
         budget == AdmissionsForTick(rate, remainder)
     IN /\ remainder' = budget.nextRemainder
        /\ \E s \in Admissions(Snapshot, budget.admitCount, handler.at) :
             Commit(s) /\ EnsureAlarm(settings, level, s.depth, outbox)
  /\ handler' = NotRunning
  /\ UNCHANGED <<lastSweep, level, outbox>> /\ AlarmRest

(***************************************************************************)
(* The platform: time passes; the object is evicted, which loses its       *)
(* memory, and an alarm whose handler was cut short is delivered again.    *)
(***************************************************************************)
Tick ==
  /\ Interruptible /\ clock < MaxClock
  /\ clock' = clock + 1
  /\ UNCHANGED <<row, nextSeq, meta, depth, ahead, lastSweep, settings, level,
                 remainder, outbox, alarm, handler>>

Restart ==
  /\ depth' = [loaded |-> FALSE, waiting |-> 0, admitted |-> 0]
  /\ ahead' = NoAhead
  /\ alarm' = IF handler.pc = "idle" THEN alarm ELSE clock
  /\ handler' = NotRunning
  /\ UNCHANGED <<clock, row, nextSeq, meta, lastSweep, settings, level,
                 remainder, outbox>>

Init ==
  /\ clock = 1
  /\ row = [v \in Visitor |-> NoRow]
  /\ nextSeq = 1
  /\ meta = [waiting |-> 0, admitted |-> 0]
  /\ depth = [loaded |-> TRUE, waiting |-> 0, admitted |-> 0]
  /\ ahead = NoAhead
  /\ lastSweep = 0
  /\ settings \in Settings
  /\ level = "ok"
  /\ remainder = 0
  /\ outbox = 0
  /\ alarm = IF settings.healthOn THEN clock + ProbeTick ELSE 0
  /\ handler = NotRunning

Next ==
  \/ \E v \in Visitor : Join(v) \/ Poll(v) \/ Enter(v) \/ Leave(v)
  \/ \E count \in 1 .. Capacity : ForceAdmit(count)
  \/ Metrics
  \/ Operate
  \/ EnqueueWebhook
  \/ AlarmFire \/ AlarmDelivered \/ AlarmSweep \/ AlarmProbed \/ AlarmAdmit
  \/ Tick
  \/ Restart

Spec == Init /\ [][Next]_vars

-----------------------------------------------------------------------------
(***************************************************************************)
(* Properties.                                                             *)
(***************************************************************************)
Levels == {"ok", "slow", "pause"}
Depths == [waiting: Nat, admitted: Nat]

\* Type invariant of the room's tables, meta keys, memory and alarm.
TypeOK ==
  /\ clock \in Nat \ {0}
  /\ row \in [Visitor -> Row]
  /\ nextSeq \in Nat \ {0}
  /\ meta \in Depths
  /\ depth \in [loaded: BOOLEAN, waiting: Nat, admitted: Nat]
  /\ DOMAIN ahead \subseteq Nat /\ \A s \in DOMAIN ahead : ahead[s] \in Nat
  /\ lastSweep \in Nat
  /\ settings \in Setting
  /\ level \in Levels
  /\ remainder \in 0 .. RateDen - 1
  /\ outbox \in Nat
  /\ alarm \in Nat
  /\ handler \in [pc: {"idle", "outbox", "sweep", "probe", "admit"},
                  at: Nat, seen: Levels]

\* The persisted depth counters equal the number of rows in each status, and
\* so does the copy in memory whenever it is loaded: through every mixture of
\* sweeps, inserts, promotions, departures and evictions, the counters that
\* replace COUNT(*) never drift (bumpDepth, reconcileDepth, ensureDepth).
DepthCoherent ==
  /\ meta = Counts(row)
  /\ depth.loaded => Depth = meta

\* Every memoized place in line is the true one: an entry survives inserts,
\* and is dropped whenever somebody leaves the line (waitingAhead, aheadCache).
AheadCoherent ==
  \A s \in DOMAIN ahead : ahead[s] = AheadOf(row, s)

\* The room never seats more visitors than its capacity, whichever of join,
\* leave, force-admit and the alarm seats them, and however they interleave.
CapacityHeld == Cardinality(Admitted(row)) <= Capacity

\* Sequence numbers are unique, below the next one, and follow arrival.
ArrivalOrder ==
  \A u, v \in Visitor :
    row[u].status \in Live =>
      /\ row[u].seq < nextSeq
      /\ (u # v /\ row[v].status \in Live) =>
           /\ row[u].seq # row[v].seq
           /\ row[u].seq < row[v].seq => row[u].joined <= row[v].joined

HasWork == \/ Waiting(row) # {} \/ Admitted(row) # {}
           \/ settings.healthOn \/ outbox # 0

\* The room never sleeps on work: outside the handler an alarm is armed while
\* anybody waits or holds a seat, a probe is enabled or a webhook is pending;
\* it is at most WaitTick away while somebody waits, and at most ActiveTick
\* away when nothing but an operator could have closed the gate (ensureAlarm
\* and every call of it, the one in setPaused included).
AlarmPrompt ==
  handler.pc = "idle" =>
    /\ HasWork => alarm # 0
    /\ Waiting(row) # {} => alarm <= clock + Larger(WaitTick, ActiveTick)
    /\ (/\ Waiting(row) # {} /\ CanAdmit(settings, level, clock)
        /\ settings.opensAt = 0 /\ ~settings.healthOn)
       => alarm <= clock + ActiveTick

\* Called from the line by this step, or seated by it on arrival; a visitor
\* swept away and seated again in one join is a newcomer.
Promoted == {v \in Waiting(row) \cap Admitted(row)' : row'[v].seq < nextSeq}
Newcomers == {v \in Admitted(row)' : row'[v].seq >= nextSeq}

\* No one is seated while an operator pauses the room, before it opens, or
\* under a health pause nobody overrides, the alarm handler that went to
\* sleep before the gate changed included (canAdmit).
GateRespected ==
  [][Promoted \cup Newcomers # {} =>
       /\ ~settings.paused
       /\ clock >= settings.opensAt
       /\ ~(settings.healthOn /\ level = "pause" /\ settings.overrideUntil = 0)]_vars

\* A seat is confirmed only while its hold lasts: an enter call that arrives
\* late finds the seat gone (the sweep in enter).
EnterInTime ==
  [][\A v \in Visitor :
       (/\ row[v].status = "admitted" /\ ~row[v].entered
        /\ row'[v].seq = row[v].seq /\ row'[v].entered)
       => clock < row[v].admittedAt + settings.hold]_vars

\* A confirmed visitor loses its seat by its own leave or at the end of the
\* token lifetime counted from its admission, never by the hold.
SeatKept ==
  [][\A v \in Visitor :
       row[v].status = "admitted" /\ row[v].entered =>
         \/ row'[v].status = "left"
         \/ row'[v].status = "admitted" /\ row'[v].seq = row[v].seq
         \/ clock >= row[v].admittedAt + TokenTtl]_vars

\* The line grows only below the operator's cap, also right after the cap was
\* lowered under its current length (maxWaitingVisitors in join).
LineCapped ==
  [][Cardinality(Waiting(row)') > Cardinality(Waiting(row)) =>
       Cardinality(Waiting(row)') <= settings.maxWaiting]_vars

\* CHANGELOG.md:66 lets a room close at closesAt: from then on nobody is seated.
ClosedMeansClosed ==
  [][Promoted \cup Newcomers # {} =>
       settings.closesAt = 0 \/ clock < settings.closesAt]_vars

\* README.md:33 promises a fair first-come line: in Queue Mode a newcomer is
\* never seated while an earlier arrival still waits.
FirstComeFirstServed ==
  [][settings.mode = "queue" /\ Newcomers # {} =>
       Waiting(row) \cap Waiting(row)' = {}]_vars

\* docs/verifying-admission.md:135 sends a visitor whose hold expired back to
\* the line: a join by a visitor without a live place ends with a live place
\* unless the line is full.
LapsedRejoins ==
  [][\A v \in Visitor : Join(v) =>
       row'[v].status \in Live \/ meta'.waiting >= settings.maxWaiting]_vars
=============================================================================
