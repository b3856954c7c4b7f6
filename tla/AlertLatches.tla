---------------------------- MODULE AlertLatches ----------------------------
(***************************************************************************)
(* When an operator is alerted (src/admin/webhook-dispatch.ts,             *)
(* webhook-store.ts, handleAdminSaveWebhooks in settings.ts).  One record  *)
(* of the key-value store holds the webhook settings and the latches that  *)
(* turn a condition seen by a poll into one alert.  Every observer reads   *)
(* the record and later puts the whole of it back; a metrics poll starts   *)
(* three observers at once and waits for none of them.  A read that fails  *)
(* gives the default settings, and the call goes on with them.             *)
(***************************************************************************)
EXTENDS Naturals

CONSTANTS
  Observers,  \* calls in flight at a time
  Watched,    \* queues
  Shared,     \* the owner of a latch that all queues share
  Window,     \* QUEUE_FULL_DEBOUNCE_MS
  MaxCalls    \* bound: calls that start

ASSUME LatchesAssumption ==
  Window \in Nat \ {0} /\ MaxCalls \in Nat /\ Shared \notin Watched /\ Watched # {}

VARIABLES
  webhooks,  \* the record admin:webhooks
  holds,     \* the conditions that hold of each queue, in its room
  recent,    \* queueFullMemoryLatch: time since it was set, in the isolate at work
  calls,     \* the call each observer is in
  started,   \* calls that have started
  seen,      \* history: the latches, had no update been lost
  filled,    \* history: time since a queue-full alert of each queue
  again,     \* history: alerts that a call began to send although they were told
  undone     \* history: the latches that a put took back with an older record, or
             \* with the defaults of a failed read, since they were last put

latchesVars == <<webhooks, holds, recent, calls, started, seen, filled, again, undone>>

Conditions == {"depth", "unhealthy", "schedule"}
Latches == {"depth", "schedule"} \X {Shared} \cup {"unhealthy"} \X Watched

\* The time of the last queue-full alert, which all queues share as well.
Full == <<"full", Shared>>

\* Mutant: a latch is kept per queue, where the record has room for one.
LatchPerQueue(kind, queue) == <<kind, queue>>

\* Only the health latch is kept per queue.
Latch(kind, queue) == <<kind, IF kind = "unhealthy" THEN queue ELSE Shared>>

\* `all': every event is subscribed to.  `old': the signing secret is sealed
\* with the former key.
Webhooks == [enabled: BOOLEAN, url: BOOLEAN, all: BOOLEAN, old: BOOLEAN,
             latched: SUBSET Latches, full: 0 .. Window]

Unread == [enabled |-> FALSE, url |-> FALSE, all |-> FALSE, old |-> FALSE,
           latched |-> {}, full |-> 0]

\* DEFAULT_WEBHOOK_SETTINGS: no record, or one that could not be read.
Defaults == [Unread EXCEPT !.full = Window]

Silent == [op |-> "none"]

Call ==
  [op: Conditions \cup {"full", "save", "notify", "test"}, queue: Watched, sees: BOOLEAN,
   step: {"read", "put", "check", "reseal", "sealed", "post", "latest", "record"},
   copy: Webhooks]

Shorter(a, b) == IF a <= b THEN a ELSE b

-----------------------------------------------------------------------------
(***************************************************************************)
(* The decisions, on the record a call has read.                           *)
(***************************************************************************)
IsLatched(c, w) == Latch(c.op, c.queue) \in w.latched

\* maybeDispatchDepthWebhook, ...OriginUnhealthy..., ...ScheduleOpen...: the
\* latch follows the condition.  Only the health observer ignores whether
\* webhooks are on, and only depth asks for its subscription before latching.
Moves(c, w) ==
  /\ IsLatched(c, w) # c.sees
  /\ c.op # "unhealthy" => w.enabled /\ w.url
  /\ c.op = "depth" /\ c.sees => w.all

\* A transition that is told: depth both ways, health when the pause begins,
\* the schedule when the wait is over.
Tells(c, w) ==
  \/ c.op = "unhealthy" /\ c.sees
  \/ c.op = "depth" /\ (c.sees \/ w.all)
  \/ c.op = "schedule" /\ ~c.sees /\ w.all

Followed(c, w) ==
  [w EXCEPT !.latched = IF c.sees THEN @ \cup {Latch(c.op, c.queue)}
                                  ELSE @ \ {Latch(c.op, c.queue)}]

IsOn(w) == w.enabled /\ w.url /\ w.all

\* maybeDispatchQueueFullWebhook, after its read.
IsFull(c, w) == IsOn(w) /\ w.full = Window

\* An observer that has nothing to write ends after its read.
Proceeds(c, w) ==
  \/ c.op = "save"
  \/ c.op = "full" /\ IsFull(c, w)
  \/ c.op \in Conditions /\ Moves(c, w)

\* Mutant: the depth latch goes the way of the health latches.
SavedBare(w, new) == [new EXCEPT !.old = @ /\ w.old, !.full = w.full, !.latched = {}]

\* handleAdminSaveWebhooks: of the latches, the health ones are not carried over; the
\* secret is, unless the form brings or clears one.
Saved(w, new) ==
  [new EXCEPT !.old = @ /\ w.old,
              !.full = w.full,
              !.latched = {l \in w.latched : l[1] # "unhealthy"}]

\* What putting w, or a record made of it, takes back of the record that is stored.
Reverts(w) ==
  {l \in Latches : (l \in w.latched) # (l \in webhooks.latched)}
    \cup {f \in {Full} : w.full > webhooks.full}

-----------------------------------------------------------------------------
(***************************************************************************)
(* The steps of a call; each is at most one use of the store.              *)
(***************************************************************************)
In(o, ops, step) == calls[o].op \in ops /\ calls[o].step = step
Goes(o, step) == calls' = [calls EXCEPT ![o].step = step, ![o].copy = Unread]
Keep(o, step, w) == calls' = [calls EXCEPT ![o].step = step, ![o].copy = w]
Leave(o) == calls' = [calls EXCEPT ![o] = Silent]

\* A call starts with what its request has just seen in the room.  A queue-full
\* call looks at its isolate's memory first.  MaxCalls bounds the instance.
Observe(o, op, queue) ==
  /\ calls[o] = Silent /\ started < MaxCalls
  /\ op = "full" => recent[queue] = Window
  /\ op = "test" => webhooks.url
  /\ calls' = [calls EXCEPT ![o] =
       [op |-> op, queue |-> queue, sees |-> op \in holds[queue],
        step |-> IF op \in {"notify", "test"} THEN "check" ELSE "read", copy |-> Unread]]
  /\ started' = started + 1
  /\ UNCHANGED <<webhooks, holds, recent, seen, filled, again, undone>>

\* What was told already, and no put has taken back.
ToldBefore(c) ==
  IF c.op = "full"
  THEN filled[c.queue] < Window /\ Full \notin undone
  ELSE LET latch == Latch(c.op, c.queue)
       IN (c.sees <=> latch \in seen) /\ latch \notin undone

\* readWebhookSettings in an observer, and in the form's handler.
ReadLatches(o) ==
  /\ In(o, Conditions \cup {"full", "save"}, "read")
  /\ LET c == calls[o]
     IN \E w \in {webhooks, Defaults} :
          /\ IF Proceeds(c, w) THEN Keep(o, "put", w) ELSE Leave(o)
          /\ recent' = IF c.op = "full" /\ IsOn(w)
                       THEN [recent EXCEPT ![c.queue] = IF IsFull(c, w) THEN 0 ELSE w.full]
                       ELSE recent
          /\ again' = again \cup {k \in {c.op} : /\ Proceeds(c, w)
                                               /\ k # "save" /\ (k # "full" => Tells(c, w))
                                               /\ ToldBefore(c)}
  /\ UNCHANGED <<webhooks, holds, started, seen, filled, undone>>

\* The put of a condition's observer, before the delivery it may begin.
PutLatch(o) ==
  /\ In(o, Conditions, "put")
  /\ LET c == calls[o]
         latch == Latch(c.op, c.queue)
     IN /\ webhooks' = Followed(c, c.copy)
        /\ seen' = IF c.sees THEN seen \cup {latch} ELSE seen \ {latch}
        /\ undone' = (undone \cup Reverts(c.copy)) \ {latch}
        /\ IF Tells(c, c.copy) THEN Goes(o, "check") ELSE Leave(o)
  /\ UNCHANGED <<holds, recent, started, filled, again>>

PutFull(o) ==
  /\ In(o, {"full"}, "put")
  /\ LET c == calls[o]
     IN /\ webhooks' = [c.copy EXCEPT !.full = 0]
        /\ filled' = [filled EXCEPT ![c.queue] = 0]
        /\ undone' = (undone \cup Reverts(c.copy)) \ {Full}
  /\ Goes(o, "check")
  /\ UNCHANGED <<holds, recent, started, seen, again>>

\* The form: webhooks that are on have a URL.
PutSettings(o, new) ==
  /\ In(o, {"save"}, "put")
  /\ new.enabled => new.url
  /\ webhooks' = Saved(calls[o].copy, new)
  /\ undone' = undone \cup Reverts(calls[o].copy)
  /\ Leave(o)
  /\ UNCHANGED <<holds, recent, started, seen, filled, again>>

-----------------------------------------------------------------------------
(***************************************************************************)
(* deliverWebhook.                                                         *)
(***************************************************************************)
\* The settings are read again.  Without a URL the failure is put into the copy
\* just read; a test does not ask whether webhooks are on.
CheckDelivery(o) ==
  /\ calls[o] # Silent /\ calls[o].step = "check"
  /\ \/ \E w \in {webhooks, Defaults} : ~w.url /\ Keep(o, "record", w)
     \/ /\ webhooks.url /\ (IsOn(webhooks) \/ calls[o].op = "test")
        /\ Goes(o, IF webhooks.old THEN "reseal" ELSE "post")
     \/ /\ webhooks.url /\ ~IsOn(webhooks) /\ calls[o].op # "test"
        /\ Leave(o)
  /\ UNCHANGED <<webhooks, holds, recent, started, seen, filled, again, undone>>

\* openWebhookSecret: a secret sealed with the former key is sealed again, if
\* the record that is read still has it; or it cannot be opened and nothing is posted.
ReadSealed(o) ==
  /\ calls[o] # Silent /\ calls[o].step = "reseal"
  /\ \/ webhooks.old /\ Keep(o, "sealed", webhooks)
     \/ Goes(o, "post")
     \/ Goes(o, "latest")
  /\ UNCHANGED <<webhooks, holds, recent, started, seen, filled, again, undone>>

Reseal(o) ==
  /\ calls[o] # Silent /\ calls[o].step = "sealed"
  /\ webhooks' = [calls[o].copy EXCEPT !.old = FALSE]
  /\ undone' = undone \cup Reverts(calls[o].copy)
  /\ Goes(o, "post")
  /\ UNCHANGED <<holds, recent, started, seen, filled, again>>

\* The post; a failure is left to the outbox of the queue's room.
PostAlert(o) ==
  /\ calls[o] # Silent /\ calls[o].step = "post"
  /\ Goes(o, "latest")
  /\ UNCHANGED <<webhooks, holds, recent, started, seen, filled, again, undone>>

\* The record is read once more and put back with the outcome.
ReadLatest(o) ==
  /\ calls[o] # Silent /\ calls[o].step = "latest"
  /\ \E w \in {webhooks, Defaults} : Keep(o, "record", w)
  /\ UNCHANGED <<webhooks, holds, recent, started, seen, filled, again, undone>>

RecordDelivery(o) ==
  /\ calls[o] # Silent /\ calls[o].step = "record"
  /\ webhooks' = calls[o].copy
  /\ undone' = undone \cup Reverts(calls[o].copy)
  /\ Leave(o)
  /\ UNCHANGED <<holds, recent, started, seen, filled, again>>

\* The request has been answered and its Worker is stopped, or a call throws.
Cut(o) ==
  /\ calls[o] # Silent
  /\ Leave(o)
  /\ UNCHANGED <<webhooks, holds, recent, started, seen, filled, again, undone>>

\* handleAdminReset forgets the record, whatever calls are in flight.
ResetWebhooks ==
  /\ started < MaxCalls
  /\ webhooks' = Defaults
  /\ webhooks' # webhooks
  /\ seen' = {}
  /\ undone' = {}
  /\ filled' = [q \in Watched |-> Window]
  /\ UNCHANGED <<holds, recent, calls, started, again>>

\* The rooms change: a line grows or shrinks, health or the schedule moves.
RoomChanges(queue, kind) ==
  /\ started < MaxCalls
  /\ holds' = [holds EXCEPT ![queue] = IF kind \in @ THEN @ \ {kind} ELSE @ \cup {kind}]
  /\ UNCHANGED <<webhooks, recent, calls, started, seen, filled, again, undone>>

\* An isolate goes, and its memory with it; or another one, which has not seen
\* the latch set, serves the next requests.
EvictIsolate ==
  /\ recent' = [q \in Watched |-> Window]
  /\ recent' # recent
  /\ UNCHANGED <<webhooks, holds, calls, started, seen, filled, again, undone>>

\* Time, in units that no call in flight takes: a call is short against Window.
LatchTick ==
  /\ \A o \in Observers : calls[o] = Silent
  /\ webhooks.full < Window \/ \E q \in Watched : filled[q] < Window \/ recent[q] < Window
  /\ webhooks' = [webhooks EXCEPT !.full = Shorter(@ + 1, Window)]
  /\ recent' = [q \in Watched |-> Shorter(recent[q] + 1, Window)]
  /\ filled' = [q \in Watched |-> Shorter(filled[q] + 1, Window)]
  /\ UNCHANGED <<holds, calls, started, seen, again, undone>>

\* Webhooks are set up, and nothing has been seen yet.
LatchesInit ==
  /\ webhooks \in {w \in Webhooks : /\ w.enabled => w.url
                                    /\ w.latched = {} /\ w.full = Window}
  /\ holds = [q \in Watched |-> {}]
  /\ recent = [q \in Watched |-> Window]
  /\ calls = [o \in Observers |-> Silent]
  /\ started = 0
  /\ seen = {} /\ again = {} /\ undone = {}
  /\ filled = [q \in Watched |-> Window]

\* What the form may send; `old': it keeps the secret as it is.
Forms == {w \in Webhooks : w.latched = {} /\ w.full = Window}

LatchesNext ==
  \/ \E o \in Observers :
       \/ \E op \in Conditions \cup {"full", "save", "notify", "test"}, q \in Watched :
            Observe(o, op, q)
       \/ ReadLatches(o) \/ PutLatch(o) \/ PutFull(o)
       \/ \E new \in Forms : PutSettings(o, new)
       \/ CheckDelivery(o) \/ ReadSealed(o) \/ Reseal(o) \/ PostAlert(o)
       \/ ReadLatest(o) \/ RecordDelivery(o) \/ Cut(o)
  \/ \E q \in Watched, kind \in Conditions : RoomChanges(q, kind)
  \/ EvictIsolate \/ ResetWebhooks
  \/ LatchTick

LatchesSpec == LatchesInit /\ [][LatchesNext]_latchesVars

-----------------------------------------------------------------------------
(***************************************************************************)
(* Properties.                                                             *)
(***************************************************************************)
\* The shape of the state.
LatchesTypeOK ==
  /\ webhooks \in Webhooks
  /\ holds \in [Watched -> SUBSET Conditions]
  /\ recent \in [Watched -> 0 .. Window]
  /\ calls \in [Observers -> Call \cup {Silent}]
  /\ started \in 0 .. MaxCalls
  /\ seen \in SUBSET Latches
  /\ filled \in [Watched -> 0 .. Window]
  /\ again \in SUBSET (Conditions \cup {"full"})
  /\ undone \subseteq Latches \cup {Full}

\* No call sets out to tell what the record has been told: the crossing of the depth or
\* the drop below it, an opening, a full line within its window, each as the queues that
\* share its latch are seen.  Saves, tests, deliveries, resets and evictions do not forget
\* it; only a put of an older record, or of the defaults of a failed read, does, and only
\* until the latch is put again.  Calls that had read the record when it was told are not
\* held back (maybeDispatchDepthWebhook, ...ScheduleOpenWebhook, ...QueueFullWebhook).
\* The health latches are left out, as saves drop them.
AlertsToldOnce == again \cap {"depth", "schedule", "full"} = {}
=============================================================================
