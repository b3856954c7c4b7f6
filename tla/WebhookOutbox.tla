--------------------------- MODULE WebhookOutbox ---------------------------
(***************************************************************************)
(* The webhook outbox of a queue room (enqueueWebhook and                  *)
(* processWebhookOutbox in src/durable-object/queue-room.ts): alerts whose *)
(* first delivery failed in the Worker wait in a table, and the room's     *)
(* outboxAlarm posts the due ones again until they are delivered or given up.    *)
(*                                                                         *)
(* Instants are relative: the wait of a row and of the outboxAlarm is the time   *)
(* left to its instant, and 0 once that has passed.  The handler's reading *)
(* of the clock becomes the time elapsed since that reading.               *)
(***************************************************************************)
EXTENDS Naturals, FiniteSets

CONSTANTS
  Webhook,      \* row ids, in the order of insertion; bound: alerts of the instance
  MaxAttempts,  \* WEBHOOK_MAX_ATTEMPTS, the Worker's own post included
  RetryDelay,   \* WEBHOOK_RETRY_DELAYS_MS, from index 1
  Batch,        \* LIMIT of one run
  SendTimeout,      \* time after which a post is aborted
  Pace,         \* outboxAlarm intervals the queue's own work asks for, 0 for none
  NoAlarm,      \* no outboxAlarm is set
  MaxCrashes    \* bound: crashes of the instance

VARIABLES
  outbox,   \* webhook_outbox; a row that is gone keeps its fate as history
  pace,     \* the interval the queue's own work asks for now
  outboxAlarm,    \* time until the object's outboxAlarm, or NoAlarm
  handler,  \* the outboxAlarm handler: the rows it has left, the time since its start
  posts,    \* history: posts made of each row by the outbox
  crashes   \* history: handlers that were cut short

outboxVars == <<outbox, pace, outboxAlarm, handler, posts, crashes>>

ASSUME OutboxAssumption ==
  /\ Webhook \subseteq Nat /\ IsFiniteSet(Webhook)
  /\ MaxAttempts \in Nat /\ MaxAttempts > 1
  /\ RetryDelay \in [1 .. MaxAttempts - 1 -> Nat \ {0}]
  /\ Batch \in Nat \ {0} /\ SendTimeout \in Nat
  /\ Pace \subseteq Nat
  /\ NoAlarm \notin Nat
  /\ MaxCrashes \in Nat

-----------------------------------------------------------------------------
Pending(rows) == {w \in Webhook : rows[w].fate = "pending"}
Due == {w \in Pending(outbox) : outbox[w].wait = 0}

IsFirst(w, S) == w \in S /\ \A u \in S : w <= u

Resting == [pc |-> "idle", left |-> {}, elapsed |-> 0, spent |-> 0]

\* The object delivers no event between two steps without a network await.
Interruptible == handler.pc \in {"idle", "posting", "rest"}

\* Mutant: an outboxAlarm that is already set is kept, however late it is.
KeepsAlarm(t) == outboxAlarm # NoAlarm

KeepAlarm(t) == outboxAlarm # NoAlarm /\ outboxAlarm <= t

\* ensureAlarm, over the outbox and the queue's work after the step.
EnsureAlarm(rows, work) ==
  LET instants == {rows[w].wait : w \in Pending(rows)} \cup ({work} \ {0})
  IN \/ instants = {} /\ outboxAlarm' = NoAlarm
     \/ \E t \in instants :
          /\ \A u \in instants : t <= u
          /\ outboxAlarm' = IF KeepAlarm(t) THEN outboxAlarm ELSE t

-----------------------------------------------------------------------------
\* Mutant: the row is stored and the outboxAlarm left as it is.
EnqueueUnarmed(w) ==
  /\ Interruptible
  /\ IsFirst(w, {u \in Webhook : outbox[u].fate = "none"})
  /\ outbox' = [outbox EXCEPT ![w] =
       [fate |-> "pending", attempts |-> 1, wait |-> RetryDelay[1]]]
  /\ UNCHANGED <<pace, outboxAlarm, handler, posts, crashes>>

\* enqueueWebhook, after the Worker's own post failed.
Enqueue(w) ==
  /\ Interruptible
  /\ IsFirst(w, {u \in Webhook : outbox[u].fate = "none"})
  /\ outbox' = [outbox EXCEPT ![w] =
       [fate |-> "pending", attempts |-> 1, wait |-> RetryDelay[1]]]
  /\ EnsureAlarm(outbox', pace)
  /\ UNCHANGED <<pace, handler, posts, crashes>>

\* Any other call of the room: it changes the queue's work and arms the outboxAlarm.
RoomCall ==
  /\ Interruptible
  /\ pace' \in Pace
  /\ EnsureAlarm(outbox, pace')
  /\ UNCHANGED <<outbox, handler, posts, crashes>>

\* outboxAlarm() reads the clock and selects the due rows, oldest first, Batch at most.
OutboxAlarm ==
  /\ handler.pc = "idle" /\ outboxAlarm = 0
  /\ outboxAlarm' = NoAlarm
  /\ \E rows \in SUBSET Due :
       /\ \A w \in rows, u \in Due \ rows : w < u
       /\ Cardinality(rows) <= Batch
       /\ rows # Due => Cardinality(rows) = Batch
       /\ handler' = [Resting EXCEPT !.pc = "send", !.left = rows]
  /\ UNCHANGED <<outbox, pace, posts, crashes>>

Post ==
  /\ handler.pc = "send"
  /\ \E w \in handler.left :
       IsFirst(w, handler.left) /\ posts' = [posts EXCEPT ![w] = @ + 1]
  /\ handler' = [handler EXCEPT !.pc = "posting", !.spent = 0]
  /\ UNCHANGED <<outbox, pace, outboxAlarm, crashes>>

\* Mutant: the last attempt is not made.
ExhaustedEarly(attempts) == attempts >= MaxAttempts - 1

Exhausted(attempts) == attempts >= MaxAttempts

Remaining(delay) == IF delay > handler.elapsed THEN delay - handler.elapsed ELSE 0

\* The row after a failed post: given up, or due a delay after the handler's start.
Failed(r) ==
  IF Exhausted(r.attempts + 1)
  THEN [r EXCEPT !.fate = "given up"]
  ELSE [r EXCEPT !.attempts = @ + 1, !.wait = Remaining(RetryDelay[r.attempts + 1])]

Respond(ok) ==
  /\ handler.pc = "posting"
  /\ \E w \in handler.left :
       /\ IsFirst(w, handler.left)
       /\ outbox' = [outbox EXCEPT ![w] = IF ok THEN [@ EXCEPT !.fate = "delivered"]
                                                ELSE Failed(@)]
       /\ handler' = [handler EXCEPT !.pc = "send", !.left = @ \ {w}]
  /\ UNCHANGED <<pace, outboxAlarm, posts, crashes>>

\* The sweep follows, up to the await of the origin probe.
SweepAfter ==
  /\ handler.pc = "send" /\ handler.left = {}
  /\ handler' = [handler EXCEPT !.pc = "rest"]
  /\ UNCHANGED <<outbox, pace, outboxAlarm, posts, crashes>>

\* The admissions, which change the queue's work, and the final ensureAlarm.
Finish ==
  /\ handler.pc = "rest"
  /\ handler' = Resting
  /\ pace' \in Pace
  /\ EnsureAlarm(outbox, pace')
  /\ UNCHANGED <<outbox, posts, crashes>>

\* An eviction or an exception during the handler: the outboxAlarm is delivered again.
\* MaxCrashes bounds the crashes of the instance.
Crash ==
  /\ handler.pc # "idle" /\ crashes < MaxCrashes
  /\ crashes' = crashes + 1
  /\ handler' = Resting
  /\ outboxAlarm' = 0
  /\ UNCHANGED <<outbox, pace, posts>>

Sooner(t) == IF t = 0 THEN 0 ELSE t - 1

OutboxTick ==
  /\ Interruptible
  /\ handler.pc = "posting" => handler.spent < SendTimeout
  /\ outbox' = [w \in Webhook |-> [outbox[w] EXCEPT !.wait = Sooner(@)]]
  /\ outboxAlarm' = IF outboxAlarm = NoAlarm THEN NoAlarm ELSE Sooner(outboxAlarm)
  /\ handler' = IF handler.pc = "posting"
                THEN [handler EXCEPT !.elapsed = @ + 1, !.spent = @ + 1]
                ELSE handler
  /\ UNCHANGED <<pace, posts, crashes>>

OutboxInit ==
  /\ outbox = [w \in Webhook |-> [fate |-> "none", attempts |-> 0, wait |-> 0]]
  /\ pace = 0
  /\ outboxAlarm = NoAlarm
  /\ handler = Resting
  /\ posts = [w \in Webhook |-> 0]
  /\ crashes = 0

HandlerStep == Post \/ (\E ok \in BOOLEAN : Respond(ok)) \/ SweepAfter \/ Finish

OutboxNext ==
  \/ \E w \in Webhook : Enqueue(w)
  \/ RoomCall
  \/ OutboxAlarm \/ HandlerStep \/ Crash
  \/ OutboxTick

\* Time passes, a due outboxAlarm fires, and a handler goes on: storage answers and
\* a post is aborted after SendTimeout.  Calls and crashes are owed by nobody.
OutboxSpec ==
  OutboxInit /\ [][OutboxNext]_outboxVars
  /\ WF_outboxVars(OutboxTick) /\ WF_outboxVars(OutboxAlarm) /\ WF_outboxVars(HandlerStep)

-----------------------------------------------------------------------------
(***************************************************************************)
(* Properties.                                                             *)
(***************************************************************************)
Row == [fate: {"none", "pending", "delivered", "given up"},
        attempts: 0 .. MaxAttempts - 1, wait: Nat]

OutboxTypeOK ==
  /\ outbox \in [Webhook -> Row]
  /\ pace \in Pace \cup {0}
  /\ outboxAlarm \in Nat \cup {NoAlarm}
  /\ handler \in [pc: {"idle", "send", "posting", "rest"}, left: SUBSET Webhook,
                  elapsed: Nat, spent: 0 .. SendTimeout]
  /\ posts \in [Webhook -> Nat]
  /\ crashes \in 0 .. MaxCrashes

\* While no handler runs, the outboxAlarm is set, and no later than the earliest row
\* that waits (ensureAlarm and every path that changes the table).
OutboxArmed ==
  handler.pc = "idle" =>
    \A w \in Pending(outbox) : outboxAlarm # NoAlarm /\ outboxAlarm <= outbox[w].wait

\* A row is given up only after all its attempts, the Worker's among them, and
\* is never posted more often, except once more for each handler that was cut
\* short after a post (attempts, WEBHOOK_MAX_ATTEMPTS).
AttemptsExact ==
  \A w \in Webhook :
    /\ outbox[w].fate = "given up" => posts[w] >= MaxAttempts - 1
    /\ posts[w] <= MaxAttempts - 1 + crashes

\* Every alert that was stored is delivered or given up in the end, whatever
\* the queue does and however often the handler is cut short.
Settles ==
  \A w \in Webhook :
    outbox[w].fate = "pending" ~> outbox[w].fate \in {"delivered", "given up"}
=============================================================================
