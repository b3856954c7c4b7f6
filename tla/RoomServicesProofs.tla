------------------------- MODULE RoomServicesProofs -------------------------
(***************************************************************************)
(* Proofs about what the Durable Object of a queue does besides its line:  *)
(* the webhook deliveries (WebhookOutbox), the origin probe (OriginHealth) *)
(* and the traffic buckets (TrafficBuckets).  The three share no state.    *)
(***************************************************************************)
EXTENDS WebhookOutbox, OriginHealth, TrafficBuckets, FiniteSetTheorems, TLAPS

-----------------------------------------------------------------------------
(***************************************************************************)
(* WebhookOutbox: the alarm is armed whenever rows wait, and a row is      *)
(* posted as often as its attempts say, whatever the number of alerts, the *)
(* delays, the batch and the crashes.                                      *)
(***************************************************************************)
\* A post that is on its way: not yet an attempt of its row.
OnItsWay(w) == handler.pc = "posting" /\ IsFirst(w, handler.left)

\* The handler's rows are pending, and a post is on its way only for a row.
HandlerOK ==
  /\ handler.left \subseteq Pending(outbox)
  /\ handler.pc \in {"idle", "rest"} => handler.left = {}
  /\ handler.pc = "posting" => \E w \in handler.left : IsFirst(w, handler.left)

\* The posts of a row, against its attempts and the crashes so far.
Accounted(w) ==
  /\ outbox[w].fate = "none" => posts[w] = 0
  /\ outbox[w].fate = "pending" =>
       /\ outbox[w].attempts >= 1
       /\ OnItsWay(w) => /\ posts[w] >= outbox[w].attempts
                         /\ posts[w] <= outbox[w].attempts + crashes
       /\ ~OnItsWay(w) => /\ posts[w] + 1 >= outbox[w].attempts
                          /\ posts[w] + 1 <= outbox[w].attempts + crashes
  /\ outbox[w].fate = "given up" => posts[w] >= MaxAttempts - 1
  /\ posts[w] <= MaxAttempts - 1 + crashes

OutboxInv == OutboxTypeOK /\ HandlerOK /\ OutboxArmed /\ \A w \in Webhook : Accounted(w)

-----------------------------------------------------------------------------
\* The scalar part of the assumption.
LEMMA OutboxBounds ==
  /\ Webhook \subseteq Nat /\ Pace \subseteq Nat
  /\ MaxAttempts \in Nat /\ MaxAttempts > 1
  /\ SendTimeout \in Nat /\ MaxCrashes \in Nat
  /\ NoAlarm \notin Nat
PROOF
  BY OutboxAssumption

\* The first retry is made after the first delay.
LEMMA FirstDelay == RetryDelay[1] \in Nat
PROOF
  BY OutboxAssumption

\* What the columns of a row are.
LEMMA RowShape ==
  ASSUME NEW r \in Row
  PROVE  /\ r = [fate |-> r.fate, attempts |-> r.attempts, wait |-> r.wait]
         /\ r.fate \in {"none", "pending", "delivered", "given up"}
         /\ r.attempts \in 0 .. MaxAttempts - 1 /\ r.wait \in Nat
         /\ r.attempts \in Nat /\ r.attempts <= MaxAttempts - 1
PROOF
<1>1. r = [fate |-> r.fate, attempts |-> r.attempts, wait |-> r.wait]
  BY DEF Row
<1>2. /\ r.fate \in {"none", "pending", "delivered", "given up"}
      /\ r.attempts \in 0 .. MaxAttempts - 1 /\ r.wait \in Nat
  BY DEF Row
<1>3. ASSUME NEW a \in 0 .. MaxAttempts - 1
      PROVE  a \in Nat /\ a <= MaxAttempts - 1
  BY OutboxBounds
<1>4. r.attempts \in Nat /\ r.attempts <= MaxAttempts - 1
  BY <1>2, <1>3, Zenon
<1> QED
  BY <1>1, <1>2, <1>4, Zenon

\* A row is made of the values of its columns.
LEMMA MakeRow ==
  ASSUME NEW f \in {"none", "pending", "delivered", "given up"},
         NEW a \in 0 .. MaxAttempts - 1, NEW t \in Nat
  PROVE  [fate |-> f, attempts |-> a, wait |-> t] \in Row
PROOF
  BY DEF Row

\* What the type invariant says of one row.
LEMMA RowTypes ==
  ASSUME OutboxTypeOK, NEW w \in Webhook
  PROVE  /\ outbox[w] \in Row
         /\ outbox[w].attempts \in Nat /\ outbox[w].attempts <= MaxAttempts - 1
         /\ outbox[w].wait \in Nat
         /\ posts[w] \in Nat /\ crashes \in Nat
PROOF
<1>1. outbox[w] \in Row /\ posts[w] \in Nat
  BY DEF OutboxTypeOK
<1>2. crashes \in Nat
  BY OutboxBounds DEF OutboxTypeOK
<1> QED
  BY <1>1, <1>2, RowShape, Zenon

\* ensureAlarm leaves an instant, and sets it early enough for every row that
\* waits (ensureAlarm).
LEMMA EnsureAlarmArms ==
  ASSUME NEW rows \in [Webhook -> Row], NEW work \in Nat,
         outboxAlarm \in Nat \cup {NoAlarm}, EnsureAlarm(rows, work)
  PROVE  /\ outboxAlarm' \in Nat \cup {NoAlarm}
         /\ \A w \in Pending(rows) : outboxAlarm' # NoAlarm /\ outboxAlarm' <= rows[w].wait
PROOF
<1> DEFINE instants == {rows[w].wait : w \in Pending(rows)} \cup ({work} \ {0})
<1>1. instants \subseteq Nat
  BY DEF Pending, Row
<1>2. \A w \in Pending(rows) : rows[w].wait \in instants
  OBVIOUS
<1>3. \/ instants = {} /\ outboxAlarm' = NoAlarm
      \/ \E t \in instants : (\A u \in instants : t <= u)
                             /\ outboxAlarm' = IF KeepAlarm(t) THEN outboxAlarm ELSE t
  BY DEF EnsureAlarm
<1> HIDE DEF instants
<1>4. CASE instants = {} /\ outboxAlarm' = NoAlarm
  BY <1>2, <1>4
<1>5. CASE \E t \in instants : (\A u \in instants : t <= u)
                               /\ outboxAlarm' = IF KeepAlarm(t) THEN outboxAlarm ELSE t
  <2>1. PICK t \in instants : (\A u \in instants : t <= u)
                              /\ outboxAlarm' = IF KeepAlarm(t) THEN outboxAlarm ELSE t
    BY <1>5
  <2>2. outboxAlarm' \in Nat /\ outboxAlarm' <= t
    BY <2>1, <1>1, OutboxAssumption DEF KeepAlarm
  <2>3. ASSUME NEW w \in Pending(rows)
        PROVE  outboxAlarm' # NoAlarm /\ outboxAlarm' <= rows[w].wait
    <3>1. rows[w].wait \in Nat /\ t <= rows[w].wait
      BY <1>1, <1>2, <2>1
    <3>2. t \in Nat
      BY <1>1
    <3> QED
      BY <2>2, <3>1, <3>2, OutboxAssumption
  <2> QED
    BY <2>2, <2>3
<1> QED
  BY <1>3, <1>4, <1>5

-----------------------------------------------------------------------------
LEMMA OutboxInitInv == OutboxInit => OutboxInv
PROOF
<1> SUFFICES ASSUME OutboxInit PROVE OutboxInv
  OBVIOUS
<1>1. OutboxTypeOK
  BY OutboxAssumption DEF OutboxInit, OutboxTypeOK, Row, Resting
<1>2. Pending(outbox) = {}
  BY DEF OutboxInit, Pending
<1>3. HandlerOK /\ OutboxArmed
  BY <1>2 DEF OutboxInit, HandlerOK, OutboxArmed, Resting
<1>4. \A w \in Webhook : Accounted(w)
  <2> SUFFICES ASSUME NEW w \in Webhook PROVE Accounted(w)
    OBVIOUS
  <2>1. outbox[w].fate = "none" /\ posts[w] = 0 /\ crashes = 0
    BY DEF OutboxInit
  <2> QED
    BY <2>1, OutboxBounds DEF Accounted
<1> QED
  BY <1>1, <1>3, <1>4 DEF OutboxInv

LEMMA EnqueueInv ==
  ASSUME OutboxInv, NEW w \in Webhook, Enqueue(w)
  PROVE  OutboxInv'
PROOF
<1> USE OutboxBounds DEF OutboxInv
<1>1. /\ Interruptible
      /\ outbox[w].fate = "none"
      /\ outbox' = [outbox EXCEPT ![w] =
           [fate |-> "pending", attempts |-> 1, wait |-> RetryDelay[1]]]
      /\ EnsureAlarm(outbox', pace)
      /\ UNCHANGED <<pace, handler, posts, crashes>>
  BY DEF Enqueue, IsFirst
<1>2. outbox' \in [Webhook -> Row]
  <2>1. [fate |-> "pending", attempts |-> 1, wait |-> RetryDelay[1]] \in Row
    BY FirstDelay DEF Row
  <2> QED
    BY <1>1, <2>1 DEF OutboxTypeOK
<1>3. pace \in Nat /\ outboxAlarm \in Nat \cup {NoAlarm}
  BY DEF OutboxTypeOK
<1>4. /\ outboxAlarm' \in Nat \cup {NoAlarm}
      /\ \A u \in Pending(outbox') : outboxAlarm' # NoAlarm /\ outboxAlarm' <= outbox'[u].wait
  BY <1>1, <1>2, <1>3, EnsureAlarmArms
<1>5. OutboxTypeOK'
  BY <1>1, <1>2, <1>4 DEF OutboxTypeOK
<1>6. Pending(outbox) \subseteq Pending(outbox') /\ w \notin Pending(outbox)
  BY <1>1 DEF Pending, OutboxTypeOK
<1>7. HandlerOK'
  BY <1>1, <1>6 DEF HandlerOK, IsFirst
<1>8. OutboxArmed'
  BY <1>4 DEF OutboxArmed
<1>9. ASSUME NEW u \in Webhook PROVE Accounted(u)'
  <2>1. Accounted(u) /\ (OnItsWay(u)' <=> OnItsWay(u))
    BY <1>1 DEF OnItsWay, IsFirst
  <2>2. CASE u = w
    <3>1. ~OnItsWay(w)
      BY <1>6 DEF OnItsWay, IsFirst, HandlerOK
    <3>2. outbox'[w].fate = "pending" /\ outbox'[w].attempts = 1 /\ posts[w] = 0
      BY <1>1, <2>1, <2>2 DEF Accounted, OutboxTypeOK
    <3>3. crashes' \in Nat /\ posts'[w] = 0
      BY <1>1, <3>2, RowTypes
    <3>4. ~OnItsWay(w)'
      BY <2>1, <2>2, <3>1
    <3>5. /\ outbox'[u].fate = "pending" /\ outbox'[u].attempts = 1 /\ posts'[u] = 0
          /\ ~OnItsWay(u)'
      BY <2>2, <3>2, <3>3, <3>4, Zenon
    <3>6. ASSUME NEW c \in Nat
          PROVE  /\ 1 >= 1 /\ 0 + 1 >= 1 /\ 0 + 1 <= 1 + c
                 /\ 0 <= MaxAttempts - 1 + c
      OBVIOUS
    <3>7. /\ posts'[u] + 1 >= outbox'[u].attempts
          /\ posts'[u] + 1 <= outbox'[u].attempts + crashes'
          /\ posts'[u] <= MaxAttempts - 1 + crashes'
          /\ outbox'[u].attempts >= 1
      BY <3>3, <3>5, <3>6
    <3>8. outbox'[u].fate # "none" /\ outbox'[u].fate # "given up"
      BY <3>5
    <3> QED
      BY <3>5, <3>7, <3>8, Zenon DEF Accounted
  <2>3. CASE u # w
    BY <1>1, <2>1, <2>3 DEF Accounted, OutboxTypeOK
  <2> QED
    BY <2>2, <2>3
<1> QED
  BY <1>5, <1>7, <1>8, <1>9

\* The steps that leave the rows and their posts alone and arm the outboxAlarm.
LEMMA RoomCallInv ==
  ASSUME OutboxInv, RoomCall \/ Finish
  PROVE  OutboxInv'
PROOF
<1> USE OutboxBounds DEF OutboxInv
<1>1. /\ pace' \in Pace
      /\ EnsureAlarm(outbox, pace')
      /\ UNCHANGED <<outbox, posts, crashes>>
      /\ \/ handler' = handler
         \/ handler.pc = "rest" /\ handler' = Resting
  BY DEF RoomCall, Finish
<1>2. pace' \in Nat /\ outboxAlarm \in Nat \cup {NoAlarm} /\ outbox \in [Webhook -> Row]
  BY <1>1 DEF OutboxTypeOK
<1>3. /\ outboxAlarm' \in Nat \cup {NoAlarm}
      /\ \A u \in Pending(outbox) : outboxAlarm' # NoAlarm /\ outboxAlarm' <= outbox[u].wait
  BY <1>1, <1>2, EnsureAlarmArms
<1>4. OutboxTypeOK'
  BY <1>1, <1>3 DEF OutboxTypeOK, Resting
<1>5. HandlerOK'
  BY <1>1 DEF HandlerOK, Resting, IsFirst, Pending
<1>6. OutboxArmed'
  BY <1>1, <1>3 DEF OutboxArmed, Pending
<1>7. ASSUME NEW u \in Webhook PROVE Accounted(u)'
  <2>1. Accounted(u) /\ (OnItsWay(u)' <=> OnItsWay(u))
    BY <1>1 DEF OnItsWay, IsFirst, Resting
  <2> QED
    BY <1>1, <2>1 DEF Accounted
<1> QED
  BY <1>4, <1>5, <1>6, <1>7

LEMMA AlarmFireInv ==
  ASSUME OutboxInv, OutboxAlarm
  PROVE  OutboxInv'
PROOF
<1> USE OutboxBounds DEF OutboxInv
<1>1. PICK rows \in SUBSET Due :
         /\ handler.pc = "idle" /\ outboxAlarm' = NoAlarm
         /\ handler' = [Resting EXCEPT !.pc = "send", !.left = rows]
         /\ UNCHANGED <<outbox, pace, posts, crashes>>
  BY DEF OutboxAlarm
<1>2. Due \subseteq Pending(outbox) /\ Pending(outbox) \subseteq Webhook
  BY DEF Due, Pending
<1>3. handler' = [pc |-> "send", left |-> rows, elapsed |-> 0, spent |-> 0]
  BY <1>1 DEF Resting
<1>4. OutboxTypeOK'
  BY <1>1, <1>2, <1>3 DEF OutboxTypeOK
<1>5. HandlerOK' /\ OutboxArmed'
  BY <1>1, <1>2, <1>3 DEF HandlerOK, OutboxArmed, Pending
<1>6. ASSUME NEW u \in Webhook PROVE Accounted(u)'
  BY <1>1, <1>3 DEF Accounted, OnItsWay
<1> QED
  BY <1>4, <1>5, <1>6

LEMMA PostInv ==
  ASSUME OutboxInv, Post
  PROVE  OutboxInv'
PROOF
<1> USE OutboxBounds DEF OutboxInv
<1>1. PICK w \in handler.left :
         /\ handler.pc = "send" /\ IsFirst(w, handler.left)
         /\ posts' = [posts EXCEPT ![w] = @ + 1]
  BY DEF Post
<1>2. /\ handler' = [handler EXCEPT !.pc = "posting", !.spent = 0]
      /\ UNCHANGED <<outbox, pace, outboxAlarm, crashes>>
  BY DEF Post
<1>3. w \in Webhook /\ outbox[w].fate = "pending"
  BY DEF HandlerOK, Pending
<1>4. handler'.left = handler.left /\ handler'.pc = "posting"
  BY <1>2 DEF OutboxTypeOK
<1>5. OutboxTypeOK'
  <2>1. posts' \in [Webhook -> Nat]
    BY <1>1, <1>3 DEF OutboxTypeOK
  <2>2. handler' \in [pc: {"idle", "send", "posting", "rest"}, left: SUBSET Webhook,
                      elapsed: Nat, spent: 0 .. SendTimeout]
    <3>1. 0 \in 0 .. SendTimeout
      OBVIOUS
    <3> QED
      BY <1>2, <3>1 DEF OutboxTypeOK
  <2> QED
    BY <1>2, <2>1, <2>2 DEF OutboxTypeOK
<1>6. HandlerOK' /\ OutboxArmed'
  BY <1>1, <1>2, <1>4 DEF HandlerOK, OutboxArmed, Pending, IsFirst
<1>7. ASSUME NEW u \in Webhook PROVE Accounted(u)'
  <2>1. Accounted(u) /\ ~OnItsWay(u)
    BY <1>1 DEF OnItsWay
  <2>2. CASE u = w
    <3>1. OnItsWay(w)'
      BY <1>1, <1>4 DEF OnItsWay, IsFirst
    <3>2. posts'[w] = posts[w] + 1 /\ posts[w] \in Nat
      BY <1>1, <1>3 DEF OutboxTypeOK
    <3>3. /\ outbox[w].attempts \in Nat /\ outbox[w].attempts <= MaxAttempts - 1
          /\ crashes \in Nat
      BY <1>3, RowTypes
    <3>4. /\ outbox[w].attempts >= 1
          /\ posts[w] + 1 >= outbox[w].attempts
          /\ posts[w] + 1 <= outbox[w].attempts + crashes
      BY <1>3, <2>1, <2>2 DEF Accounted
    <3>5. /\ outbox'[w].fate = "pending" /\ crashes' = crashes
          /\ outbox'[w].attempts = outbox[w].attempts
      BY <1>2, <1>3
    <3>6. /\ posts'[w] >= outbox'[w].attempts
          /\ posts'[w] <= outbox'[w].attempts + crashes'
          /\ posts'[w] <= MaxAttempts - 1 + crashes'
      BY <3>2, <3>3, <3>4, <3>5
    <3>7. outbox'[w].attempts >= 1
      BY <3>4, <3>5
    <3> QED
      BY <2>2, <3>1, <3>5, <3>6, <3>7 DEF Accounted
  <2>3. CASE u # w
    <3>1. posts'[u] = posts[u]
      BY <1>1, <2>3 DEF OutboxTypeOK
    <3>2. ~OnItsWay(u)'
      <4>1. SUFFICES ASSUME IsFirst(u, handler.left) PROVE FALSE
        BY <1>4 DEF OnItsWay, IsFirst
      <4>2. u \in Nat /\ w \in Nat /\ u <= w /\ w <= u
        BY <1>1, <1>3, <4>1 DEF IsFirst
      <4> QED
        BY <4>2, <2>3
    <3> QED
      BY <1>2, <2>1, <3>1, <3>2 DEF Accounted
  <2> QED
    BY <2>2, <2>3
<1> QED
  BY <1>5, <1>6, <1>7

\* What a failed post makes of a row (Failed).
LEMMA FailedRow ==
  ASSUME NEW r \in Row, r.fate = "pending", r.attempts >= 1, handler.elapsed \in Nat
  PROVE  /\ Failed(r) \in Row
         /\ \/ Failed(r).fate = "given up" /\ r.attempts = MaxAttempts - 1
            \/ Failed(r).fate = "pending" /\ Failed(r).attempts = r.attempts + 1
PROOF
<1>1. /\ r = [fate |-> r.fate, attempts |-> r.attempts, wait |-> r.wait]
      /\ r.attempts \in Nat /\ r.attempts <= MaxAttempts - 1 /\ r.wait \in Nat
      /\ r.attempts \in 0 .. MaxAttempts - 1
  BY RowShape
<1>2. CASE r.attempts + 1 >= MaxAttempts
  <2>1. Failed(r) = [fate |-> "given up", attempts |-> r.attempts, wait |-> r.wait]
    BY <1>1, <1>2 DEF Failed, Exhausted
  <2> QED
    <3>1. Failed(r) \in Row
      BY <1>1, <2>1, MakeRow, Zenon
    <3>2. ASSUME NEW a \in Nat, a <= MaxAttempts - 1, a + 1 >= MaxAttempts
          PROVE  a = MaxAttempts - 1
      BY <3>2, OutboxBounds
    <3>3. r.attempts = MaxAttempts - 1
      BY <1>1, <1>2, <3>2, Zenon
    <3>4. Failed(r).fate = "given up"
      <4>1. [fate |-> "given up", attempts |-> r.attempts, wait |-> r.wait].fate = "given up"
        OBVIOUS
      <4> QED
        BY <2>1, <4>1, Zenon
    <3> QED
      BY <3>1, <3>3, <3>4, Zenon
<1>3. CASE ~(r.attempts + 1 >= MaxAttempts)
  <2> DEFINE wait == Remaining(RetryDelay[r.attempts + 1])
  <2>1. r.attempts + 1 \in 1 .. MaxAttempts - 1
    BY <1>1, <1>3, OutboxBounds
  <2>2. RetryDelay[r.attempts + 1] \in Nat
    BY <2>1, OutboxAssumption
  <2>3. wait \in Nat
    BY <2>2 DEF Remaining
  <2>4. Failed(r) = [fate |-> "pending", attempts |-> r.attempts + 1, wait |-> wait]
    BY <1>1, <1>3 DEF Failed, Exhausted
  <2> HIDE DEF wait
  <2>5. r.attempts + 1 \in 0 .. MaxAttempts - 1
    BY <2>1, <1>1, OutboxBounds
  <2> QED
    <3>1. Failed(r) \in Row
      BY <2>3, <2>4, <2>5, MakeRow, Zenon
    <3>2. Failed(r).fate = "pending" /\ Failed(r).attempts = r.attempts + 1
      BY <2>4
    <3> QED
      BY <3>1, <3>2, Zenon
<1> QED
  BY <1>2, <1>3

LEMMA RespondInv ==
  ASSUME OutboxInv, NEW ok \in BOOLEAN, Respond(ok)
  PROVE  OutboxInv'
PROOF
<1> USE OutboxBounds DEF OutboxInv
<1>1. PICK w \in handler.left :
         /\ handler.pc = "posting" /\ IsFirst(w, handler.left)
         /\ outbox' = [outbox EXCEPT ![w] = IF ok THEN [@ EXCEPT !.fate = "delivered"]
                                                  ELSE Failed(@)]
         /\ handler' = [handler EXCEPT !.pc = "send", !.left = @ \ {w}]
  BY DEF Respond
<1>2. UNCHANGED <<pace, outboxAlarm, posts, crashes>>
  BY DEF Respond
<1>3. w \in Webhook /\ outbox[w] \in Row /\ outbox[w].fate = "pending" /\ OnItsWay(w)
  BY <1>1 DEF HandlerOK, Pending, OutboxTypeOK, OnItsWay
<1>4. Accounted(w) /\ outbox[w].attempts >= 1
  BY <1>3 DEF Accounted
<1>5. /\ Failed(outbox[w]) \in Row
      /\ \/ Failed(outbox[w]).fate = "given up" /\ outbox[w].attempts = MaxAttempts - 1
         \/ /\ Failed(outbox[w]).fate = "pending"
            /\ Failed(outbox[w]).attempts = outbox[w].attempts + 1
  BY <1>3, <1>4, FailedRow DEF OutboxTypeOK
<1>6. /\ outbox' \in [Webhook -> Row]
      /\ outbox'[w] = IF ok THEN [outbox[w] EXCEPT !.fate = "delivered"]
                            ELSE Failed(outbox[w])
      /\ \A u \in Webhook \ {w} : outbox'[u] = outbox[u]
  <2>1. [outbox[w] EXCEPT !.fate = "delivered"] \in Row
    BY <1>3 DEF Row
  <2> QED
    BY <1>1, <1>3, <1>5, <2>1 DEF OutboxTypeOK
<1>7. handler'.pc = "send" /\ handler'.left = handler.left \ {w}
  BY <1>1 DEF OutboxTypeOK
<1>8. OutboxTypeOK'
  BY <1>1, <1>2, <1>6 DEF OutboxTypeOK
<1>9. HandlerOK' /\ OutboxArmed'
  BY <1>6, <1>7 DEF HandlerOK, OutboxArmed, Pending
<1>10. ASSUME NEW u \in Webhook PROVE Accounted(u)'
  <2>1. ~OnItsWay(u)'
    BY <1>7 DEF OnItsWay
  <2>2. CASE u = w
    <3>1. /\ posts[w] >= outbox[w].attempts
          /\ posts[w] <= outbox[w].attempts + crashes
          /\ posts[w] <= MaxAttempts - 1 + crashes
      BY <1>3, <1>4 DEF Accounted
    <3>2. outbox[w].attempts \in Nat /\ crashes \in Nat /\ posts[w] \in Nat
      BY <1>3, RowTypes
    <3>3. CASE ok
      <4>1. outbox'[w].fate = "delivered"
        BY <1>3, <1>6, <3>3 DEF Row
      <4> QED
        BY <1>2, <2>2, <3>1, <4>1 DEF Accounted
    <3>4. CASE ~ok
      <4>1. outbox'[w] = Failed(outbox[w]) /\ posts'[w] = posts[w] /\ crashes' = crashes
        BY <1>2, <1>6, <3>4
      <4>2. CASE outbox'[w].fate = "given up" /\ outbox[w].attempts = MaxAttempts - 1
        <5>1. posts'[w] >= MaxAttempts - 1 /\ posts'[w] <= MaxAttempts - 1 + crashes'
          BY <3>1, <4>1, <4>2
        <5> QED
          BY <2>2, <4>2, <5>1 DEF Accounted
      <4>3. CASE outbox'[w].fate = "pending" /\ outbox'[w].attempts = outbox[w].attempts + 1
        <5>1. /\ outbox'[w].attempts >= 1
              /\ posts'[w] + 1 >= outbox'[w].attempts
              /\ posts'[w] + 1 <= outbox'[w].attempts + crashes'
              /\ posts'[w] <= MaxAttempts - 1 + crashes'
          BY <3>1, <3>2, <4>1, <4>3
        <5> QED
          BY <2>1, <2>2, <4>3, <5>1 DEF Accounted
      <4> QED
        BY <1>5, <4>1, <4>2, <4>3
    <3> QED
      BY <3>3, <3>4
  <2>3. CASE u # w
    <3>1. ~OnItsWay(u)
      <4>1. SUFFICES ASSUME IsFirst(u, handler.left) PROVE FALSE
        BY DEF OnItsWay
      <4>2. u \in Nat /\ w \in Nat /\ u <= w /\ w <= u
        BY <1>1, <1>3, <4>1 DEF IsFirst
      <4> QED
        BY <4>2, <2>3
    <3> QED
      BY <1>2, <1>6, <2>1, <2>3, <3>1 DEF Accounted
  <2> QED
    BY <2>2, <2>3
<1> QED
  BY <1>8, <1>9, <1>10

LEMMA SweepAfterInv ==
  ASSUME OutboxInv, SweepAfter
  PROVE  OutboxInv'
PROOF
<1> USE OutboxBounds DEF OutboxInv
<1>1. /\ handler.pc = "send" /\ handler.left = {}
      /\ handler' = [handler EXCEPT !.pc = "rest"]
      /\ UNCHANGED <<outbox, pace, outboxAlarm, posts, crashes>>
  BY DEF SweepAfter
<1>2. handler'.pc = "rest" /\ handler'.left = {}
  BY <1>1 DEF OutboxTypeOK
<1>3. OutboxTypeOK' /\ HandlerOK' /\ OutboxArmed'
  BY <1>1, <1>2 DEF OutboxTypeOK, HandlerOK, OutboxArmed
<1>4. ASSUME NEW u \in Webhook PROVE Accounted(u)'
  BY <1>1, <1>2 DEF Accounted, OnItsWay
<1> QED
  BY <1>3, <1>4

LEMMA CrashInv ==
  ASSUME OutboxInv, Crash
  PROVE  OutboxInv'
PROOF
<1> USE OutboxBounds DEF OutboxInv
<1>1. /\ crashes < MaxCrashes /\ crashes' = crashes + 1
      /\ handler' = Resting /\ outboxAlarm' = 0
      /\ UNCHANGED <<outbox, pace, posts>>
  BY DEF Crash
<1>2. handler'.pc = "idle" /\ handler'.left = {}
  BY <1>1 DEF Resting
<1>3. OutboxTypeOK'
  BY <1>1 DEF OutboxTypeOK, Resting
<1>4. HandlerOK'
  BY <1>2 DEF HandlerOK
<1>5. OutboxArmed'
  <2> SUFFICES ASSUME NEW w \in Pending(outbox)
               PROVE  outboxAlarm' # NoAlarm /\ outboxAlarm' <= outbox'[w].wait
    BY <1>1 DEF OutboxArmed, Pending
  <2>1. outbox'[w].wait \in Nat
    BY <1>1, RowTypes DEF Pending
  <2> QED
    BY <1>1, <2>1
<1>6. ASSUME NEW u \in Webhook PROVE Accounted(u)'
  <2>1. Accounted(u) /\ ~OnItsWay(u)'
    BY <1>2 DEF OnItsWay
  <2>2. crashes \in Nat /\ posts[u] \in Nat /\ outbox[u].attempts \in Nat
    BY RowTypes
  <2>3. outbox'[u] = outbox[u] /\ posts'[u] = posts[u] /\ crashes' = crashes + 1
    BY <1>1
  <2>4. posts'[u] <= MaxAttempts - 1 + crashes'
    <3>1. posts[u] <= MaxAttempts - 1 + crashes
      BY <2>1 DEF Accounted
    <3> QED
      BY <2>2, <2>3, <3>1
  <2>5. ASSUME outbox[u].fate = "pending"
        PROVE  /\ posts[u] + 1 >= outbox[u].attempts
               /\ posts[u] + 1 <= outbox[u].attempts + crashes'
    <3>1. CASE OnItsWay(u)
      <4>1. /\ posts[u] >= outbox[u].attempts
            /\ posts[u] <= outbox[u].attempts + crashes
        BY <2>1, <2>5, <3>1 DEF Accounted
      <4> QED
        BY <2>2, <2>3, <4>1
    <3>2. CASE ~OnItsWay(u)
      <4>1. /\ posts[u] + 1 >= outbox[u].attempts
            /\ posts[u] + 1 <= outbox[u].attempts + crashes
        BY <2>1, <2>5, <3>2 DEF Accounted
      <4> QED
        BY <2>2, <2>3, <4>1
    <3> QED
      BY <3>1, <3>2
  <2> QED
    BY <2>1, <2>3, <2>4, <2>5, Zenon DEF Accounted
<1> QED
  BY <1>3, <1>4, <1>5, <1>6

LEMMA OutboxTickInv ==
  ASSUME OutboxInv, OutboxTick
  PROVE  OutboxInv'
PROOF
<1> USE OutboxBounds DEF OutboxInv
<1>1. /\ outbox' = [w \in Webhook |-> [outbox[w] EXCEPT !.wait = Sooner(@)]]
      /\ outboxAlarm' = IF outboxAlarm = NoAlarm THEN NoAlarm ELSE Sooner(outboxAlarm)
      /\ UNCHANGED <<pace, posts, crashes>>
  BY DEF OutboxTick
<1>2. \A w \in Webhook : /\ outbox'[w] = [outbox[w] EXCEPT !.wait = Sooner(@)]
                         /\ outbox[w] \in Row
  BY <1>1 DEF OutboxTypeOK
<1>3. \A t \in Nat : Sooner(t) \in Nat
  BY DEF Sooner
<1>4. \A w \in Webhook : /\ outbox'[w] \in Row
                         /\ outbox'[w].fate = outbox[w].fate
                         /\ outbox'[w].attempts = outbox[w].attempts
                         /\ outbox'[w].wait = Sooner(outbox[w].wait)
  <2> SUFFICES ASSUME NEW r \in Row
               PROVE  [r EXCEPT !.wait = Sooner(@)]
                        = [fate |-> r.fate, attempts |-> r.attempts, wait |-> Sooner(r.wait)]
    <3> SUFFICES ASSUME NEW w \in Webhook,
                        outbox'[w] = [fate |-> outbox[w].fate,
                                      attempts |-> outbox[w].attempts,
                                      wait |-> Sooner(outbox[w].wait)]
                 PROVE  /\ outbox'[w] \in Row
                        /\ outbox'[w].fate = outbox[w].fate
                        /\ outbox'[w].attempts = outbox[w].attempts
                        /\ outbox'[w].wait = Sooner(outbox[w].wait)
      BY <1>2, Zenon
    <3>1. /\ outbox[w].fate \in {"none", "pending", "delivered", "given up"}
          /\ outbox[w].attempts \in 0 .. MaxAttempts - 1 /\ outbox[w].wait \in Nat
      BY <1>2, RowShape, Zenon
    <3>2. Sooner(outbox[w].wait) \in Nat
      BY <1>3, <3>1, Zenon
    <3>3. [fate |-> outbox[w].fate, attempts |-> outbox[w].attempts,
           wait |-> Sooner(outbox[w].wait)] \in Row
      BY <3>1, <3>2, MakeRow, Zenon
    <3> QED
      BY <3>3
  <2>1. r = [fate |-> r.fate, attempts |-> r.attempts, wait |-> r.wait]
    BY RowShape
  <2> QED
    BY <2>1
<1>5. outbox' \in [Webhook -> Row]
  BY <1>1, <1>4
<1>6. /\ handler'.pc = handler.pc /\ handler'.left = handler.left
      /\ handler' \in [pc: {"idle", "send", "posting", "rest"}, left: SUBSET Webhook,
                       elapsed: Nat, spent: 0 .. SendTimeout]
  <2>1. CASE handler.pc = "posting"
    <3>1. handler' = [handler EXCEPT !.elapsed = @ + 1, !.spent = @ + 1]
      BY <2>1 DEF OutboxTick
    <3>2. handler.spent + 1 \in 0 .. SendTimeout
      BY <2>1 DEF OutboxTick, OutboxTypeOK
    <3>3. handler.elapsed + 1 \in Nat
      BY DEF OutboxTypeOK
    <3> QED
      BY <3>1, <3>2, <3>3 DEF OutboxTypeOK
  <2>2. CASE handler.pc # "posting"
    BY <2>2 DEF OutboxTick, OutboxTypeOK
  <2> QED
    BY <2>1, <2>2
<1>7. outboxAlarm' \in Nat \cup {NoAlarm}
  BY <1>1, <1>3 DEF OutboxTypeOK
<1>8. OutboxTypeOK'
  BY <1>1, <1>5, <1>6, <1>7 DEF OutboxTypeOK
<1>9. Pending(outbox') = Pending(outbox)
  BY <1>4 DEF Pending
<1>10. HandlerOK'
  BY <1>6, <1>9 DEF HandlerOK, IsFirst
<1>11. OutboxArmed'
  <2> SUFFICES ASSUME handler'.pc = "idle", NEW w \in Pending(outbox)
               PROVE  outboxAlarm' # NoAlarm /\ outboxAlarm' <= outbox'[w].wait
    BY <1>9 DEF OutboxArmed
  <2>1. outboxAlarm \in Nat /\ outboxAlarm <= outbox[w].wait
       /\ w \in Webhook /\ outbox[w].wait \in Nat
    BY <1>6 DEF OutboxArmed, Pending, OutboxTypeOK, Row
  <2>2. outboxAlarm' = Sooner(outboxAlarm) /\ outbox'[w].wait = Sooner(outbox[w].wait)
    BY <1>1, <1>4, <2>1
  <2> QED
    BY <2>1, <2>2 DEF Sooner
<1>12. ASSUME NEW u \in Webhook PROVE Accounted(u)'
  <2>1. Accounted(u) /\ (OnItsWay(u)' <=> OnItsWay(u))
    BY <1>6 DEF OnItsWay, IsFirst
  <2> QED
    BY <1>1, <1>4, <2>1 DEF Accounted
<1> QED
  BY <1>8, <1>10, <1>11, <1>12

-----------------------------------------------------------------------------
LEMMA OutboxInductive == OutboxSpec => []OutboxInv
PROOF
<1>1. ASSUME OutboxInv, [OutboxNext]_outboxVars PROVE OutboxInv'
  <2>1. CASE \E w \in Webhook : Enqueue(w)
    BY <1>1, <2>1, EnqueueInv
  <2>2. CASE RoomCall \/ Finish
    BY <1>1, <2>2, RoomCallInv
  <2>3. CASE OutboxAlarm
    BY <1>1, <2>3, AlarmFireInv
  <2>4. CASE Post
    BY <1>1, <2>4, PostInv
  <2>5. CASE \E ok \in BOOLEAN : Respond(ok)
    BY <1>1, <2>5, RespondInv
  <2>6. CASE SweepAfter
    BY <1>1, <2>6, SweepAfterInv
  <2>7. CASE Crash
    BY <1>1, <2>7, CrashInv
  <2>8. CASE OutboxTick
    BY <1>1, <2>8, OutboxTickInv
  <2>9. CASE UNCHANGED outboxVars
    BY <1>1, <2>9 DEF outboxVars, OutboxInv, OutboxTypeOK, HandlerOK, OutboxArmed, Accounted, OnItsWay,
                      Pending, IsFirst
  <2> QED
    BY <1>1, <2>1, <2>2, <2>3, <2>4, <2>5, <2>6, <2>7, <2>8, <2>9 DEF OutboxNext, HandlerStep
<1> QED
  BY OutboxInitInv, <1>1, PTL DEF OutboxSpec

\* The types of WebhookOutbox hold in every reachable state.
THEOREM OutboxTypes == OutboxSpec => []OutboxTypeOK
PROOF
  BY OutboxInductive, PTL DEF OutboxInv

\* Between two runs of the handler the alarm is set no later than the first row
\* that waits, for any number of alerts, any delays and any work of the queue.
THEOREM OutboxAlwaysArmed == OutboxSpec => []OutboxArmed
PROOF
  BY OutboxInductive, PTL DEF OutboxInv

\* For any number of attempts and crashes, a row is given up only after all its
\* attempts, and posted more often only when a handler was cut short.
THEOREM AttemptsAlwaysExact == OutboxSpec => []AttemptsExact
PROOF
<1>1. OutboxInv => AttemptsExact
  BY DEF OutboxInv, Accounted, AttemptsExact
<1> QED
  BY OutboxInductive, <1>1, PTL

-----------------------------------------------------------------------------
(***************************************************************************)
(* OriginHealth: whatever thresholds the operator sets while probes are in *)
(* flight, a level rests on enough failed probes, and the throttle does    *)
(* not jump.                                                               *)
(***************************************************************************)
\* The failed probes behind a level, for a number t that no threshold
\* is below: t of them slowed the room, and those it counts now come on top.
Earned(h, t) ==
  /\ h.level = "ok" => h.failed >= h.fails
  /\ h.level = "slow" => h.failed >= t + h.fails
  /\ h.level = "pause" => h.failed >= t + t

LowerBound(t) == \A u \in Threshold : t <= u

\* A probe that was not overtaken writes over what it has read.
ProbeFresh == probe.running /\ ~probe.stale => probe.health = health

HealthInv ==
  /\ HealthTypeOK
  /\ \A t \in Nat : LowerBound(t) => Earned(health, t) /\ Earned(probe.health, t)
  /\ ProbeFresh

-----------------------------------------------------------------------------
LEMMA Largest == Most \in Threshold /\ (\A u \in Threshold : u <= Most) /\ Most \in Nat
PROOF
  BY HealthAssumption DEF Most

\* Counting, up to the largest threshold, stays in range and does not decrease.
LEMMA Counting ==
  ASSUME NEW n \in 0 .. Most
  PROVE  Count(n) \in 0 .. Most /\ Count(n) <= n + 1
PROOF
  BY Largest DEF Count, Smaller

\* The fields of a health state, as plain facts.
LEMMA HealthShape ==
  ASSUME NEW h \in Health
  PROVE  /\ h = [level |-> h.level, fails |-> h.fails, oks |-> h.oks, failed |-> h.failed]
         /\ h.level \in {"ok", "slow", "pause"}
         /\ h.fails \in 0 .. Most /\ h.oks \in 0 .. Most
         /\ h.failed \in 0 .. Most + Most
PROOF
  BY DEF Health

\* A health state is made of the values of its fields.
LEMMA MakeHealth ==
  ASSUME NEW l \in {"ok", "slow", "pause"}, NEW f \in 0 .. Most, NEW o \in 0 .. Most,
         NEW n \in 0 .. Most + Most
  PROVE  [level |-> l, fails |-> f, oks |-> o, failed |-> n] \in Health
PROOF
  BY DEF Health

LEMMA DefaultEarned ==
  ASSUME NEW t \in Nat
  PROVE  DefaultHealth \in Health /\ Earned(DefaultHealth, t)
PROOF
  BY Largest DEF DefaultHealth, Health, Earned

\* A good probe keeps what the level rests on, or restores full admission.
LEMMA SucceedEarned ==
  ASSUME NEW c \in Config, NEW h \in Health, NEW t \in Nat, LowerBound(t), Earned(h, t)
  PROVE  Succeed(c, h) \in Health /\ Earned(Succeed(c, h), t)
PROOF
<1>1. CASE Recovered(c, h)
  BY <1>1, DefaultEarned DEF Succeed
<1>2. CASE ~Recovered(c, h)
  <2> DEFINE n == IF h.level = "ok" THEN 0 ELSE h.failed
  <2>1. Succeed(c, h) = [level |-> h.level, fails |-> 0, oks |-> Count(h.oks), failed |-> n]
    <3>1. h = [level |-> h.level, fails |-> h.fails, oks |-> h.oks, failed |-> h.failed]
      BY HealthShape
    <3> QED
      BY <1>2, <3>1 DEF Succeed
  <2>2. n \in 0 .. Most + Most /\ Count(h.oks) \in 0 .. Most /\ 0 \in 0 .. Most
    BY HealthShape, Counting, Largest
  <2>3. ASSUME NEW l \in {"ok", "slow", "pause"}, NEW o, NEW m \in Nat,
               NEW f \in Nat, NEW k \in Nat,
               l = "ok" => m = 0, l # "ok" => m = k,
               l = "slow" => k >= t + f, l = "pause" => k >= t + t
        PROVE  Earned([level |-> l, fails |-> 0, oks |-> o, failed |-> m], t)
    BY <2>3, HealthAssumption DEF Earned
  <2>4. Succeed(c, h) \in Health
    <3>1. h.level \in {"ok", "slow", "pause"}
      BY HealthShape
    <3> HIDE DEF n
    <3> QED
      BY <2>1, <2>2, <3>1, MakeHealth, Zenon
  <2>5. /\ h.failed \in Nat /\ h.fails \in Nat /\ n \in Nat
        /\ h.level \in {"ok", "slow", "pause"}
    BY HealthShape, Largest
  <2>6. Earned(Succeed(c, h), t)
    BY <2>1, <2>3, <2>5 DEF Earned
  <2> QED
    BY <2>4, <2>6
<1> QED
  BY <1>1, <1>2

\* A bad probe counts, and a level that gets worse has been paid for.
LEMMA FailEarned ==
  ASSUME NEW c \in Config, NEW h \in Health, NEW t \in Nat, LowerBound(t), Earned(h, t)
  PROVE  /\ Fail(c, h) \in Health /\ Earned(Fail(c, h), t)
         /\ h.level = "ok" => Fail(c, h).level # "pause"
PROOF
<1> DEFINE n == Smaller(h.failed + 1, Most + Most)
<1> DEFINE f == Count(h.fails)
<1>1. /\ h.level \in {"ok", "slow", "pause"}
      /\ h.fails \in 0 .. Most /\ h.oks \in 0 .. Most /\ h.failed \in 0 .. Most + Most
      /\ h = [level |-> h.level, fails |-> h.fails, oks |-> h.oks, failed |-> h.failed]
  BY HealthShape
<1>2. t \in Nat /\ t <= Most /\ Most \in Nat /\ t <= c.fail /\ c.fail \in Nat /\ c.fail <= Most
  BY Largest, HealthAssumption DEF LowerBound, Config
<1>3. /\ n \in 0 .. Most + Most /\ f \in 0 .. Most
      /\ h.failed >= h.fails => n >= f
      /\ h.failed >= t + h.fails => n >= t + f
      /\ h.failed >= t + t => n >= t + t
  <2>1. ASSUME NEW a \in 0 .. Most + Most, NEW b \in 0 .. Most
        PROVE  /\ Smaller(a + 1, Most + Most) \in 0 .. Most + Most
               /\ Smaller(b + 1, Most) \in 0 .. Most
               /\ a >= b => Smaller(a + 1, Most + Most) >= Smaller(b + 1, Most)
               /\ a >= t + b => Smaller(a + 1, Most + Most) >= t + Smaller(b + 1, Most)
               /\ a >= t + t => Smaller(a + 1, Most + Most) >= t + t
    BY <1>2 DEF Smaller
  <2> QED
    BY <1>1, <2>1 DEF Count
<1>4. CASE h.level # "pause" /\ f >= c.fail
  <2> DEFINE l == IF h.level = "ok" THEN "slow" ELSE "pause"
  <2>1. Fail(c, h) = [level |-> l, fails |-> 0, oks |-> 0, failed |-> n]
    BY <1>1, <1>4 DEF Fail, Worse
  <2>2. /\ l \in {"slow", "pause"}
        /\ l = "slow" => h.level = "ok"
        /\ l = "pause" => h.level = "slow"
    BY <1>1, <1>4
  <2>3. f >= t /\ n \in Nat /\ 0 \in 0 .. Most
    BY <1>2, <1>3, <1>4
  <2>4. /\ l = "slow" => n >= t + 0
        /\ l = "pause" => n >= t + t
    BY <1>2, <1>3, <2>2, <2>3 DEF Earned
  <2> HIDE DEF l, n, f
  <2>5. Fail(c, h) \in Health
    BY <1>3, <2>1, <2>2, <2>3, MakeHealth, Zenon
  <2>6. Fail(c, h).level = l /\ Fail(c, h).fails = 0 /\ Fail(c, h).failed = n
    BY <2>1
  <2>7. Earned(Fail(c, h), t)
    BY <2>2, <2>4, <2>6, Zenon DEF Earned
  <2> QED
    BY <2>2, <2>5, <2>6, <2>7
<1>5. CASE ~(h.level # "pause" /\ f >= c.fail)
  <2>1. Fail(c, h) = [level |-> h.level, fails |-> f, oks |-> 0, failed |-> n]
    BY <1>1, <1>5 DEF Fail
  <2>2. 0 \in 0 .. Most
    BY <1>2
  <2> HIDE DEF n, f
  <2>3. Fail(c, h) \in Health
    BY <1>1, <1>3, <2>1, <2>2, MakeHealth, ZenonT(40)
  <2>4. Fail(c, h).level = h.level /\ Fail(c, h).fails = f /\ Fail(c, h).failed = n
    BY <2>1
  <2>5. Earned(Fail(c, h), t)
    BY <1>3, <2>4, Zenon DEF Earned
  <2> QED
    BY <2>3, <2>4, <2>5
<1> QED
  BY <1>4, <1>5

-----------------------------------------------------------------------------
LEMMA HealthInitInv == HealthInit => HealthInv
PROOF
<1> SUFFICES ASSUME HealthInit PROVE HealthInv
  OBVIOUS
<1>1. NoProbe.health = DefaultHealth /\ NoProbe.running = FALSE
  BY DEF NoProbe
<1>2. DefaultHealth \in Health /\ \A t \in Nat : Earned(DefaultHealth, t)
  BY DefaultEarned, Largest
<1>3. NoProbe \in [running: BOOLEAN, config: Config, health: Health,
                   spent: 0 .. ProbeTimeout, stale: BOOLEAN]
  BY <1>2, Largest, HealthAssumption DEF NoProbe, Config
<1>4. HealthTypeOK
  BY <1>2, <1>3, HealthAssumption DEF HealthInit, HealthTypeOK
<1> QED
  BY <1>1, <1>2, <1>4 DEF HealthInit, HealthInv, ProbeFresh

\* A step of the probe that ends it, with what it writes.
LEMMA ProbeEndInv ==
  ASSUME HealthInv, ProbeEnd
  PROVE  /\ HealthInv'
         /\ health.level = "ok" /\ health'.level = "pause" => probe.stale
PROOF
<1> DEFINE good == Succeed(probe.config, probe.health)
<1> DEFINE bad == Fail(probe.config, probe.health)
<1>1. /\ probe.running /\ probe' = NoProbe
      /\ health' = good \/ health' = bad
      /\ age' = Smaller(probe.spent, Interval)
      /\ UNCHANGED <<config, origin, lost>>
  BY DEF ProbeEnd
<1>2. PICK t \in Nat : LowerBound(t)
  BY HealthAssumption DEF LowerBound
<1>3. /\ probe.config \in Config /\ probe.health \in Health
      /\ probe.spent \in 0 .. ProbeTimeout
  BY DEF HealthInv, HealthTypeOK
<1>4. \A u \in Nat : LowerBound(u) => Earned(probe.health, u)
  BY DEF HealthInv
<1>5. /\ good \in Health /\ bad \in Health
      /\ probe.health.level = "ok" => good.level # "pause" /\ bad.level # "pause"
  <2>1. good \in Health /\ bad \in Health
    BY <1>2, <1>3, <1>4, SucceedEarned, FailEarned
  <2>2. ASSUME probe.health.level = "ok" PROVE bad.level # "pause"
    BY <1>2, <1>3, <1>4, <2>2, FailEarned
  <2>3. ASSUME probe.health.level = "ok" PROVE good.level # "pause"
    BY <2>3, <1>3 DEF Succeed, Recovered, DefaultHealth, Health
  <2> QED
    BY <2>1, <2>2, <2>3
<1>6. \A u \in Nat : LowerBound(u) => Earned(good, u) /\ Earned(bad, u)
  BY <1>3, <1>4, SucceedEarned, FailEarned
<1> HIDE DEF good, bad
<1>7. /\ NoProbe.health = DefaultHealth /\ NoProbe.running = FALSE
      /\ NoProbe \in [running: BOOLEAN, config: Config, health: Health,
                     spent: 0 .. ProbeTimeout, stale: BOOLEAN]
  BY DefaultEarned, Largest, HealthAssumption DEF NoProbe, Config
<1>8. age' \in 0 .. Interval
  BY <1>1, <1>3, HealthAssumption DEF Smaller
<1>9. HealthTypeOK'
  BY <1>1, <1>5, <1>7, <1>8 DEF HealthInv, HealthTypeOK
<1>10. \A u \in Nat : LowerBound(u) => Earned(health, u)' /\ Earned(probe.health, u)'
  BY <1>1, <1>6, <1>7, DefaultEarned
<1>11. ProbeFresh'
  BY <1>1, <1>7 DEF ProbeFresh
<1>12. health.level = "ok" /\ health'.level = "pause" => probe.stale
  BY <1>1, <1>5 DEF HealthInv, ProbeFresh
<1> QED
  BY <1>9, <1>10, <1>11, <1>12 DEF HealthInv, LowerBound

\* The operator's step: a probe in flight is overtaken when the state is reset.
LEMMA SetHealthConfigInv ==
  ASSUME HealthInv, NEW c \in Config, SetHealthConfig(c)
  PROVE  HealthInv' /\ (health.level = "ok" => health'.level = "ok")
PROOF
<1>1. /\ config' = c
      /\ health' = IF c.enabled THEN health ELSE DefaultHealth
      /\ age' = IF c.enabled THEN age ELSE Interval
      /\ probe' = [probe EXCEPT !.stale = @ \/ (probe.running /\ ~c.enabled)]
      /\ UNCHANGED <<origin, lost>>
  BY DEF SetHealthConfig
<1>2. c.enabled \in BOOLEAN
  BY DEF Config
<1>3. DefaultHealth \in Health /\ DefaultHealth.level = "ok"
  BY DefaultEarned, Largest DEF DefaultHealth
<1>4. probe \in [running: BOOLEAN, config: Config, health: Health,
                spent: 0 .. ProbeTimeout, stale: BOOLEAN]
  BY DEF HealthInv, HealthTypeOK
<1>5. /\ probe'.health = probe.health /\ probe'.running = probe.running
      /\ probe'.stale = (probe.stale \/ (probe.running /\ ~c.enabled))
      /\ probe' \in [running: BOOLEAN, config: Config, health: Health,
                     spent: 0 .. ProbeTimeout, stale: BOOLEAN]
  BY <1>1, <1>4
<1>6. HealthTypeOK'
  BY <1>1, <1>2, <1>3, <1>5, HealthAssumption DEF HealthInv, HealthTypeOK
<1>7. \A u \in Nat : LowerBound(u) => Earned(health, u)' /\ Earned(probe.health, u)'
  BY <1>1, <1>5, DefaultEarned DEF HealthInv
<1>8. ProbeFresh'
  BY <1>1, <1>5 DEF HealthInv, ProbeFresh
<1> QED
  BY <1>1, <1>3, <1>6, <1>7, <1>8 DEF HealthInv, LowerBound

\* The steps that leave the stored level alone.
LEMMA HealthOtherInv ==
  ASSUME HealthInv, ProbeBegin \/ Lose \/ OriginChanges \/ HealthTick \/ UNCHANGED healthVars
  PROVE  HealthInv' /\ health' = health
PROOF
<1> DEFINE Probe == [running: BOOLEAN, config: Config, health: Health,
                     spent: 0 .. ProbeTimeout, stale: BOOLEAN]
<1>1. NoProbe \in Probe /\ NoProbe.running = FALSE /\ NoProbe.health = DefaultHealth
  BY DefaultEarned, Largest, HealthAssumption DEF NoProbe, Config
<1>2. DefaultHealth \in Health /\ \A u \in Nat : Earned(DefaultHealth, u)
  BY DefaultEarned, Largest
<1>3. probe \in Probe /\ health \in Health /\ config \in Config /\ age \in 0 .. Interval
  BY DEF HealthInv, HealthTypeOK
<1>4. \A u \in Nat : LowerBound(u) => Earned(health, u) /\ Earned(probe.health, u)
  BY DEF HealthInv
<1>5. CASE ProbeBegin
  <2>1. /\ probe' = [NoProbe EXCEPT !.running = TRUE, !.config = config, !.health = health]
        /\ UNCHANGED <<config, health, age, origin, lost>>
    BY <1>5 DEF ProbeBegin
  <2>2. probe'.health = health /\ probe' \in Probe
    BY <2>1, <1>1, <1>3
  <2> QED
    BY <2>1, <2>2, <1>4 DEF HealthInv, HealthTypeOK, ProbeFresh, LowerBound
<1>6. CASE Lose
  <2>1. /\ probe' = NoProbe /\ lost' = lost + 1 /\ lost < MaxLost
        /\ UNCHANGED <<config, health, age, origin>>
    BY <1>6 DEF Lose
  <2>2. lost' \in 0 .. MaxLost
    BY <2>1, HealthAssumption DEF HealthInv, HealthTypeOK
  <2> QED
    BY <2>1, <2>2, <1>1, <1>2, <1>4 DEF HealthInv, HealthTypeOK, ProbeFresh, LowerBound
<1>7. CASE OriginChanges
  BY <1>7 DEF OriginChanges, HealthInv, HealthTypeOK, ProbeFresh, LowerBound, Earned
<1>8. CASE HealthTick
  <2>1. /\ probe.running => probe.spent < ProbeTimeout
        /\ age' = Smaller(age + 1, Interval)
        /\ probe' = IF probe.running THEN [probe EXCEPT !.spent = @ + 1] ELSE probe
        /\ UNCHANGED <<config, health, origin, lost>>
    BY <1>8 DEF HealthTick
  <2>2. age' \in 0 .. Interval
    BY <2>1, <1>3, HealthAssumption DEF Smaller
  <2>3. /\ probe'.health = probe.health /\ probe'.running = probe.running
        /\ probe'.stale = probe.stale /\ probe' \in Probe
    <3>1. probe.running => probe.spent + 1 \in 0 .. ProbeTimeout
      BY <2>1, <1>3, HealthAssumption
    <3> QED
      BY <2>1, <1>3, <3>1
  <2> QED
    BY <2>1, <2>2, <2>3, <1>4 DEF HealthInv, HealthTypeOK, ProbeFresh, LowerBound
<1>9. CASE UNCHANGED healthVars
  BY <1>9 DEF healthVars, HealthInv, HealthTypeOK, ProbeFresh, LowerBound, Earned
<1> QED
  BY <1>5, <1>6, <1>7, <1>8, <1>9

\* Every step keeps the invariant, and does not jump from ok to a pause.
LEMMA HealthStepInv ==
  ASSUME HealthInv, [HealthNext]_healthVars
  PROVE  /\ HealthInv'
         /\ health.level = "ok" /\ health'.level = "pause" => probe.stale
PROOF
<1>1. CASE \E c \in Config : SetHealthConfig(c)
  BY <1>1, SetHealthConfigInv
<1>2. CASE ProbeEnd
  BY <1>2, ProbeEndInv
<1>3. CASE ProbeBegin \/ Lose \/ OriginChanges \/ HealthTick \/ UNCHANGED healthVars
  BY <1>3, HealthOtherInv
<1> QED
  BY <1>1, <1>2, <1>3 DEF HealthNext

LEMMA HealthInductive == HealthSpec => []HealthInv
PROOF
  BY HealthInitInv, HealthStepInv, PTL DEF HealthSpec

\* For every set of thresholds and whatever probes are overtaken or lost, a
\* slowed room rests on at least the smallest threshold of failed probes, and a
\* paused one on twice as many.
THEOREM LevelAlwaysEarned == HealthSpec => []LevelEarned
PROOF
<1>1. HealthInv => LevelEarned
  <2> SUFFICES ASSUME HealthInv, NEW t \in Threshold, \A u \in Threshold : t <= u
               PROVE  /\ health.level = "slow" => health.failed >= t
                      /\ health.level = "pause" => health.failed >= t + t
    BY DEF LevelEarned
  <2>1. Earned(health, t) /\ health \in Health
    BY HealthAssumption DEF HealthInv, LowerBound, HealthTypeOK
  <2>2. /\ health.fails \in Nat /\ health.failed \in Nat /\ t \in Nat
    BY <2>1, HealthShape, Largest, HealthAssumption
  <2> QED
    BY <2>1, <2>2 DEF Earned
<1> QED
  BY HealthInductive, <1>1, PTL

\* No probe takes a room from full admission to a pause at once, unless the
\* operator switched the probe off while that probe was in flight.
THEOREM AlwaysGradual == HealthSpec => Gradual
PROOF
<1>1. HealthInv /\ [HealthNext]_healthVars =>
        [health.level = "ok" /\ health'.level = "pause" => probe.stale]_healthVars
  BY HealthStepInv
<1> QED
  BY HealthInductive, <1>1, PTL DEF HealthSpec, Gradual

-----------------------------------------------------------------------------
(***************************************************************************)
(* TrafficBuckets: no bucket ever shows more events than happened, and     *)
(* none shows fewer before an older bucket takes the place of the open     *)
(* one, for every width, retention and number of events, and however late  *)
(* the instant of an alarm is.                                             *)
(***************************************************************************)
Within(c, j, a) == c.joins <= j /\ c.admits <= a

\* What a stored state [open, closed] shows of a bucket.
Shows(s, t) == IF s.open.t = t THEN Add(s.closed[t], s.open.n) ELSE s.closed[t]

Storage == [open: [t: Bucket \cup {0}, n: Counts], closed: [Bucket -> Counts]]

\* The instants an event may be recorded for.
BucketInstant == Width .. MaxClock

\* What is shown of a bucket is what happened, by the history of joins and admissions.
Keeps(s, h, g, t) == Shows(s, t) = [joins |-> CountIn(h, t), admits |-> g[t]]

BucketsInv ==
  /\ Stored \in Storage /\ reopened \in BOOLEAN
  /\ clock \in BucketInstant /\ alarm \in BucketInstant \cup {0} /\ alarm <= clock
  /\ joined \in Seq(Bucket) /\ seated \in [Bucket -> Nat] /\ inflow = Len(joined)
  /\ \A t \in Bucket : Within(Shows(Stored, t), CountIn(joined, t), seated[t])
  /\ ~reopened => \A t \in Bucket : Retained(t) => Keeps(Stored, joined, seated, t)

-----------------------------------------------------------------------------
LEMMA AlignBucket == \A t \in BucketInstant : Align(t) \in Bucket
PROOF
  BY DEF BucketInstant, Bucket

\* A bucket is an instant, and none is the first one.
LEMMA BucketNats ==
  /\ Bucket \subseteq Nat \ {0} /\ BucketInstant \subseteq Nat /\ Retention \in Nat
PROOF
<1>1. Width \in Nat /\ Width > 0 /\ MaxClock \in Nat /\ Retention \in Nat
  BY TrafficAssumption
<1>2. ASSUME NEW i \in Width .. MaxClock
      PROVE  Align(i) \in Nat \ {0}
  <2>1. i \in Nat /\ i >= Width
    BY <1>1
  <2> DEFINE q == i \div Width
  <2>2. q \in Nat /\ q >= 1
    BY <1>1, <2>1
  <2> HIDE DEF q
  <2>3. q * Width \in Nat /\ q * Width >= Width
    BY <1>1, <2>2
  <2> QED
    BY <1>1, <2>3 DEF Align, q
<1> QED
  BY <1>1, <1>2 DEF Bucket, BucketInstant

LEMMA Sums ==
  ASSUME NEW a \in Counts, NEW b \in Counts
  PROVE  /\ Add(a, b) \in Counts
         /\ Add(a, b).joins = a.joins + b.joins /\ Add(a, b).admits = a.admits + b.admits
         /\ a.joins \in Nat /\ a.admits \in Nat /\ b.joins \in Nat /\ b.admits \in Nat
PROOF
  BY DEF Add, Counts

LEMMA EmptyCounts == Empty \in Counts /\ Empty.joins = 0 /\ Empty.admits = 0
PROOF
  BY DEF Empty, Counts

LEMMA AddEmpty ==
  ASSUME NEW c \in Counts
  PROVE  Add(c, Empty) = c
PROOF
<1>1. c = [joins |-> c.joins, admits |-> c.admits] /\ c.joins \in Nat /\ c.admits \in Nat
  BY DEF Counts
<1>2. c.joins + 0 = c.joins /\ c.admits + 0 = c.admits
  BY <1>1
<1>3. Add(c, Empty) = [joins |-> c.joins + 0, admits |-> c.admits + 0]
  BY EmptyCounts DEF Add
<1> QED
  BY <1>1, <1>2, <1>3, Zenon

LEMMA AddAgain ==
  ASSUME NEW a \in Counts, NEW b \in Counts, NEW c \in Counts
  PROVE  Add(a, Add(b, c)) = Add(Add(a, b), c)
PROOF
<1>1. /\ a.joins \in Nat /\ b.joins \in Nat /\ c.joins \in Nat
      /\ a.admits \in Nat /\ b.admits \in Nat /\ c.admits \in Nat
  BY DEF Counts
<1>2. /\ a.joins + (b.joins + c.joins) = (a.joins + b.joins) + c.joins
      /\ a.admits + (b.admits + c.admits) = (a.admits + b.admits) + c.admits
  BY <1>1
<1> QED
  BY <1>2 DEF Add

\* A join more in a history is a join more in its bucket, and in no other.
LEMMA OneMore ==
  ASSUME NEW h \in Seq(Bucket), NEW b \in Bucket
  PROVE  /\ Append(h, b) \in Seq(Bucket) /\ Len(Append(h, b)) = Len(h) + 1
         /\ \A t \in Bucket : /\ CountIn(h, t) \in Nat
                              /\ CountIn(Append(h, b), t) =
                                   IF t = b THEN CountIn(h, t) + 1 ELSE CountIn(h, t)
PROOF
<1> DEFINE g == Append(h, b)
           n == Len(h) + 1
           At(s, t) == {i \in DOMAIN s : s[i] = t}
<1>1. /\ g \in Seq(Bucket) /\ Len(g) = n /\ DOMAIN h = 1 .. Len(h) /\ DOMAIN g = 1 .. n
      /\ g[n] = b /\ (\A i \in 1 .. Len(h) : g[i] = h[i]) /\ Len(h) \in Nat
  OBVIOUS
<1> HIDE DEF g
<1>2. ASSUME NEW t \in Bucket
      PROVE  CountIn(h, t) \in Nat /\ CountIn(g, t) = IF t = b THEN CountIn(h, t) + 1 ELSE CountIn(h, t)
  <2>1. IsFiniteSet(At(h, t)) /\ Cardinality(At(h, t)) \in Nat
    <3>1. IsFiniteSet(1 .. Len(h)) /\ At(h, t) \subseteq 1 .. Len(h)
      BY <1>1, FS_Interval
    <3> QED
      BY <3>1, FS_Subset, FS_CardinalityType
  <2>2. n \notin At(h, t)
    BY <1>1
  <2>3. CASE t = b
    <3>1. At(g, t) = At(h, t) \cup {n}
      BY <1>1, <2>3
    <3> QED
      BY <2>1, <2>2, <2>3, <3>1, FS_AddElement DEF CountIn
  <2>4. CASE t # b
    <3>1. At(g, t) = At(h, t)
      BY <1>1, <2>4
    <3> QED
      BY <2>1, <2>4, <3>1 DEF CountIn
  <2> QED
    BY <2>3, <2>4
<1> QED
  BY <1>1, <1>2 DEF g

\* A bucket after a flush, from what it showed before.
LEMMA FlushShows ==
  ASSUME NEW s \in Storage, NEW now \in BucketInstant
  PROVE  /\ Flush(s, now) \in Storage
         /\ \A t \in Bucket : \/ Shows(Flush(s, now), t) = Shows(s, t)
                              \/ Shows(Flush(s, now), t) = s.closed[t]
                              \/ Shows(Flush(s, now), t) = Empty
         /\ \A t \in Bucket : t + Retention >= now => Shows(Flush(s, now), t) = Shows(s, t)
PROOF
<1> DEFINE b == Align(now)
<1>1. b \in Bucket /\ Empty \in Counts
  BY AlignBucket, EmptyCounts
<1>2. /\ s.open.t \in Bucket \cup {0} /\ s.open.n \in Counts
      /\ s.closed \in [Bucket -> Counts]
      /\ s = [open |-> s.open, closed |-> s.closed]
      /\ s.open = [t |-> s.open.t, n |-> s.open.n]
  BY DEF Storage
<1>3. Opened(b) \in [t: Bucket \cup {0}, n: Counts] /\ Opened(b).t = b /\ Opened(b).n = Empty
  BY <1>1 DEF Opened
<1> HIDE DEF b
<1>4. CASE s.open.t = 0
  <2>1. Flush(s, now) = [open |-> Opened(b), closed |-> s.closed]
    <3>1. Flush(s, now) = [s EXCEPT !.open = Opened(b)]
      BY <1>4 DEF Flush, b
    <3> QED
      BY <1>2, <3>1
  <2>2. \A t \in Bucket : s.closed[t] \in Counts /\ Add(s.closed[t], Empty) = s.closed[t]
    BY <1>2, AddEmpty
  <2>3. Flush(s, now) \in Storage
    BY <1>2, <1>3, <2>1 DEF Storage
  <2>4. \A t \in Bucket : Shows(Flush(s, now), t) = s.closed[t]
    BY <1>3, <2>1, <2>2 DEF Shows
  <2>5. \A t \in Bucket : Shows(s, t) = s.closed[t]
    BY <1>4, BucketNats DEF Shows
  <2> QED
    BY <2>3, <2>4, <2>5
<1>5. CASE s.open.t # 0 /\ s.open.t >= b
  <2>1. Flush(s, now) = s
    BY <1>5 DEF Flush, b
  <2> QED
    BY <2>1
<1>6. CASE s.open.t # 0 /\ ~(s.open.t >= b)
  <2> DEFINE table == Pruned(Merged(s.closed, s.open), now)
  <2>1. Flush(s, now) = [open |-> Opened(b), closed |-> table]
    BY <1>6 DEF Flush, b
  <2>2. /\ table \in [Bucket -> Counts]
        /\ \A t \in Bucket : table[t] = IF t + Retention < now THEN Empty ELSE Shows(s, t)
    <3>1. /\ Merged(s.closed, s.open) \in [Bucket -> Counts]
          /\ \A t \in Bucket : Merged(s.closed, s.open)[t] = Shows(s, t)
      <4>1. s.open.t \in Bucket
        BY <1>2, <1>6
      <4>2. Add(s.closed[s.open.t], s.open.n) \in Counts
        BY <1>2, <4>1, Sums
      <4> QED
        BY <1>2, <4>1, <4>2 DEF Merged, Shows
    <3> QED
      BY <1>1, <3>1 DEF Pruned
  <2> HIDE DEF table
  <2>3. Flush(s, now) \in Storage
    BY <1>3, <2>1, <2>2 DEF Storage
  <2>4. ASSUME NEW t \in Bucket
        PROVE  Shows(Flush(s, now), t) = table[t]
    <3>1. Add(table[t], Empty) = table[t]
      BY <2>2, AddEmpty
    <3> QED
      BY <1>3, <2>1, <3>1 DEF Shows
  <2>5. \A t \in Bucket : t + Retention >= now => ~(t + Retention < now)
    BY BucketNats
  <2> QED
    BY <2>2, <2>3, <2>4, <2>5
<1> QED
  BY <1>4, <1>5, <1>6

\* A flush shows no event that was not shown before.
LEMMA FlushWithin ==
  ASSUME NEW s \in Storage, NEW now \in BucketInstant, NEW t \in Bucket,
         NEW j \in Nat, NEW a \in Nat, Within(Shows(s, t), j, a)
  PROVE  /\ Flush(s, now) \in Storage
         /\ Within(Shows(Flush(s, now), t), j, a)
PROOF
<1>1. Flush(s, now) \in Storage
  BY FlushShows
<1>2. s.closed[t] \in Counts /\ s.open.n \in Counts /\ Empty \in Counts
  BY EmptyCounts DEF Storage
<1>3. Shows(s, t) \in Counts
  BY <1>2, Sums DEF Shows
<1>4. Within(s.closed[t], j, a)
  <2>1. CASE s.open.t = t
    <3>1. /\ s.closed[t].joins + s.open.n.joins <= j
          /\ s.closed[t].admits + s.open.n.admits <= a
      BY <1>2, <2>1, Sums DEF Shows, Within
    <3>2. /\ s.closed[t].joins \in Nat /\ s.open.n.joins \in Nat
          /\ s.closed[t].admits \in Nat /\ s.open.n.admits \in Nat
      BY <1>2, Sums
    <3> QED
      BY <3>1, <3>2 DEF Within
  <2>2. CASE s.open.t # t
    BY <2>2 DEF Shows
  <2> QED
    BY <2>1, <2>2
<1>5. Within(Empty, j, a)
  BY EmptyCounts DEF Within
<1> QED
  BY <1>1, <1>2, <1>3, <1>4, <1>5, FlushShows

\* Recording adds the event to its bucket and nothing to any other.
LEMMA RecordWithin ==
  ASSUME NEW s \in Storage, NEW now \in BucketInstant, NEW n \in Counts, NEW t \in Bucket,
         NEW j \in Nat, NEW a \in Nat, Within(Shows(s, t), j, a)
  PROVE  /\ Record(s, now, n) \in Storage
         /\ t # Align(now) => Within(Shows(Record(s, now, n), t), j, a)
         /\ t = Align(now) =>
              Within(Shows(Record(s, now, n), t), j + n.joins, a + n.admits)
PROOF
<1> DEFINE f == Flush(s, now)
<1> DEFINE b == Align(now)
<1> DEFINE o == IF f.open.t = b THEN f.open ELSE Opened(b)
<1> DEFINE m == Add(o.n, n)
<1>1. f \in Storage /\ Within(Shows(f, t), j, a)
  BY FlushWithin
<1>2. b \in Bucket /\ Empty \in Counts
  BY AlignBucket, EmptyCounts
<1> HIDE DEF f
<1>3. f.closed[t] \in Counts /\ f.open.n \in Counts /\ f.open.t \in Bucket \cup {0}
  BY <1>1 DEF Storage
<1>4. /\ o \in [t: Bucket \cup {0}, n: Counts] /\ o.t = b
      /\ o.n = (IF f.open.t = b THEN f.open.n ELSE Empty)
  BY <1>1, <1>2 DEF Opened, Storage
<1>5. m \in Counts /\ m.joins = o.n.joins + n.joins /\ m.admits = o.n.admits + n.admits
  BY <1>4, Sums
<1>6. Record(s, now, n) = [f EXCEPT !.open = [o EXCEPT !.n = Add(@, n)]]
  BY DEF Record, f
<1> HIDE DEF o
<1>7. Record(s, now, n) = [open |-> [t |-> b, n |-> m], closed |-> f.closed]
  <2>1. f = [open |-> f.open, closed |-> f.closed]
    BY <1>1 DEF Storage
  <2>2. o = [t |-> b, n |-> o.n]
    BY <1>4
  <2>3. [o EXCEPT !.n = Add(@, n)] = [t |-> b, n |-> m]
    BY <2>2
  <2> QED
    BY <1>6, <2>1, <2>3
<1> HIDE DEF b, m
<1>8. Record(s, now, n) \in Storage
  BY <1>1, <1>2, <1>5, <1>7 DEF Storage
<1>9. Shows(Record(s, now, n), t) = IF b = t THEN Add(f.closed[t], m) ELSE f.closed[t]
  BY <1>7 DEF Shows
<1>10. /\ f.closed[t].joins \in Nat /\ f.closed[t].admits \in Nat
       /\ f.open.n.joins \in Nat /\ f.open.n.admits \in Nat
       /\ n.joins \in Nat /\ n.admits \in Nat
  BY <1>3, Sums
<1>11. Within(f.closed[t], j, a)
  <2>1. CASE f.open.t = t
    <3>1. /\ f.closed[t].joins + f.open.n.joins <= j
          /\ f.closed[t].admits + f.open.n.admits <= a
      BY <1>1, <1>3, <2>1, Sums DEF Shows, Within
    <3> QED
      BY <1>10, <3>1 DEF Within
  <2>2. CASE f.open.t # t
    BY <1>1, <2>2 DEF Shows
  <2> QED
    BY <2>1, <2>2
<1>12. CASE t # b
  BY <1>8, <1>9, <1>11, <1>12 DEF b
<1>13. CASE t = b
  <2>1. /\ Shows(Record(s, now, n), t).joins = f.closed[t].joins + m.joins
        /\ Shows(Record(s, now, n), t).admits = f.closed[t].admits + m.admits
    <3>1. Shows(Record(s, now, n), t) = Add(f.closed[t], m)
      BY <1>9, <1>13
    <3>2. /\ Add(f.closed[t], m).joins = f.closed[t].joins + m.joins
          /\ Add(f.closed[t], m).admits = f.closed[t].admits + m.admits
      BY <1>3, <1>5, Sums, Zenon
    <3> QED
      BY <3>1, <3>2, Zenon
  <2>2. CASE f.open.t = b
    <3>1. /\ f.closed[t].joins + f.open.n.joins <= j
          /\ f.closed[t].admits + f.open.n.admits <= a
      BY <1>1, <1>3, <1>13, <2>2, Sums DEF Shows, Within
    <3>2. m.joins = f.open.n.joins + n.joins /\ m.admits = f.open.n.admits + n.admits
      BY <1>4, <1>5, <2>2
    <3>3. /\ f.closed[t].joins + m.joins <= j + n.joins
          /\ f.closed[t].admits + m.admits <= a + n.admits
      BY <1>10, <3>1, <3>2
    <3> QED
      BY <1>8, <1>13, <2>1, <3>3 DEF Within, b
  <2>3. CASE f.open.t # b
    <3>1. m.joins = 0 + n.joins /\ m.admits = 0 + n.admits
      BY <1>4, <1>5, <2>3, EmptyCounts
    <3>2. f.closed[t].joins <= j /\ f.closed[t].admits <= a
      BY <1>11 DEF Within
    <3>3. /\ f.closed[t].joins + m.joins <= j + n.joins
          /\ f.closed[t].admits + m.admits <= a + n.admits
      BY <1>10, <3>1, <3>2
    <3> QED
      BY <1>8, <1>13, <2>1, <3>3 DEF Within, b
  <2> QED
    BY <2>2, <2>3
<1> QED
  BY <1>12, <1>13

\* Recording loses nothing of a bucket that is kept, unless an older bucket takes the
\* place of the open one.
LEMMA RecordKeeps ==
  ASSUME NEW s \in Storage, NEW now \in BucketInstant, NEW n \in Counts, NEW t \in Bucket,
         t + Retention >= now, ~(Record(s, now, n).open.t < s.open.t)
  PROVE  Shows(Record(s, now, n), t) = IF t = Align(now) THEN Add(Shows(s, t), n) ELSE Shows(s, t)
PROOF
<1> DEFINE f == Flush(s, now)
           b == Align(now)
           o == IF f.open.t = b THEN f.open ELSE Opened(b)
           m == Add(o.n, n)
<1>1. f \in Storage /\ Shows(f, t) = Shows(s, t)
  BY FlushShows
<1>2. b \in Bucket /\ b \in Nat /\ s.open.t \in Nat
  <2>1. Bucket \subseteq Nat
    BY BucketNats
  <2>2. b \in Bucket
    BY AlignBucket
  <2>3. s.open.t \in Bucket \cup {0}
    <3> HIDE DEF b, o, m, f
    <3> QED
      BY DEF Storage
  <2>4. \A x \in Bucket \cup {0} : x \in Nat
    BY <2>1
  <2> HIDE DEF b, o, m, f
  <2> QED
    BY <2>2, <2>3, <2>4, Zenon
<1>3. Record(s, now, n) = [f EXCEPT !.open = [o EXCEPT !.n = Add(@, n)]]
  BY DEF Record
<1>4. f.open.t = b \/ (s.open.t > b /\ f = s)
  <2>1. CASE s.open.t = 0
    BY <2>1 DEF Flush, Opened, Storage
  <2>2. CASE s.open.t # 0 /\ s.open.t >= b
    <3>1. f = s
      BY <2>2 DEF Flush
    <3> QED
      BY <1>2, <2>2, <3>1
  <2>3. CASE s.open.t # 0 /\ ~(s.open.t >= b)
    BY <2>3 DEF Flush, Opened
  <2> QED
    BY <2>1, <2>2, <2>3
<1> HIDE DEF f
<1>5. o \in [t: Bucket \cup {0}, n: Counts] /\ o.t = b
  BY <1>1, <1>2, EmptyCounts DEF Opened, Storage
<1>6. Record(s, now, n) = [open |-> [t |-> b, n |-> m], closed |-> f.closed]
  <2> HIDE DEF o
  <2>1. f = [open |-> f.open, closed |-> f.closed]
    BY <1>1 DEF Storage
  <2>2. o = [t |-> b, n |-> o.n]
    BY <1>5
  <2>3. [o EXCEPT !.n = Add(@, n)] = [t |-> b, n |-> m]
    BY <2>2
  <2> QED
    BY <1>3, <2>1, <2>3
<1>7. f.open.t = b
  <2>1. Record(s, now, n).open.t = b
    BY <1>6
  <2> QED
    BY <1>2, <1>4, <2>1
<1>8. m = Add(f.open.n, n)
  BY <1>7
<1> HIDE DEF b, o, m
<1>9. Shows(Record(s, now, n), t) = IF b = t THEN Add(f.closed[t], m) ELSE f.closed[t]
  BY <1>6 DEF Shows
<1>10. CASE t = b
  <2>1. f.closed[t] \in Counts /\ f.open.n \in Counts
    BY <1>1 DEF Storage
  <2>2. Add(f.closed[t], m) = Add(Add(f.closed[t], f.open.n), n)
    BY <1>8, <2>1, AddAgain
  <2>3. Add(f.closed[t], f.open.n) = Shows(s, t)
    BY <1>1, <1>7, <1>10 DEF Shows
  <2> QED
    BY <1>9, <1>10, <2>2, <2>3 DEF b
<1>11. CASE t # b
  <2>1. f.closed[t] = Shows(s, t)
    BY <1>1, <1>7, <1>11 DEF Shows
  <2> QED
    BY <1>9, <1>11, <2>1 DEF b
<1> QED
  BY <1>10, <1>11

-----------------------------------------------------------------------------
LEMMA BucketsInitInv == BucketsInit => BucketsInv
PROOF
<1> SUFFICES ASSUME BucketsInit PROVE BucketsInv
  OBVIOUS
<1>1. Stored \in Storage
  BY EmptyCounts DEF BucketsInit, Stored, Storage, Opened
<1>2. clock \in BucketInstant /\ alarm = 0 /\ alarm <= clock /\ reopened = FALSE
  BY TrafficAssumption DEF BucketsInit, BucketInstant
<1>3. joined = <<>> /\ joined \in Seq(Bucket) /\ inflow = Len(joined)
  BY DEF BucketsInit
<1>4. ASSUME NEW t \in Bucket
      PROVE  /\ Within(Shows(Stored, t), CountIn(joined, t), seated[t])
             /\ Keeps(Stored, joined, seated, t)
  <2>1. Stored.open.n = Empty /\ Stored.closed[t] = Empty
    BY DEF BucketsInit, Stored, Opened
  <2>2. Shows(Stored, t) = Empty
    BY <2>1, AddEmpty, EmptyCounts DEF Shows
  <2>3. {i \in DOMAIN joined : joined[i] = t} = {}
    BY <1>3
  <2>4. CountIn(joined, t) = 0 /\ seated[t] = 0
    BY <2>3, FS_EmptySet DEF BucketsInit, CountIn
  <2> QED
    BY <2>2, <2>4, EmptyCounts DEF Within, Keeps, Empty
<1> QED
  BY <1>1, <1>2, <1>3, <1>4 DEF BucketsInit, BucketsInv

\* What a stored state becomes is what the tables then hold.
LEMMA StoreStored ==
  ASSUME NEW s \in Storage, Store(s)
  PROVE  /\ Stored' = s
         /\ reopened' = (reopened \/ s.open.t < Stored.open.t)
PROOF
  BY DEF Store, Stored, Storage

\* An event that is recorded is counted once, into the bucket of its instant.
LEMMA RecordedInv ==
  ASSUME BucketsInv, NEW now \in BucketInstant, now <= clock, NEW n \in Counts,
         n.joins \in {0, 1}, n.joins = 0 \/ now = clock, Recorded(now, n),
         clock' = clock, alarm' \in {alarm, 0}
  PROVE  BucketsInv'
PROOF
<1> DEFINE b == Align(clock)
<1> DEFINE e == Align(now)
<1>1. b \in Bucket /\ e \in Bucket /\ n.joins \in Nat /\ n.admits \in Nat
  BY AlignBucket DEF BucketsInv, Counts
<1>2. /\ Stored \in Storage
      /\ joined \in Seq(Bucket) /\ seated \in [Bucket -> Nat] /\ inflow = Len(joined)
  BY DEF BucketsInv
<1>3. /\ Store(Record(Stored, now, n))
      /\ inflow' = inflow + n.joins
      /\ joined' = (IF n.joins = 0 THEN joined ELSE Append(joined, b))
      /\ seated' = [seated EXCEPT ![e] = @ + n.admits]
  BY DEF Recorded
<1>4. Record(Stored, now, n) \in Storage
  <2>1. \A t \in Bucket : CountIn(joined, t) \in Nat /\ seated[t] \in Nat
    BY <1>1, <1>2, OneMore
  <2> QED
    BY <1>1, <1>2, <2>1, RecordWithin DEF BucketsInv
<1>5. /\ Stored' = Record(Stored, now, n)
      /\ reopened' = (reopened \/ Record(Stored, now, n).open.t < Stored.open.t)
  BY <1>3, <1>4, StoreStored
<1>6. /\ joined' \in Seq(Bucket) /\ Len(joined') = Len(joined) + n.joins
      /\ \A t \in Bucket :
           /\ CountIn(joined, t) \in Nat
           /\ CountIn(joined', t) = IF t = b THEN CountIn(joined, t) + n.joins ELSE CountIn(joined, t)
  <2>1. \A t \in Bucket : CountIn(joined, t) \in Nat
    BY <1>1, <1>2, OneMore
  <2>2. CASE n.joins = 0
    BY <1>2, <1>3, <2>1, <2>2
  <2>3. CASE n.joins # 0
    <3>1. n.joins = 1 /\ joined' = Append(joined, b)
      BY <1>3, <2>3
    <3> QED
      BY <1>1, <1>2, <2>1, <3>1, OneMore
  <2> QED
    BY <2>2, <2>3
<1>7. seated' \in [Bucket -> Nat]
      /\ \A t \in Bucket : seated'[t] = IF t = e THEN seated[t] + n.admits ELSE seated[t]
  BY <1>1, <1>2, <1>3
<1>8. n.joins = 0 \/ b = e
  OBVIOUS
<1>9. ASSUME NEW t \in Bucket
      PROVE  Within(Shows(Stored', t), CountIn(joined', t), seated'[t])
  <2>1. CountIn(joined, t) \in Nat /\ seated[t] \in Nat
        /\ Within(Shows(Stored, t), CountIn(joined, t), seated[t])
    BY <1>2, <1>6 DEF BucketsInv
  <2>2. /\ t # e => Within(Shows(Stored', t), CountIn(joined, t), seated[t])
        /\ t = e => Within(Shows(Stored', t), CountIn(joined, t) + n.joins, seated[t] + n.admits)
    BY <1>2, <1>5, <2>1, RecordWithin
  <2>3. CASE n.joins = 0
    <3>1. CountIn(joined', t) = CountIn(joined, t) /\ CountIn(joined, t) + n.joins = CountIn(joined, t)
      BY <2>1, <1>6, <2>3
    <3> QED
      BY <1>7, <2>2, <3>1
  <2>4. CASE b = e
    BY <1>6, <1>7, <2>2, <2>4
  <2> QED
    BY <1>8, <2>3, <2>4
<1>10. ASSUME ~reopened', NEW t \in Bucket, Retained(t)
       PROVE  Keeps(Stored', joined', seated', t)
  <2>1. ~reopened /\ ~(Record(Stored, now, n).open.t < Stored.open.t)
    BY <1>5, <1>10
  <2>2. t + Retention >= now
    <3>1. t \in Nat /\ now \in Nat /\ clock \in Nat /\ Retention \in Nat
      BY BucketNats DEF BucketsInv
    <3> QED
      BY <1>10, <3>1 DEF Retained
  <2>3. Shows(Stored', t) = IF t = e THEN Add(Shows(Stored, t), n) ELSE Shows(Stored, t)
    BY <1>2, <1>5, <2>1, <2>2, RecordKeeps
  <2>4. Shows(Stored, t) = [joins |-> CountIn(joined, t), admits |-> seated[t]]
    BY <1>10, <2>1 DEF BucketsInv, Keeps
  <2>5. CountIn(joined, t) \in Nat /\ seated[t] \in Nat
    BY <1>2, <1>6
  <2>6. CASE t = e
    <3>1. Add(Shows(Stored, t), n)
            = [joins |-> CountIn(joined, t) + n.joins, admits |-> seated[t] + n.admits]
      BY <2>4 DEF Add
    <3>2. CountIn(joined', t) = CountIn(joined, t) + n.joins
      BY <1>1, <1>6, <1>8, <2>5, <2>6
    <3>3. seated'[t] = seated[t] + n.admits
      BY <1>7, <2>6
    <3> HIDE DEF e
    <3> QED
      BY <2>3, <2>6, <3>1, <3>2, <3>3 DEF Keeps
  <2>7. CASE t # e
    <3>1. CountIn(joined', t) = CountIn(joined, t)
      BY <1>1, <1>6, <1>8, <2>5, <2>7
    <3>2. seated'[t] = seated[t]
      BY <1>7, <2>7
    <3> HIDE DEF e
    <3> QED
      BY <2>3, <2>4, <2>7, <3>1, <3>2 DEF Keeps
  <2> QED
    BY <2>6, <2>7
<1>11. inflow' = Len(joined')
  BY <1>2, <1>3, <1>6
<1>12. reopened' \in BOOLEAN /\ Stored' \in Storage
  BY <1>4, <1>5
<1>13. clock' \in BucketInstant /\ alarm' \in BucketInstant \cup {0} /\ alarm' <= clock'
  BY BucketNats DEF BucketsInv
<1> QED
  BY <1>6, <1>7, <1>9, <1>10, <1>11, <1>12, <1>13 DEF BucketsInv, Retained

\* A flush without an event.
LEMMA FlushedInv ==
  ASSUME BucketsInv, NEW now \in BucketInstant, now <= clock, Store(Flush(Stored, now)),
         joined' = joined, seated' = seated, inflow' = inflow,
         clock' = clock, alarm' \in {alarm, 0}
  PROVE  BucketsInv'
PROOF
<1>1. /\ Stored \in Storage /\ joined \in Seq(Bucket)
      /\ \A t \in Bucket : CountIn(joined, t) \in Nat /\ seated[t] \in Nat
  BY OneMore DEF BucketsInv
<1>2. Flush(Stored, now) \in Storage
  BY <1>1, FlushShows
<1>3. Stored' = Flush(Stored, now) /\ reopened' \in BOOLEAN /\ (reopened => reopened')
  BY <1>2, StoreStored DEF BucketsInv
<1>4. ASSUME NEW t \in Bucket PROVE Within(Shows(Stored', t), CountIn(joined, t), seated[t])
  BY <1>1, <1>3, FlushWithin DEF BucketsInv
<1>5. ASSUME ~reopened', NEW t \in Bucket, Retained(t)
      PROVE  Keeps(Stored', joined, seated, t)
  <2>1. t + Retention >= now
    <3>1. t \in Nat /\ now \in Nat /\ clock \in Nat /\ Retention \in Nat
      BY BucketNats DEF BucketsInv
    <3> QED
      BY <1>5, <3>1 DEF Retained
  <2>2. Shows(Stored', t) = Shows(Stored, t)
    BY <1>1, <1>3, <2>1, FlushShows
  <2> QED
    BY <1>3, <1>5, <2>2 DEF BucketsInv, Keeps
<1>6. clock' \in BucketInstant /\ alarm' \in BucketInstant \cup {0} /\ alarm' <= clock'
  BY BucketNats DEF BucketsInv
<1> QED
  BY <1>2, <1>3, <1>4, <1>5, <1>6 DEF BucketsInv, Retained

LEMMA BucketsStepInv ==
  ASSUME BucketsInv, [BucketsNext]_bucketsVars
  PROVE  BucketsInv'
PROOF
<1>1. clock \in BucketInstant /\ alarm \in BucketInstant \cup {0} /\ clock <= clock
      /\ alarm <= clock
  BY DEF BucketsInv, BucketInstant
<1>2. CASE Join
  <2>1. PICK admits \in 0 .. Lesser(1, Left) :
           Recorded(clock, [joins |-> 1, admits |-> admits])
    BY <1>2 DEF Join
  <2>2. [joins |-> 1, admits |-> admits] \in Counts /\ [joins |-> 1, admits |-> admits].joins = 1
    BY DEF Counts
  <2>3. UNCHANGED <<clock, alarm>>
    BY <1>2 DEF Join
  <2> QED
    BY <1>1, <2>1, <2>2, <2>3, RecordedInv
<1>3. CASE ForceAdmit
  <2>1. PICK n \in 1 .. Left : Recorded(clock, [joins |-> 0, admits |-> n])
    BY <1>3 DEF ForceAdmit
  <2>2. [joins |-> 0, admits |-> n] \in Counts /\ [joins |-> 0, admits |-> n].joins = 0
    BY DEF Counts
  <2>3. UNCHANGED <<clock, alarm>>
    BY <1>3 DEF ForceAdmit
  <2> QED
    BY <1>1, <2>1, <2>2, <2>3, RecordedInv
<1>4. CASE GetTraffic
  BY <1>1, <1>4, FlushedInv DEF GetTraffic
<1>5. CASE AlarmFire
  BY <1>1, <1>5 DEF AlarmFire, BucketsInv, Stored, Retained
<1>6. CASE AlarmAdmit
  <2>1. alarm \in BucketInstant /\ alarm' = 0 /\ clock' = clock
    BY <1>1, <1>6 DEF AlarmAdmit
  <2>2. CASE \E n \in 1 .. Left : Recorded(alarm, [joins |-> 0, admits |-> n])
    <3>1. PICK n \in 1 .. Left : Recorded(alarm, [joins |-> 0, admits |-> n])
      BY <2>2
    <3>2. [joins |-> 0, admits |-> n] \in Counts /\ [joins |-> 0, admits |-> n].joins = 0
      BY DEF Counts
    <3> QED
      BY <1>1, <2>1, <3>1, <3>2, RecordedInv
  <2>3. CASE Store(Flush(Stored, alarm)) /\ UNCHANGED <<inflow, joined, seated>>
    BY <1>1, <2>1, <2>3, FlushedInv
  <2> QED
    BY <1>6, <2>2, <2>3 DEF AlarmAdmit
<1>7. CASE BucketsTick
  <2>1. clock' \in BucketInstant /\ clock' = clock + 1 /\ alarm <= clock'
    BY <1>1, <1>7, TrafficAssumption DEF BucketsTick, BucketInstant
  <2>2. Stored' = Stored /\ reopened' = reopened /\ joined' = joined /\ seated' = seated
        /\ inflow' = inflow /\ alarm' = alarm
    BY <1>7 DEF BucketsTick, Stored
  <2>3. ASSUME NEW t \in Bucket, t + Retention >= clock'
        PROVE  Retained(t)
    <3>1. t \in Nat /\ clock \in Nat /\ Retention \in Nat
      BY BucketNats DEF BucketsInv
    <3> QED
      BY <2>1, <2>3, <3>1 DEF Retained
  <2> QED
    BY <2>1, <2>2, <2>3 DEF BucketsInv, Retained
<1>8. CASE UNCHANGED bucketsVars
  BY <1>8 DEF bucketsVars, BucketsInv, Stored, Retained
<1> QED
  BY <1>2, <1>3, <1>4, <1>5, <1>6, <1>7, <1>8 DEF BucketsNext

\* For every width of the buckets, every retention and every number of events,
\* and however far an alarm's instant lies behind: no bucket shows more joins
\* or admissions than happened in it.
THEOREM NeverAnOvercount == BucketsSpec => []NeverOvercounts
PROOF
<1>1. BucketsInv => NeverOvercounts
  BY DEF BucketsInv, NeverOvercounts, Shows, Shown, Within, Stored
<1> QED
  BY BucketsInitInv, BucketsStepInv, <1>1, PTL DEF BucketsSpec

\* Every bucket that is retained shows all that happened in it, until an alarm whose
\* instant has fallen behind opens an older bucket in the place of the open one; and the
\* running total counts every join even then.
THEOREM OnlyStaleAlarmsLose == BucketsSpec => []LostOnlyToStaleAlarm
PROOF
<1>1. BucketsInv => LostOnlyToStaleAlarm
  BY DEF BucketsInv, LostOnlyToStaleAlarm, Conserved, Keeps, Shows, Shown, Stored
<1> QED
  BY BucketsInitInv, BucketsStepInv, <1>1, PTL DEF BucketsSpec

=============================================================================
