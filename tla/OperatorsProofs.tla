--------------------------- MODULE OperatorsProofs ---------------------------
(***************************************************************************)
(* Proofs about the two records of the KV namespace that concurrent        *)
(* requests read and later put back whole: the webhook settings with their *)
(* latches (AlertLatches), and the accounts and invites of the             *)
(* administrators (AdminAccounts).                                         *)
(***************************************************************************)
EXTENDS MCOperators, TLAPS

-----------------------------------------------------------------------------
(***************************************************************************)
(* The latches.                                                            *)
(***************************************************************************)
\* The latches that saves carry over are as the observers have put them, and the record has
\* not forgotten when a full line was last told, but for what a put has taken back.
Remembers(w, s, f, u) ==
  /\ \A l \in Latches : l[1] # "unhealthy" /\ l \notin u => (l \in w.latched <=> l \in s)
  /\ Full \notin u => \A q \in Watched : w.full <= f[q]

LatchInv ==
  /\ LatchesTypeOK
  /\ Remembers(webhooks, seen, filled, undone)
  /\ AlertsToldOnce

LEMMA LatchOfCondition ==
  ASSUME NEW kind \in Conditions, NEW queue \in Watched
  PROVE  Latch(kind, queue) \in Latches /\ Latch(kind, queue)[1] = kind
BY DEF Latch, Latches, Conditions

LEMMA FullApart == Full \notin Latches
BY DEF Full, Latches

LEMMA LatchesInitInv == LatchesInit => LatchInv
<1> SUFFICES ASSUME LatchesInit PROVE LatchInv
  OBVIOUS
<1>1. Window \in Nat /\ 0 <= Window /\ Window \in 0 .. Window /\ 0 \in 0 .. MaxCalls
  BY LatchesAssumption
<1>2. LatchesTypeOK
  BY <1>1 DEF LatchesInit, LatchesTypeOK
<1>3. Remembers(webhooks, seen, filled, undone) /\ again = {}
  BY <1>1 DEF LatchesInit, Remembers
<1> QED
  BY <1>2, <1>3 DEF LatchInv, AlertsToldOnce

\* A call that moves is still a call.
LEMMA Moved ==
  ASSUME NEW c \in Call, NEW w \in Webhooks,
         NEW step \in {"read", "put", "check", "reseal", "sealed", "post", "latest", "record"}
  PROVE  [c EXCEPT !.step = step, !.copy = w] \in Call
BY DEF Call

LEMMA Records == Unread \in Webhooks /\ Defaults \in Webhooks /\ ~Defaults.enabled
<1>1. 0 \in 0 .. Window /\ Window \in 0 .. Window
  BY LatchesAssumption
<1>2. Unread \in Webhooks /\ ~Unread.enabled
  BY <1>1 DEF Unread, Webhooks
<1> QED
  BY <1>1, <1>2 DEF Defaults, Webhooks

\* A call gets on, and what it has put is not touched.
LEMMA QuietStep ==
  ASSUME LatchInv, NEW o \in Observers, NEW k \in Call \cup {Silent},
         calls' = [calls EXCEPT ![o] = k], started' \in 0 .. MaxCalls,
         recent' \in [Watched -> 0 .. Window],
         UNCHANGED <<webhooks, holds, seen, filled, again, undone>>
  PROVE  LatchInv'
<1>1. calls' \in [Observers -> Call \cup {Silent}]
  BY DEF LatchInv, LatchesTypeOK
<1>2. LatchesTypeOK'
  BY <1>1 DEF LatchInv, LatchesTypeOK
<1> QED
  BY <1>2 DEF LatchInv, AlertsToldOnce

\* A call puts a record: of its copy it has changed, at most, what it is about.
LEMMA PutStep ==
  ASSUME LatchInv, NEW o \in Observers, NEW k \in Call \cup {Silent},
         calls' = [calls EXCEPT ![o] = k], NEW w \in Webhooks,
         NEW about \in SUBSET (Latches \cup {Full}),
         webhooks' \in Webhooks, seen' \in SUBSET Latches, filled' \in [Watched -> 0 .. Window],
         undone' = (undone \cup Reverts(w)) \ about,
         UNCHANGED <<holds, recent, started, again>>,
         \A l \in Latches : l[1] # "unhealthy" =>
           IF l \in about THEN l \in webhooks'.latched <=> l \in seen'
           ELSE (l \in webhooks'.latched <=> l \in w.latched) /\ (l \in seen' <=> l \in seen),
         IF Full \in about THEN \A q \in Watched : webhooks'.full <= filled'[q]
         ELSE webhooks'.full = w.full /\ filled' = filled
  PROVE  LatchInv'
<1>1. calls' \in [Observers -> Call \cup {Silent}]
  BY DEF LatchInv, LatchesTypeOK
<1>2. undone \subseteq Latches \cup {Full} /\ Reverts(w) \subseteq Latches \cup {Full}
  BY DEF LatchInv, LatchesTypeOK, Reverts
<1>3. LatchesTypeOK'
  BY <1>1, <1>2 DEF LatchInv, LatchesTypeOK
<1>4. ASSUME NEW l \in Latches, l[1] # "unhealthy", l \notin undone'
      PROVE  l \in webhooks'.latched <=> l \in seen'
  <2>1. CASE l \in about
    BY <1>4, <2>1
  <2>2. CASE l \notin about
    <3>1. l \notin undone /\ l \notin Reverts(w)
      BY <1>4, <2>2
    <3>2. l \in w.latched <=> l \in webhooks.latched
      BY <3>1 DEF Reverts
    <3>3. l \in webhooks.latched <=> l \in seen
      BY <1>4, <3>1 DEF LatchInv, Remembers
    <3> QED
      BY <1>4, <2>2, <3>2, <3>3
  <2> QED
    BY <2>1, <2>2
<1>5. ASSUME NEW q \in Watched, Full \notin undone', Full \notin about
      PROVE  webhooks'.full <= filled'[q]
  <2>1. Full \notin undone /\ Full \notin Reverts(w)
    BY <1>5
  <2>2. ~(w.full > webhooks.full)
    BY <2>1 DEF Reverts
  <2>3. w.full \in Nat /\ webhooks.full \in Nat /\ filled[q] \in Nat
    BY LatchesAssumption DEF LatchInv, LatchesTypeOK, Webhooks
  <2>4. webhooks.full <= filled[q]
    BY <2>1 DEF LatchInv, Remembers
  <2> QED
    BY <1>5, <2>2, <2>3, <2>4
<1>6. Remembers(webhooks', seen', filled', undone')
  BY <1>4, <1>5 DEF Remembers
<1> QED
  BY <1>3, <1>6 DEF LatchInv, AlertsToldOnce

LEMMA ObserveInv ==
  ASSUME LatchInv, NEW o \in Observers, NEW op \in Conditions \cup {"full", "save", "notify", "test"},
         NEW queue \in Watched, Observe(o, op, queue)
  PROVE  LatchInv'
<1> DEFINE sees == op \in holds[queue]
           step == IF op \in {"notify", "test"} THEN "check" ELSE "read"
           k == [op |-> op, queue |-> queue, sees |-> sees, step |-> step, copy |-> Unread]
<1>1. sees \in BOOLEAN /\ step \in {"check", "read"}
  OBVIOUS
<1>2. calls' = [calls EXCEPT ![o] = k] /\ started < MaxCalls /\ started' = started + 1
      /\ UNCHANGED <<webhooks, holds, recent, seen, filled, again, undone>>
  BY DEF Observe
<1> HIDE DEF sees, step
<1>3. k \in Call
  BY <1>1, Records DEF Call
<1>4. started' \in 0 .. MaxCalls /\ recent' \in [Watched -> 0 .. Window]
  BY <1>2, LatchesAssumption DEF LatchInv, LatchesTypeOK
<1> HIDE DEF k
<1> QED
  BY <1>2, <1>3, <1>4, QuietStep

\* What a call that is under way is.
LEMMA AtWork ==
  ASSUME LatchInv, NEW o \in Observers, calls[o] # Silent
  PROVE  /\ calls[o] \in Call /\ calls[o].copy \in Webhooks /\ calls[o].queue \in Watched
         /\ calls[o].sees \in BOOLEAN
         /\ webhooks \in Webhooks /\ started \in 0 .. MaxCalls /\ recent \in [Watched -> 0 .. Window]
<1>1. calls[o] \in Call
  BY DEF LatchInv, LatchesTypeOK
<1> QED
  BY <1>1 DEF LatchInv, LatchesTypeOK, Call

LEMMA Busy ==
  ASSUME NEW o, NEW ops, "none" \notin ops, NEW step, In(o, ops, step)
  PROVE  calls[o] # Silent
BY DEF In, Silent

\* Nobody sets out to tell what the record that it has read was told.
LEMMA NotAgain ==
  ASSUME LatchInv, NEW c \in Call, c.op \in {"depth", "schedule", "full"},
         NEW w \in {webhooks, Defaults}, Proceeds(c, w)
  PROVE  ~ToldBefore(c)
<1>1. c.queue \in Watched /\ c.sees \in BOOLEAN
  BY DEF Call
<1>2. CASE c.op = "full"
  <2>1. w.enabled /\ w.full = Window
    BY <1>2 DEF Proceeds, IsFull, IsOn, Conditions
  <2>2. w = webhooks
    BY <2>1, Records
  <2>3. filled[c.queue] \in Nat /\ Window \in Nat
    BY <1>1, LatchesAssumption DEF LatchInv, LatchesTypeOK
  <2>4. Full \notin undone => Window <= filled[c.queue]
    BY <1>1, <2>1, <2>2 DEF LatchInv, Remembers
  <2> QED
    BY <1>2, <2>3, <2>4 DEF ToldBefore
<1>3. CASE c.op \in {"depth", "schedule"}
  <2> DEFINE l == Latch(c.op, c.queue)
  <2>1. Moves(c, w)
    BY <1>3 DEF Proceeds, Conditions
  <2>2. w.enabled /\ (l \in w.latched <=> ~c.sees)
    BY <1>1, <1>3, <2>1 DEF Moves, IsLatched
  <2>3. w = webhooks
    BY <2>2, Records
  <2>4. l \in Latches /\ l[1] # "unhealthy"
    BY <1>1, <1>3, LatchOfCondition DEF Conditions
  <2>5. l \notin undone => (l \in seen <=> ~c.sees)
    BY <2>2, <2>3, <2>4 DEF LatchInv, Remembers
  <2> QED
    BY <1>1, <1>3, <2>5 DEF ToldBefore
<1> QED
  BY <1>2, <1>3

LEMMA ReadLatchesInv ==
  ASSUME LatchInv, NEW o \in Observers, ReadLatches(o)
  PROVE  LatchInv'
<1> DEFINE c == calls[o]
<1>1. c # Silent /\ c.op \in Conditions \cup {"full", "save"}
  BY Busy DEF ReadLatches, Conditions, In
<1>2. /\ c \in Call /\ webhooks \in Webhooks /\ started \in 0 .. MaxCalls
      /\ recent \in [Watched -> 0 .. Window] /\ c.queue \in Watched
  BY <1>1, AtWork
<1>3. PICK w \in {webhooks, Defaults} :
        /\ IF Proceeds(c, w) THEN Keep(o, "put", w) ELSE Leave(o)
        /\ recent' = IF c.op = "full" /\ IsOn(w)
                     THEN [recent EXCEPT ![c.queue] = IF IsFull(c, w) THEN 0 ELSE w.full]
                     ELSE recent
        /\ again' = again \cup {k \in {c.op} : /\ Proceeds(c, w)
                                             /\ k # "save" /\ (k # "full" => Tells(c, w))
                                             /\ ToldBefore(c)}
  BY DEF ReadLatches
<1>4. w \in Webhooks
  BY <1>2, Records
<1> DEFINE k == [c EXCEPT !.step = "put", !.copy = w]
           h == IF Proceeds(c, w) THEN k ELSE Silent
<1>5. k \in Call
  BY <1>2, <1>4, Moved
<1>6. /\ calls' = [calls EXCEPT ![o] = h]
      /\ UNCHANGED <<webhooks, holds, started, seen, filled, undone>>
  BY <1>3 DEF ReadLatches, Keep, Leave
<1>7. recent' \in [Watched -> 0 .. Window]
  <2>1. w.full \in 0 .. Window /\ 0 \in 0 .. Window
    BY <1>4, LatchesAssumption DEF Webhooks
  <2> QED
    BY <1>2, <1>3, <2>1
<1>8. again' \cap {"depth", "schedule", "full"} = {} /\ again' \subseteq Conditions \cup {"full"}
  <2>1. again \cap {"depth", "schedule", "full"} = {} /\ again \subseteq Conditions \cup {"full"}
    BY DEF LatchInv, LatchesTypeOK, AlertsToldOnce
  <2>2. c.op \in {"depth", "schedule", "full"} /\ Proceeds(c, w) => ~ToldBefore(c)
    BY <1>2, NotAgain
  <2> HIDE DEF c
  <2> QED
    BY <1>1, <1>3, <2>1, <2>2
<1> HIDE DEF k
<1>9. h \in Call \cup {Silent}
  BY <1>5
<1> HIDE DEF h
<1>10. calls' \in [Observers -> Call \cup {Silent}]
  BY <1>6, <1>9 DEF LatchInv, LatchesTypeOK
<1>11. LatchesTypeOK'
  BY <1>6, <1>7, <1>8, <1>10 DEF LatchInv, LatchesTypeOK
<1> QED
  BY <1>6, <1>8, <1>11 DEF LatchInv, AlertsToldOnce

LEMMA PutLatchInv ==
  ASSUME LatchInv, NEW o \in Observers, PutLatch(o)
  PROVE  LatchInv'
<1> DEFINE c == calls[o]
           w == c.copy
           l == Latch(c.op, c.queue)
           k == IF Tells(c, w) THEN [c EXCEPT !.step = "check", !.copy = Unread] ELSE Silent
<1>1. c # Silent /\ c.op \in Conditions
  BY Busy DEF PutLatch, In, Conditions
<1>2. c \in Call /\ w \in Webhooks /\ c.queue \in Watched /\ c.sees \in BOOLEAN
  BY <1>1, AtWork
<1>3. l \in Latches /\ l \in Latches \cup {Full} /\ Full # l
  BY <1>1, <1>2, LatchOfCondition, FullApart
<1>4. k \in Call \cup {Silent}
  BY <1>2, Moved, Records
<1>5. /\ webhooks' = Followed(c, w)
      /\ seen' = (IF c.sees THEN seen \cup {l} ELSE seen \ {l})
      /\ undone' = (undone \cup Reverts(w)) \ {l}
      /\ calls' = [calls EXCEPT ![o] = k] /\ UNCHANGED <<holds, recent, started, filled, again>>
  BY DEF PutLatch, Goes, Leave
<1>6. /\ webhooks' \in Webhooks /\ webhooks'.full = w.full
      /\ webhooks'.latched = IF c.sees THEN w.latched \cup {l} ELSE w.latched \ {l}
  BY <1>2, <1>3, <1>5 DEF Followed, Webhooks
<1>7. seen' \in SUBSET Latches /\ filled' \in [Watched -> 0 .. Window]
  BY <1>3, <1>5 DEF LatchInv, LatchesTypeOK
<1> HIDE DEF k, l, w, c
<1>8. \A m \in Latches :
        IF m \in {l} THEN m \in webhooks'.latched <=> m \in seen'
        ELSE (m \in webhooks'.latched <=> m \in w.latched) /\ (m \in seen' <=> m \in seen)
  BY <1>5, <1>6
<1>9. {l} \in SUBSET (Latches \cup {Full}) /\ Full \notin {l}
  BY <1>3
<1> QED
  BY <1>2, <1>4, <1>5, <1>6, <1>7, <1>8, <1>9, PutStep

LEMMA PutFullInv ==
  ASSUME LatchInv, NEW o \in Observers, PutFull(o)
  PROVE  LatchInv'
<1> DEFINE c == calls[o]
           w == c.copy
           k == [c EXCEPT !.step = "check", !.copy = Unread]
           v == [w EXCEPT !.full = 0]
<1>1. c # Silent
  BY Busy DEF PutFull
<1>2. c \in Call /\ w \in Webhooks /\ c.queue \in Watched
  BY <1>1, AtWork
<1>3. k \in Call
  BY <1>2, Moved, Records
<1>4. v \in Webhooks /\ v.full = 0 /\ v.latched = w.latched
  BY <1>2, LatchesAssumption DEF Webhooks
<1>5. /\ webhooks' = v
      /\ filled' = [filled EXCEPT ![c.queue] = 0]
      /\ undone' = (undone \cup Reverts(w)) \ {Full}
      /\ calls' = [calls EXCEPT ![o] = k] /\ UNCHANGED <<holds, recent, started, seen, again>>
  BY DEF PutFull, Goes
<1> HIDE DEF k, v, w, c
<1>6. /\ seen' \in SUBSET Latches /\ filled' \in [Watched -> 0 .. Window]
  BY <1>2, <1>5, LatchesAssumption DEF LatchInv, LatchesTypeOK
<1>7. \A q \in Watched : webhooks'.full <= filled'[q]
  BY <1>4, <1>5, <1>6
<1>8. \A m \in Latches : m \notin {Full} /\ (m \in webhooks'.latched <=> m \in w.latched)
  BY <1>4, <1>5, FullApart
<1>9. {Full} \in SUBSET (Latches \cup {Full}) /\ Full \in {Full}
  OBVIOUS
<1> QED
  BY <1>2, <1>3, <1>4, <1>5, <1>6, <1>7, <1>8, <1>9, PutStep

\* A put by which neither a depth or schedule latch nor the time of a full line is changed.
LEMMA PlainPut ==
  ASSUME LatchInv, NEW o \in Observers, NEW w \in Webhooks,
         NEW k \in Call \cup {Silent}, calls' = [calls EXCEPT ![o] = k],
         webhooks' \in Webhooks, webhooks'.full = w.full,
         \A l \in Latches : l[1] # "unhealthy" => (l \in webhooks'.latched <=> l \in w.latched),
         undone' = undone \cup Reverts(w),
         UNCHANGED <<holds, recent, started, seen, filled, again>>
  PROVE  LatchInv'
<1>1. seen' \in SUBSET Latches /\ filled' \in [Watched -> 0 .. Window]
  BY DEF LatchInv, LatchesTypeOK
<1>2. undone' = (undone \cup Reverts(w)) \ {} /\ {} \in SUBSET (Latches \cup {Full})
  OBVIOUS
<1> QED
  BY <1>1, <1>2, PutStep

LEMMA PutSettingsInv ==
  ASSUME LatchInv, NEW o \in Observers, NEW new \in Forms, PutSettings(o, new)
  PROVE  LatchInv'
<1> DEFINE w == calls[o].copy
           v == Saved(w, new)
<1>1. calls[o] # Silent
  BY Busy DEF PutSettings
<1>2. w \in Webhooks /\ new \in Webhooks
  BY <1>1, AtWork DEF Forms
<1>3. v \in Webhooks /\ v.full = w.full /\ v.latched = {l \in w.latched : l[1] # "unhealthy"}
  BY <1>2 DEF Saved, Webhooks
<1>4. /\ webhooks' = v /\ undone' = undone \cup Reverts(w)
      /\ calls' = [calls EXCEPT ![o] = Silent]
      /\ UNCHANGED <<holds, recent, started, seen, filled, again>>
  BY DEF PutSettings, Leave
<1> HIDE DEF v, w
<1> QED
  BY <1>2, <1>3, <1>4, PlainPut

LEMMA ResealInv ==
  ASSUME LatchInv, NEW o \in Observers, Reseal(o)
  PROVE  LatchInv'
<1> DEFINE w == calls[o].copy
           v == [w EXCEPT !.old = FALSE]
           k == [calls[o] EXCEPT !.step = "post", !.copy = Unread]
<1>1. calls[o] # Silent
  BY DEF Reseal
<1>2. calls[o] \in Call /\ w \in Webhooks
  BY <1>1, AtWork
<1>3. v \in Webhooks /\ v.full = w.full /\ v.latched = w.latched
  BY <1>2 DEF Webhooks
<1>4. k \in Call
  BY <1>2, Moved, Records
<1>5. /\ webhooks' = v /\ undone' = undone \cup Reverts(w)
      /\ calls' = [calls EXCEPT ![o] = k]
      /\ UNCHANGED <<holds, recent, started, seen, filled, again>>
  BY DEF Reseal, Goes
<1> HIDE DEF v, k, w
<1> QED
  BY <1>2, <1>3, <1>4, <1>5, PlainPut

LEMMA RecordInv ==
  ASSUME LatchInv, NEW o \in Observers, RecordDelivery(o)
  PROVE  LatchInv'
<1> DEFINE w == calls[o].copy
<1>1. calls[o] # Silent
  BY DEF RecordDelivery
<1>2. w \in Webhooks
  BY <1>1, AtWork
<1>3. /\ webhooks' = w /\ undone' = undone \cup Reverts(w)
      /\ calls' = [calls EXCEPT ![o] = Silent]
      /\ UNCHANGED <<holds, recent, started, seen, filled, again>>
  BY DEF RecordDelivery, Leave
<1> HIDE DEF w
<1> QED
  BY <1>2, <1>3, PlainPut

\* The steps of a delivery that put nothing.
LEMMA DeliveryInv ==
  ASSUME LatchInv, NEW o \in Observers,
         \/ CheckDelivery(o) \/ ReadSealed(o) \/ PostAlert(o) \/ ReadLatest(o) \/ Cut(o)
  PROVE  LatchInv'
<1>1. /\ calls[o] # Silent
      /\ UNCHANGED <<webhooks, holds, recent, started, seen, filled, again, undone>>
  BY DEF CheckDelivery, ReadSealed, PostAlert, ReadLatest, Cut
<1>2. \/ calls' = [calls EXCEPT ![o] = Silent]
      \/ \E step \in {"record", "reseal", "post", "sealed", "latest"},
            w \in {Unread, webhooks, Defaults} :
           calls' = [calls EXCEPT ![o].step = step, ![o].copy = w]
  BY DEF CheckDelivery, ReadSealed, PostAlert, ReadLatest, Cut, Keep, Goes, Leave
<1>3. /\ calls[o] \in Call /\ webhooks \in Webhooks
      /\ started' \in 0 .. MaxCalls /\ recent' \in [Watched -> 0 .. Window]
  BY <1>1, AtWork
<1>4. ASSUME NEW step \in {"record", "reseal", "post", "sealed", "latest"},
             NEW w \in {Unread, webhooks, Defaults},
             calls' = [calls EXCEPT ![o].step = step, ![o].copy = w]
      PROVE  LatchInv'
  <2> DEFINE k == [calls[o] EXCEPT !.step = step, !.copy = w]
  <2>1. k \in Call
    BY <1>3, Moved, Records
  <2>2. calls' = [calls EXCEPT ![o] = k]
    BY <1>4
  <2> HIDE DEF k
  <2> QED
    BY <1>1, <1>3, <2>1, <2>2, QuietStep
<1> QED
  BY <1>1, <1>2, <1>3, <1>4, QuietStep

\* What is no step of a call.
LEMMA OutsideInv ==
  ASSUME LatchInv,
         \/ \E q \in Watched, kind \in Conditions : RoomChanges(q, kind)
         \/ EvictIsolate \/ ResetWebhooks \/ LatchTick
  PROVE  LatchInv'
<1>1. /\ webhooks \in Webhooks /\ recent \in [Watched -> 0 .. Window] /\ Window \in Nat
      /\ filled \in [Watched -> 0 .. Window] /\ holds \in [Watched -> SUBSET Conditions]
      /\ LatchesTypeOK /\ webhooks.full \in 0 .. Window
  BY LatchesAssumption DEF LatchInv, LatchesTypeOK, Webhooks
<1>2. CASE \E q \in Watched, kind \in Conditions : RoomChanges(q, kind)
  <2>1. PICK q \in Watched, kind \in Conditions : RoomChanges(q, kind)
    BY <1>2
  <2>2. holds' \in [Watched -> SUBSET Conditions]
    BY <1>1, <2>1 DEF RoomChanges
  <2>3. UNCHANGED <<webhooks, recent, calls, started, seen, filled, again, undone>>
    BY <2>1 DEF RoomChanges
  <2> QED
    BY <2>2, <2>3 DEF LatchInv, LatchesTypeOK, AlertsToldOnce
<1>3. CASE EvictIsolate
  <2>1. recent' \in [Watched -> 0 .. Window]
    BY <1>1, <1>3 DEF EvictIsolate
  <2> QED
    BY <1>3, <2>1 DEF LatchInv, LatchesTypeOK, EvictIsolate, AlertsToldOnce
<1>4. CASE ResetWebhooks
  <2> DEFINE v == Defaults
  <2>1. v \in Webhooks /\ v.latched = {} /\ v.full = Window
    BY Records DEF Defaults, Unread
  <2>2. /\ webhooks' = v /\ seen' = {} /\ undone' = {} /\ filled' = [q \in Watched |-> Window]
        /\ UNCHANGED <<holds, recent, calls, started, again>>
    BY <1>4 DEF ResetWebhooks
  <2> HIDE DEF v
  <2>3. Remembers(webhooks', seen', filled', undone')
    BY <1>1, <2>1, <2>2 DEF Remembers
  <2>4. LatchesTypeOK'
    BY <1>1, <2>1, <2>2 DEF LatchesTypeOK
  <2> QED
    BY <2>2, <2>3, <2>4 DEF LatchInv, AlertsToldOnce
<1>5. CASE LatchTick
  <2> DEFINE n == Shorter(webhooks.full + 1, Window)
             v == [webhooks EXCEPT !.full = n]
  <2>1. n \in 0 .. Window /\ n <= webhooks.full + 1 /\ n <= Window
    BY <1>1 DEF Shorter
  <2>2. v \in Webhooks /\ v.latched = webhooks.latched /\ v.full = n
    BY <1>1, <2>1 DEF Webhooks
  <2>3. /\ webhooks' = v /\ recent' = [q \in Watched |-> Shorter(recent[q] + 1, Window)]
        /\ filled' = [q \in Watched |-> Shorter(filled[q] + 1, Window)]
        /\ UNCHANGED <<holds, calls, started, seen, again, undone>>
    BY <1>5 DEF LatchTick
  <2> HIDE DEF n, v
  <2>4. /\ recent' \in [Watched -> 0 .. Window] /\ filled' \in [Watched -> 0 .. Window]
    BY <1>1, <2>3 DEF Shorter
  <2>5. Remembers(webhooks', seen', filled', undone')
    <3>1. ASSUME NEW q \in Watched, Full \notin undone PROVE webhooks'.full <= filled'[q]
      <4>1. webhooks.full <= filled[q] /\ filled[q] \in Nat /\ webhooks.full \in Nat
        BY <1>1, <3>1 DEF LatchInv, Remembers
      <4>2. filled'[q] = Shorter(filled[q] + 1, Window) /\ webhooks'.full = n
        BY <2>2, <2>3
      <4>3. n \in Nat
        BY <1>1, <2>1
      <4> QED
        BY <1>1, <2>1, <4>1, <4>2, <4>3 DEF Shorter
    <3> QED
      BY <2>2, <2>3, <3>1 DEF LatchInv, Remembers
  <2>6. LatchesTypeOK'
    BY <1>1, <2>2, <2>3, <2>4 DEF LatchesTypeOK
  <2> QED
    BY <2>3, <2>5, <2>6 DEF LatchInv, AlertsToldOnce
<1> QED
  BY <1>2, <1>3, <1>4, <1>5

LEMMA LatchesNextInv ==
  ASSUME LatchInv, [LatchesNext]_latchesVars
  PROVE  LatchInv'
<1>1. CASE UNCHANGED latchesVars
  BY <1>1 DEF latchesVars, LatchInv, LatchesTypeOK, AlertsToldOnce
<1>2. ASSUME NEW o \in Observers,
             \/ \E op \in Conditions \cup {"full", "save", "notify", "test"}, q \in Watched :
                  Observe(o, op, q)
             \/ ReadLatches(o) \/ PutLatch(o) \/ PutFull(o)
             \/ \E new \in Forms : PutSettings(o, new)
             \/ CheckDelivery(o) \/ ReadSealed(o) \/ Reseal(o) \/ PostAlert(o)
             \/ ReadLatest(o) \/ RecordDelivery(o) \/ Cut(o)
      PROVE  LatchInv'
  BY <1>2, ObserveInv, ReadLatchesInv, PutLatchInv, PutFullInv, PutSettingsInv, DeliveryInv,
     ResealInv, RecordInv
<1>3. CASE \/ \E q \in Watched, kind \in Conditions : RoomChanges(q, kind)
           \/ EvictIsolate \/ ResetWebhooks \/ LatchTick
  BY <1>3, OutsideInv
<1> QED
  BY <1>1, <1>2, <1>3 DEF LatchesNext

\* The settings, the latches and the calls in flight keep their shape.
THEOREM LatchesTyped == LatchesSpec => []LatchesTypeOK
<1>1. LatchInv /\ [LatchesNext]_latchesVars => LatchInv'
  BY LatchesNextInv
<1>2. LatchInv => LatchesTypeOK
  BY DEF LatchInv
<1> QED
  BY <1>1, <1>2, LatchesInitInv, PTL DEF LatchesSpec

\* Whatever the number of calls in flight and of queues, and however their reads and puts
\* interleave or fail, no call sets out to tell the crossing of the depth, the drop below it,
\* an opening or a full line that the record has been told, unless a put took the latch back
\* with an older record or with the defaults of a failed read (maybeDispatchDepthWebhook,
\* ...ScheduleOpenWebhook, ...QueueFullWebhook).
THEOREM AlertsAlwaysToldOnce == LatchesSpec => []AlertsToldOnce
<1>1. LatchInv /\ [LatchesNext]_latchesVars => LatchInv'
  BY LatchesNextInv
<1>2. LatchInv => AlertsToldOnce
  BY DEF LatchInv
<1> QED
  BY <1>1, <1>2, LatchesInitInv, PTL DEF LatchesSpec

-----------------------------------------------------------------------------
(***************************************************************************)
(* The accounts and the invites.                                           *)
(***************************************************************************)
\* A record that may be put: somebody is in it, nobody twice, and no name twice.
Sound(a, ids) ==
  a.claimed =>
    /\ a.users # {}
    /\ \A u, v \in a.users : u.id = v.id \/ u.name = v.name => u = v
    /\ \A u \in a.users : u.id \in ids

\* A request that is about to put accounts has a copy on which it may.
Checked(k) ==
  k.step = "write" /\ k.q.op \in Updates \cup {"accept"} => Applies(k.q, k.copy)

\* What a request knows of the invites that are spent.
Careful(k, gone) ==
  /\ k.gone \subseteq gone
  /\ k.q.op = "accept" /\ k.step \notin {"gate", "find"} => k.q.invite \notin k.gone
  /\ k.q.op \in {"accept", "drop", "revoke"} /\ k.step \in {"list", "relist"} => k.q.invite \in gone

SpentInv == \A i \in spent : invites[i] # "open"
ListedInv == \A i \in Invites : invites[i] = "open" => Listed(i)

AccountsInv ==
  /\ AccountsTypeOK
  /\ Sound(accounts, used)
  /\ \A r \in Requests : LET k == requests[r] IN
       Sound(k.copy, used) /\ Checked(k) /\ Careful(k, spent)
  /\ SpentInv
  /\ ListedInv

LEMMA FreeRequest ==
  ASSUME NEW ids, NEW gone
  PROVE  /\ Sound(Free.copy, ids) /\ Checked(Free) /\ Careful(Free, gone)
         /\ Free.step = "gate" /\ Free.q.op = "none"
BY DEF Free, Sound, Checked, Careful, Unclaimed

LEMMA RecordsApart == ~Unclaimed.claimed /\ \A a \in Record : a.claimed /\ a.users \subseteq User
BY DEF Record, Unclaimed

LEMMA AccountsInitInv == AccountsInit => AccountsInv
<1> SUFFICES ASSUME AccountsInit PROVE AccountsInv
  OBVIOUS
<1>1. accounts \in Record \cup {Unclaimed}
  BY DEF AccountsInit
<1>2. cookies \in SUBSET Ids
  <2>1. \A u \in User : u.id \in Ids
    BY DEF User
  <2>2. accounts.claimed => accounts.users \subseteq User
    BY <1>1, RecordsApart
  <2>3. cookies = IF accounts.claimed THEN {u.id : u \in accounts.users} ELSE {}
    BY DEF AccountsInit
  <2> QED
    BY <2>1, <2>2, <2>3
<1>3. AccountsTypeOK
  <2>1. begun \in 0 .. MaxRequests
    BY AccountsAssumption DEF AccountsInit
  <2>2. invites \in [Invites -> {"none", "open", "expired"}]
    BY DEF AccountsInit
  <2>3. requests \in [Requests -> Request \cup {Free}]
    BY DEF AccountsInit
  <2> QED
    BY <1>1, <1>2, <2>1, <2>2, <2>3 DEF AccountsInit, AccountsTypeOK
<1>4. Sound(accounts, used)
  <2>1. CASE accounts = Unclaimed
    BY <2>1 DEF Sound, Unclaimed
  <2>2. CASE accounts # Unclaimed
    <3>1. /\ accounts \in Record /\ accounts.users # {}
          /\ \A u, v \in accounts.users : u.id = v.id \/ u.name = v.name => u = v
      BY <2>2 DEF AccountsInit
    <3>2. used = {u.id : u \in accounts.users}
      BY <3>1 DEF AccountsInit, Record
    <3> QED
      BY <3>1, <3>2 DEF Sound
  <2> QED
    BY <2>1, <2>2
<1>5. \A r \in Requests : requests[r] = Free
  BY DEF AccountsInit
<1>6. SpentInv /\ ListedInv
  BY DEF AccountsInit, SpentInv, ListedInv
<1> QED
  BY <1>3, <1>4, <1>5, <1>6, FreeRequest DEF AccountsInv

\* What a request that is under way is.
LEMMA UnderWay ==
  ASSUME AccountsInv, NEW r \in Requests, requests[r].q.op # "none"
  PROVE  /\ requests[r] \in Request /\ requests[r].q \in Asked
         /\ Sound(requests[r].copy, used) /\ Checked(requests[r]) /\ Careful(requests[r], spent)
         /\ requests[r].copy \in Record \cup {Unclaimed}
         /\ requests[r].ids \subseteq Invites /\ requests[r].gone \subseteq Invites
<1>1. requests[r] \in Request
  BY FreeRequest DEF AccountsInv, AccountsTypeOK
<1> QED
  BY <1>1 DEF Request, AccountsInv

\* The fields of what is asked.
LEMMA AskedFields ==
  ASSUME NEW q \in Asked
  PROVE  /\ q.op # "none"
         /\ q.op \in {"claim", "accept", "drop"} => q.name \in Names
         /\ q.op \in {"accept", "drop", "create", "revoke"} => q.invite \in Invites
         /\ q.op \in {"finish", "password", "tos", "remember", "list", "create", "revoke", "remove"}
              => q.actor \in Ids
         /\ q.op \in {"remove", "recover"} => q.target \in Ids
         /\ q.op \in {"finish", "password", "tos", "remember", "list", "create", "revoke", "remove",
                      "recover", "claim", "accept", "drop", "reset"}
BY DEF Asked

\* One request becomes k.
LEMMA RequestStep ==
  ASSUME AccountsInv, NEW r \in Requests, NEW k \in Request \cup {Free},
         requests' = [requests EXCEPT ![r] = k],
         used \subseteq used', spent \subseteq spent',
         Sound(k.copy, used'), Checked(k), Careful(k, spent')
  PROVE  /\ requests' \in [Requests -> Request \cup {Free}]
         /\ \A o \in Requests : o # r => requests'[o] = requests[o]
         /\ requests'[r] = k
         /\ \A o \in Requests : LET h == requests'[o] IN
              Sound(h.copy, used') /\ Checked(h) /\ Careful(h, spent')
<1>1. requests \in [Requests -> Request \cup {Free}]
  BY DEF AccountsInv, AccountsTypeOK
<1>2. \A o \in Requests : requests'[o] = IF o = r THEN k ELSE requests[o]
  BY <1>1
<1>3. requests' \in [Requests -> Request \cup {Free}]
  BY <1>1
<1>4. ASSUME NEW o \in Requests, o # r
      PROVE  LET h == requests'[o] IN Sound(h.copy, used') /\ Checked(h) /\ Careful(h, spent')
  <2>1. /\ Sound(requests[o].copy, used) /\ Checked(requests[o]) /\ Careful(requests[o], spent)
        /\ requests'[o] = requests[o]
    BY <1>2, <1>4 DEF AccountsInv
  <2>2. Sound(requests[o].copy, used') /\ Careful(requests[o], spent')
    BY <2>1 DEF Sound, Careful
  <2> QED
    BY <2>1, <2>2
<1> QED
  BY <1>2, <1>3, <1>4

\* Listing an invite is nobody's business but that of those who create it.
StillListed(r) ==
  requests[r].q.op = "create" /\ requests[r].step \in {"list", "relist"} =>
    torn' \/ (requests'[r].q = requests[r].q /\ requests'[r].step \in {"list", "relist"})

\* A step that leaves invites and index alone.
LEMMA ListingKept ==
  ASSUME AccountsInv, NEW r \in Requests, StillListed(r), torn => torn',
         \A o \in Requests : o # r => requests'[o] = requests[o],
         UNCHANGED <<invites, index>>
  PROVE  ListedInv'
<1> SUFFICES ASSUME NEW i \in Invites, invites[i] = "open", ~torn'
             PROVE  Listed(i)'
  BY DEF ListedInv, Listed
<1>1. Listed(i) /\ ~torn
  BY DEF AccountsInv, ListedInv
<1>2. CASE i \in index
  BY <1>2 DEF Listed
<1>3. ASSUME NEW o \in Requests, requests[o].q.op = "create", requests[o].q.invite = i,
             requests[o].step \in {"list", "relist"}
      PROVE  Listed(i)'
  BY <1>3 DEF StillListed, Listed
<1> QED
  BY <1>1, <1>2, <1>3 DEF Listed

\* A request gets on to k, and everything else is as it should be.
LEMMA WholeStep ==
  ASSUME AccountsInv, NEW r \in Requests, NEW k \in Request \cup {Free},
         requests' = [requests EXCEPT ![r] = k],
         used \subseteq used', spent \subseteq spent',
         Sound(k.copy, used'), Checked(k), Careful(k, spent'),
         accounts' \in Record \cup {Unclaimed}, Sound(accounts', used'),
         invites' \in [Invites -> {"none", "open", "expired"}], index' \subseteq Invites,
         cookies' \subseteq Ids, used' \subseteq Ids, begun' \in 0 .. MaxRequests,
         spent' \subseteq Invites, torn' \in BOOLEAN, SpentInv', ListedInv'
  PROVE  AccountsInv'
<1>1. /\ requests' \in [Requests -> Request \cup {Free}]
      /\ \A o \in Requests : LET h == requests'[o] IN
           Sound(h.copy, used') /\ Checked(h) /\ Careful(h, spent')
  BY RequestStep
<1>2. AccountsTypeOK'
  BY <1>1 DEF AccountsTypeOK
<1> QED
  BY <1>1, <1>2 DEF AccountsInv

\* What most steps leave alone.
LEMMA Standing ==
  ASSUME AccountsInv
  PROVE  /\ accounts \in Record \cup {Unclaimed} /\ Sound(accounts, used)
         /\ invites \in [Invites -> {"none", "open", "expired"}] /\ index \subseteq Invites
         /\ cookies \subseteq Ids /\ used \subseteq Ids /\ begun \in 0 .. MaxRequests
         /\ spent \subseteq Invites /\ torn \in BOOLEAN /\ SpentInv /\ ListedInv
         /\ requests \in [Requests -> Request \cup {Free}]
BY DEF AccountsInv, AccountsTypeOK

\* A request gets on, and the store is as before.
LEMMA StoreKept ==
  ASSUME AccountsInv, NEW r \in Requests, NEW k \in Request \cup {Free},
         requests' = [requests EXCEPT ![r] = k],
         Sound(k.copy, used), Checked(k), Careful(k, spent),
         UNCHANGED <<accounts, invites, index, cookies, used, spent>>,
         begun' \in 0 .. MaxRequests, torn' \in BOOLEAN, torn => torn',
         requests[r].q.op = "create" /\ requests[r].step \in {"list", "relist"} =>
           torn' \/ (k.q = requests[r].q /\ k.step \in {"list", "relist"})
  PROVE  AccountsInv'
<1>1. /\ \A o \in Requests : o # r => requests'[o] = requests[o]
      /\ requests'[r] = k
  BY Standing
<1>2. ListedInv'
  BY <1>1, ListingKept DEF StillListed
<1>3. SpentInv'
  BY Standing DEF SpentInv
<1> QED
  BY <1>2, <1>3, Standing, WholeStep

LEMMA ArriveInv ==
  ASSUME AccountsInv, NEW r \in Requests, NEW q \in Asked, Arrive(r, q)
  PROVE  AccountsInv'
<1> DEFINE gone == IF q.op = "accept" THEN spent ELSE {}
           k == [Free EXCEPT !.q = q, !.gone = gone]
<1>1. gone \subseteq spent /\ gone \subseteq Invites
  BY Standing
<1>2. /\ requests[r] = Free /\ requests' = [requests EXCEPT ![r] = k]
      /\ UNCHANGED <<accounts, invites, index, cookies, used, spent, torn>>
  BY DEF Arrive
<1>3. begun' \in 0 .. MaxRequests
  BY Standing, AccountsAssumption DEF Arrive
<1> HIDE DEF gone
<1>4. k = [q |-> q, step |-> "gate", copy |-> Unclaimed, ids |-> {}, gone |-> gone]
  <2> DEFINE j == [Free EXCEPT !.q = q]
  <2>1. j = [q |-> q, step |-> "gate", copy |-> Unclaimed, ids |-> {}, gone |-> {}]
    BY DEF Free
  <2>2. k = [j EXCEPT !.gone = gone]
    OBVIOUS
  <2> HIDE DEF j, k
  <2> QED
    BY <2>1, <2>2
<1>5. k \in Request /\ k.step = "gate" /\ k.copy = Unclaimed /\ k.gone = gone
  BY <1>1, <1>4 DEF Request
<1> HIDE DEF k
<1>6. Sound(k.copy, used) /\ Checked(k) /\ Careful(k, spent)
  BY <1>1, <1>5, RecordsApart DEF Sound, Checked, Careful
<1> QED
  BY <1>2, <1>3, <1>5, <1>6, FreeRequest, Standing, StoreKept

LEMMA EndStep ==
  ASSUME AccountsInv, NEW r \in Requests, End(r),
         UNCHANGED <<accounts, invites, index, cookies, begun, used, spent>>,
         torn' \in BOOLEAN, torn => torn',
         requests[r].q.op = "create" /\ requests[r].step \in {"list", "relist"} => torn'
  PROVE  AccountsInv'
BY FreeRequest, Standing, StoreKept DEF End

LEMMA GateInv ==
  ASSUME AccountsInv, NEW r \in Requests, Gate(r)
  PROVE  AccountsInv'
<1> DEFINE step == After(requests[r].q.op)
           k == [requests[r] EXCEPT !.step = step]
<1>1. /\ requests[r] # Free /\ requests[r].step = "gate"
      /\ UNCHANGED <<accounts, invites, index, cookies, begun, used, spent, torn>>
  BY DEF Gate
<1>2. requests[r] \in Request /\ requests[r].q \in Asked /\ requests[r].q.op # "none"
  BY <1>1, Standing, AskedFields DEF Request
<1>3. /\ Sound(requests[r].copy, used) /\ Careful(requests[r], spent)
  BY <1>2, UnderWay
<1>4. /\ step \in {"write", "find", "put", "delete", "list", "clear", "read"}
      /\ step = "write" => requests[r].q.op = "claim"
      /\ step = "list" => requests[r].q.op = "list"
      /\ requests[r].q.op = "accept" => step = "find"
  BY DEF After
<1> HIDE DEF step
<1>5. k \in Request /\ k.q = requests[r].q /\ k.step = step /\ k.copy = requests[r].copy
      /\ k.gone = requests[r].gone
  BY <1>2, <1>4 DEF Request
<1>6. CASE Goto(r, After(requests[r].q.op))
  <2>1. requests' = [requests EXCEPT ![r] = k]
    BY <1>6 DEF Goto, step
  <2> HIDE DEF k
  <2>2. Checked(k) /\ Careful(k, spent) /\ Sound(k.copy, used)
    BY <1>3, <1>4, <1>5 DEF Checked, Careful, Updates
  <2> QED
    BY <1>1, <1>5, <2>1, <2>2, Standing, StoreKept
<1>7. CASE End(r)
  BY <1>1, <1>7, Standing, EndStep
<1> QED
  BY <1>6, <1>7 DEF Gate

LEMMA ReadInv ==
  ASSUME AccountsInv, NEW r \in Requests, Read(r)
  PROVE  AccountsInv'
<1> DEFINE k == [requests[r] EXCEPT !.copy = accounts, !.step = "write"]
<1>1. /\ requests[r].q.op \in Updates \cup {"accept"} /\ requests[r].step = "read"
      /\ UNCHANGED <<accounts, invites, index, cookies, begun, used, spent, torn>>
  BY DEF Read, At
<1>2. requests[r] \in Request /\ Careful(requests[r], spent)
  BY <1>1, UnderWay DEF Updates
<1>3. k \in Request /\ k.q = requests[r].q /\ k.step = "write" /\ k.copy = accounts
      /\ k.gone = requests[r].gone
  BY <1>2, Standing DEF Request
<1>4. CASE Applies(requests[r].q, accounts)
  <2>1. requests' = [requests EXCEPT ![r] = k]
    BY <1>4 DEF Read
  <2> HIDE DEF k
  <2>2. Checked(k) /\ Careful(k, spent) /\ Sound(k.copy, used)
    BY <1>1, <1>2, <1>3, <1>4, Standing DEF Checked, Careful
  <2> QED
    BY <1>1, <1>3, <2>1, <2>2, Standing, StoreKept
<1>5. CASE ~Applies(requests[r].q, accounts)
  BY <1>1, <1>5, Standing, EndStep DEF Read
<1> QED
  BY <1>4, <1>5

-----------------------------------------------------------------------------
(***************************************************************************)
(* What the requests put into the accounts.                                *)
(***************************************************************************)
LEMMA AcceptedUser ==
  ASSUME NEW u \in User, NEW q
  PROVE  Accepted(u, q) \in User /\ Accepted(u, q).id = u.id /\ Accepted(u, q).name = u.name
<1> DEFINE b == u.tos \/ u.id = q.actor
           v == [u EXCEPT !.tos = b]
<1>1. b \in BOOLEAN
  BY DEF User
<1> HIDE DEF b
<1>2. v \in User /\ v.id = u.id /\ v.name = u.name
  BY <1>1 DEF User
<1>3. Accepted(u, q) = v
  BY DEF Accepted, b
<1> HIDE DEF v
<1> QED
  BY <1>2, <1>3

\* A copy with the change of one update can be put: a removal leaves somebody, because the
\* copy had two accounts that differ in their id.
LEMMA ChangedSound ==
  ASSUME NEW q \in Asked, q.op \in Updates, NEW a \in Record \cup {Unclaimed}, NEW ids,
         Sound(a, ids), Applies(q, a)
  PROVE  LET b == Changed(q, a) IN b \in Record /\ Sound(b, ids)
<1>1. a \in Record /\ a.claimed /\ a.users \subseteq User
  BY RecordsApart DEF Applies
<1>2. /\ a.users # {} /\ \A u \in a.users : u.id \in ids
      /\ \A u, v \in a.users : u.id = v.id \/ u.name = v.name => u = v
  BY <1>1 DEF Sound
<1>3. ASSUME NEW users \in SUBSET User, users # {}, \A u \in users : u.id \in ids,
             \A u, v \in users : u.id = v.id \/ u.name = v.name => u = v,
             Changed(q, a) = [a EXCEPT !.users = users]
      PROVE  Changed(q, a) \in Record /\ Sound(Changed(q, a), ids)
  <2> DEFINE b == [a EXCEPT !.users = users]
  <2>1. b \in Record /\ b.users = users
    BY <1>1 DEF Record
  <2> HIDE DEF b
  <2>2. Sound(b, ids)
    BY <1>3, <2>1 DEF Sound
  <2> QED
    BY <1>3, <2>1, <2>2 DEF b
<1>4. CASE q.op = "tos"
  <2> DEFINE users == {Accepted(u, q) : u \in a.users}
  <2>1. Changed(q, a) = [a EXCEPT !.users = users]
    BY <1>4 DEF Changed
  <2>2. users \in SUBSET User /\ users # {} /\ \A u \in users : u.id \in ids
    BY <1>1, <1>2, AcceptedUser
  <2>3. \A u, v \in users : u.id = v.id \/ u.name = v.name => u = v
    BY <1>1, <1>2, AcceptedUser
  <2> HIDE DEF users
  <2> QED
    BY <1>3, <2>1, <2>2, <2>3
<1>5. CASE q.op = "remove"
  <2> DEFINE users == {u \in a.users : u.id # q.target}
  <2>1. Changed(q, a) = [a EXCEPT !.users = users]
    BY <1>5 DEF Changed
  <2>2. \E u, v \in a.users : u # v
    BY <1>5 DEF Applies, Removable
  <2>3. users # {}
    BY <1>2, <2>2
  <2>4. users \in SUBSET User /\ \A u \in users : u.id \in ids
    BY <1>1, <1>2
  <2>5. \A u, v \in users : u.id = v.id \/ u.name = v.name => u = v
    BY <1>2
  <2> HIDE DEF users
  <2> QED
    BY <1>3, <2>1, <2>3, <2>4, <2>5
<1>6. CASE q.op = "finish"
  <2> DEFINE b == [a EXCEPT !.done = TRUE]
  <2>1. b \in Record /\ b.users = a.users
    BY <1>1 DEF Record
  <2>2. Changed(q, a) = b
    BY <1>6 DEF Changed
  <2> HIDE DEF b
  <2> QED
    BY <1>2, <2>1, <2>2 DEF Sound
<1>7. CASE q.op \notin {"tos", "remove", "finish"}
  <2>1. Changed(q, a) = a
    BY <1>7 DEF Changed
  <2> QED
    BY <1>1, <2>1
<1> QED
  BY <1>4, <1>5, <1>6, <1>7

\* A request that ends having put accounts.
LEMMA PutAccounts ==
  ASSUME AccountsInv, NEW r \in Requests, End(r), requests[r].q.op # "create",
         accounts' \in Record \cup {Unclaimed}, Sound(accounts', used'),
         cookies' \subseteq Ids, used \subseteq used', used' \subseteq Ids,
         UNCHANGED <<invites, index, begun, spent, torn>>
  PROVE  AccountsInv'
<1>1. requests' = [requests EXCEPT ![r] = Free]
  BY DEF End
<1>2. \A o \in Requests : o # r => requests'[o] = requests[o]
  BY <1>1, Standing
<1>3. ListedInv'
  BY <1>2, ListingKept DEF StillListed
<1>4. SpentInv'
  BY Standing DEF SpentInv
<1> QED
  BY <1>1, <1>3, <1>4, FreeRequest, Standing, WholeStep

LEMMA UpdateInv ==
  ASSUME AccountsInv, NEW r \in Requests, Update(r)
  PROVE  AccountsInv'
<1> DEFINE q == requests[r].q
           a == requests[r].copy
<1>1. q.op \in Updates /\ requests[r].step = "write" /\ q.op # "create" /\ q.op # "none"
  BY DEF Update, At, Updates
<1>2. /\ q \in Asked /\ a \in Record \cup {Unclaimed} /\ Sound(a, used) /\ Applies(q, a)
  BY <1>1, UnderWay DEF Checked
<1>3. accounts' \in Record /\ Sound(accounts', used)
  BY <1>1, <1>2, ChangedSound DEF Update
<1>4. q.op = "recover" => q.target \in Ids
  BY <1>2, AskedFields
<1>5. cookies' \subseteq Ids /\ End(r) /\ UNCHANGED <<invites, index, begun, used, spent, torn>>
  BY <1>4, Standing DEF Update
<1> HIDE DEF q, a
<1> QED
  BY <1>1, <1>3, <1>5, Standing, PutAccounts DEF q

LEMMA ClaimInv ==
  ASSUME AccountsInv, NEW r \in Requests, NEW id \in Ids, Claim(r, id)
  PROVE  AccountsInv'
<1> DEFINE u == [id |-> id, name |-> requests[r].q.name, tos |-> TRUE]
           a == [claimed |-> TRUE, done |-> FALSE, users |-> {u}]
<1>1. requests[r].q.op = "claim"
  BY DEF Claim, At
<1>2. requests[r].q.name \in Names
  BY <1>1, UnderWay, AskedFields
<1>3. u \in User /\ u.id = id
  BY <1>2 DEF User
<1>4. /\ accounts' = a /\ used' = used \cup {id} /\ cookies' = cookies \cup {id} /\ End(r)
      /\ UNCHANGED <<invites, index, begun, spent, torn>>
  BY DEF Claim
<1> HIDE DEF u
<1>5. a \in Record /\ a.users = {u}
  BY <1>3 DEF Record
<1> HIDE DEF a
<1>6. Sound(accounts', used')
  BY <1>3, <1>4, <1>5 DEF Sound
<1> QED
  BY <1>1, <1>4, <1>5, <1>6, Standing, PutAccounts

LEMMA AcceptInv ==
  ASSUME AccountsInv, NEW r \in Requests, NEW id \in Ids, Accept(r, id)
  PROVE  AccountsInv'
<1> DEFINE q == requests[r].q
           a == requests[r].copy
           u == [id |-> id, name |-> q.name, tos |-> TRUE]
           users == a.users \cup {u}
           b == [a EXCEPT !.users = users]
<1>1. q.op = "accept" /\ requests[r].step = "write" /\ id \notin used
  BY DEF Accept, At
<1>2. /\ q \in Asked /\ a \in Record \cup {Unclaimed} /\ Sound(a, used) /\ Applies(q, a)
      /\ q.name \in Names
  BY <1>1, UnderWay, AskedFields DEF Checked
<1>3. a \in Record /\ a.claimed /\ a.users \subseteq User /\ \A v \in a.users : v.name # q.name
  BY <1>1, <1>2, RecordsApart DEF Applies, Addable
<1>4. u \in User /\ u.id = id /\ u.name = q.name
  BY <1>2 DEF User
<1>5. /\ accounts' = b /\ used' = used \cup {id} /\ cookies' = cookies \cup {id} /\ End(r)
      /\ UNCHANGED <<invites, index, begun, spent, torn>>
  BY DEF Accept
<1> HIDE DEF u
<1>6. /\ users \subseteq User /\ users # {} /\ \A v \in users : v.id \in used'
      /\ \A v, w \in users : v.id = w.id \/ v.name = w.name => v = w
  BY <1>1, <1>2, <1>3, <1>4, <1>5 DEF Sound
<1> HIDE DEF users
<1>7. b \in Record /\ b.users = users
  BY <1>3, <1>6 DEF Record
<1> HIDE DEF b
<1>8. Sound(accounts', used')
  BY <1>5, <1>6, <1>7 DEF Sound
<1> HIDE DEF a, q
<1> QED
  BY <1>1, <1>5, <1>7, <1>8, Standing, PutAccounts DEF q

LEMMA SessionInv ==
  ASSUME AccountsInv, \E id \in Ids : Login(id) \/ Logout(id)
  PROVE  AccountsInv'
<1>1. /\ cookies' \subseteq Ids
      /\ UNCHANGED <<accounts, invites, index, requests, begun, used, spent, torn>>
  BY Standing DEF Login, Logout
<1> QED
  BY <1>1 DEF AccountsInv, AccountsTypeOK, SpentInv, ListedInv, Listed

-----------------------------------------------------------------------------
(***************************************************************************)
(* What the requests do with the invites.                                  *)
(***************************************************************************)
LEMMA ResetInv ==
  ASSUME AccountsInv, NEW r \in Requests, ResetAccounts(r)
  PROVE  AccountsInv'
<1> DEFINE k == [requests[r] EXCEPT !.step = "list"]
<1>1. /\ requests[r].q.op = "reset" /\ requests' = [requests EXCEPT ![r] = k]
      /\ accounts' = Unclaimed
      /\ UNCHANGED <<invites, index, cookies, begun, used, spent, torn>>
  BY DEF ResetAccounts, At, Goto
<1>2. /\ requests[r] \in Request /\ Sound(requests[r].copy, used) /\ Careful(requests[r], spent)
  BY <1>1, UnderWay
<1>3. /\ k \in Request /\ k.q = requests[r].q /\ k.step = "list" /\ k.copy = requests[r].copy
      /\ k.gone = requests[r].gone
  BY <1>2 DEF Request
<1> HIDE DEF k
<1>4. Sound(k.copy, used') /\ Checked(k) /\ Careful(k, spent') /\ Sound(accounts', used')
  BY <1>1, <1>2, <1>3, RecordsApart DEF Sound, Checked, Careful
<1>5. \A o \in Requests : o # r => requests'[o] = requests[o]
  BY <1>1, Standing
<1>6. ListedInv'
  BY <1>1, <1>5, ListingKept DEF StillListed
<1>7. SpentInv'
  BY <1>1, Standing DEF SpentInv
<1> QED
  BY <1>1, <1>3, <1>4, <1>6, <1>7, Standing, WholeStep

LEMMA PutInviteInv ==
  ASSUME AccountsInv, NEW r \in Requests, PutInvite(r)
  PROVE  AccountsInv'
<1> DEFINE k == [requests[r] EXCEPT !.step = "list"]
           j == requests[r].q.invite
<1>1. /\ requests[r].q.op = "create" /\ requests[r].step = "put" /\ j \notin spent
      /\ requests' = [requests EXCEPT ![r] = k] /\ invites' = [invites EXCEPT ![j] = "open"]
      /\ UNCHANGED <<accounts, index, cookies, begun, used, spent, torn>>
  BY DEF PutInvite, At, Goto
<1>2. /\ requests[r] \in Request /\ Sound(requests[r].copy, used) /\ Careful(requests[r], spent)
      /\ j \in Invites
  BY <1>1, UnderWay, AskedFields
<1>3. /\ k \in Request /\ k.q = requests[r].q /\ k.step = "list" /\ k.copy = requests[r].copy
      /\ k.gone = requests[r].gone
  BY <1>2 DEF Request
<1> HIDE DEF k
<1>4. Sound(k.copy, used) /\ Checked(k) /\ Careful(k, spent)
  BY <1>1, <1>2, <1>3 DEF Checked, Careful
<1>5. \A o \in Requests : requests'[o] = IF o = r THEN k ELSE requests[o]
  BY <1>1, Standing
<1>6. /\ invites' \in [Invites -> {"none", "open", "expired"}]
      /\ \A i \in Invites : invites'[i] = IF i = j THEN "open" ELSE invites[i]
  BY <1>1, Standing
<1>7. SpentInv'
  BY <1>1, <1>6, Standing DEF SpentInv
<1>8. ListedInv'
  <2> SUFFICES ASSUME NEW i \in Invites, i # j, invites[i] = "open", ~torn
               PROVE  Listed(i)'
    BY <1>1, <1>3, <1>5, <1>6 DEF ListedInv, Listed
  <2>1. Listed(i)
    BY Standing DEF ListedInv
  <2>2. CASE i \in index
    BY <1>1, <2>2 DEF Listed
  <2>3. ASSUME NEW o \in Requests, requests[o].q.op = "create", requests[o].q.invite = i,
               requests[o].step \in {"list", "relist"}
        PROVE  Listed(i)'
    BY <1>1, <1>5, <2>3 DEF Listed
  <2> QED
    BY <2>1, <2>2, <2>3 DEF Listed
<1> QED
  BY <1>1, <1>3, <1>4, <1>6, <1>7, <1>8, Standing, WholeStep

LEMMA FindInviteInv ==
  ASSUME AccountsInv, NEW r \in Requests, FindInvite(r)
  PROVE  AccountsInv'
<1> DEFINE q == requests[r].q
           p == [q EXCEPT !.op = "drop"]
           k == [requests[r] EXCEPT !.step = "delete"]
           d == [requests[r] EXCEPT !.q = p, !.step = "delete", !.gone = {}]
<1>1. /\ q.op = "accept"
      /\ UNCHANGED <<accounts, invites, index, cookies, begun, used, spent, torn>>
  BY DEF FindInvite, At
<1>2. /\ requests[r] \in Request /\ Sound(requests[r].copy, used) /\ Careful(requests[r], spent)
      /\ q \in Asked /\ q.invite \in Invites
  BY <1>1, UnderWay, AskedFields
<1>3. q \in [op: {"accept", "drop"}, name: Names, invite: Invites]
  BY <1>1, <1>2 DEF Asked
<1>4. p \in [op: {"accept", "drop"}, name: Names, invite: Invites] /\ p.op = "drop"
  BY <1>3
<1>5. p \in Asked
  BY <1>4 DEF Asked
<1>6. /\ Found(q.invite) = "open" => requests' = [requests EXCEPT ![r] = k]
      /\ Found(q.invite) = "expired" => requests' = [requests EXCEPT ![r] = d]
      /\ Found(q.invite) \notin {"open", "expired"} => requests' = [requests EXCEPT ![r] = Free]
  BY DEF FindInvite
<1> HIDE DEF p
<1>7. /\ k \in Request /\ k.q = q /\ k.step = "delete" /\ k.copy = requests[r].copy
      /\ k.gone = requests[r].gone
  BY <1>2 DEF Request
<1>8. /\ d \in Request /\ d.q = p /\ d.step = "delete" /\ d.copy = requests[r].copy
      /\ d.gone = {}
  BY <1>2, <1>5 DEF Request
<1> HIDE DEF q, k, d
<1>9. CASE Found(q.invite) = "open"
  <2>1. q.invite \notin spent
    BY <1>9, Standing DEF Found, SpentInv
  <2>2. Sound(k.copy, used) /\ Checked(k) /\ Careful(k, spent)
    BY <1>1, <1>2, <1>7, <2>1 DEF Checked, Careful
  <2> QED
    BY <1>1, <1>6, <1>7, <1>9, <2>2, Standing, StoreKept DEF q
<1>10. CASE Found(q.invite) = "expired"
  <2>1. Sound(d.copy, used) /\ Checked(d) /\ Careful(d, spent)
    BY <1>2, <1>4, <1>8 DEF Checked, Careful
  <2> QED
    BY <1>1, <1>6, <1>8, <1>10, <2>1, Standing, StoreKept DEF q
<1>11. CASE Found(q.invite) \notin {"open", "expired"}
  BY <1>1, <1>6, <1>11, FreeRequest, Standing, StoreKept DEF q
<1> QED
  BY <1>9, <1>10, <1>11

LEMMA DeleteInviteInv ==
  ASSUME AccountsInv, NEW r \in Requests, DeleteInvite(r)
  PROVE  AccountsInv'
<1> DEFINE k == [requests[r] EXCEPT !.step = "list"]
           j == requests[r].q.invite
<1>1. /\ requests[r].q.op \in {"accept", "drop", "revoke"} /\ requests[r].step = "delete"
      /\ requests' = [requests EXCEPT ![r] = k] /\ invites' = [invites EXCEPT ![j] = "none"]
      /\ spent' = spent \cup {j}
      /\ UNCHANGED <<accounts, index, cookies, begun, used, torn>>
  BY DEF DeleteInvite, At, Goto
<1>2. /\ requests[r] \in Request /\ Sound(requests[r].copy, used) /\ Careful(requests[r], spent)
      /\ j \in Invites
  BY <1>1, UnderWay, AskedFields
<1>3. /\ k \in Request /\ k.q = requests[r].q /\ k.step = "list" /\ k.copy = requests[r].copy
      /\ k.gone = requests[r].gone
  BY <1>2 DEF Request
<1> HIDE DEF k
<1>4. Sound(k.copy, used) /\ Checked(k) /\ Careful(k, spent')
  BY <1>1, <1>2, <1>3 DEF Checked, Careful
<1>5. \A o \in Requests : requests'[o] = IF o = r THEN k ELSE requests[o]
  BY <1>1, Standing
<1>6. /\ invites' \in [Invites -> {"none", "open", "expired"}]
      /\ \A i \in Invites : invites'[i] = IF i = j THEN "none" ELSE invites[i]
  BY <1>1, Standing
<1>7. SpentInv' /\ spent' \subseteq Invites
  BY <1>1, <1>2, <1>6, Standing DEF SpentInv
<1>8. ListedInv'
  <2> SUFFICES ASSUME NEW i \in Invites, invites[i] = "open", ~torn
               PROVE  Listed(i)'
    BY <1>1, <1>6 DEF ListedInv, Listed
  <2>1. Listed(i)
    BY Standing DEF ListedInv
  <2>2. CASE i \in index
    BY <1>1, <2>2 DEF Listed
  <2>3. ASSUME NEW o \in Requests, requests[o].q.op = "create", requests[o].q.invite = i,
               requests[o].step \in {"list", "relist"}
        PROVE  Listed(i)'
    BY <1>1, <1>5, <2>3 DEF Listed
  <2> QED
    BY <2>1, <2>2, <2>3 DEF Listed
<1> QED
  BY <1>1, <1>3, <1>4, <1>6, <1>7, <1>8, Standing, WholeStep

LEMMA ReadIndexInv ==
  ASSUME AccountsInv, NEW r \in Requests, ReadIndex(r)
  PROVE  AccountsInv'
<1> PICK ids \in {index, {}} :
      requests' = [requests EXCEPT ![r].ids = ids, ![r].step = "relist"]
  BY DEF ReadIndex
<1> DEFINE k == [requests[r] EXCEPT !.ids = ids, !.step = "relist"]
<1>1. /\ requests[r].q.op \in Listings \cup {"list", "reset"} /\ requests[r].step = "list"
      /\ requests' = [requests EXCEPT ![r] = k]
      /\ UNCHANGED <<accounts, invites, index, cookies, begun, used, spent, torn>>
  BY DEF ReadIndex, At
<1>2. /\ requests[r] \in Request /\ Sound(requests[r].copy, used) /\ Careful(requests[r], spent)
  BY <1>1, UnderWay DEF Listings
<1>3. /\ k \in Request /\ k.q = requests[r].q /\ k.step = "relist" /\ k.copy = requests[r].copy
      /\ k.gone = requests[r].gone
  BY <1>2, Standing DEF Request
<1> HIDE DEF k
<1>4. Sound(k.copy, used) /\ Checked(k) /\ Careful(k, spent)
  BY <1>1, <1>2, <1>3 DEF Checked, Careful
<1> QED
  BY <1>1, <1>3, <1>4, Standing, StoreKept

LEMMA WriteIndexInv ==
  ASSUME AccountsInv, NEW r \in Requests, WriteIndex(r)
  PROVE  AccountsInv'
<1> DEFINE q == requests[r].q
           ids == requests[r].ids
           k == [requests[r] EXCEPT !.step = "read", !.ids = {}]
           h == IF q.op = "accept" THEN k ELSE Free
<1>0. PICK got \in IF q.op = "list" THEN SUBSET ids ELSE {ids} :
        LET kept == q.op = "list" /\ Relisted(q, ids, got) = ids
            dropped == {i \in got : q.op = "reset" \/ (q.op = "list" /\ invites[i] = "expired")}
        IN /\ index' = (IF kept THEN index ELSE Relisted(q, ids, got))
           /\ torn' = (torn \/ (~kept /\ index # ids) \/ \E i \in ids \ got : invites[i] = "open")
           /\ invites' = [i \in Invites |-> IF i \in dropped THEN "none" ELSE invites[i]]
           /\ spent' = spent \cup dropped
  BY DEF WriteIndex
<1> DEFINE kept == q.op = "list" /\ Relisted(q, ids, got) = ids
           dropped == {i \in got : q.op = "reset" \/ (q.op = "list" /\ invites[i] = "expired")}
<1>1. /\ q.op \in Listings \cup {"list", "reset"} /\ requests[r].step = "relist"
      /\ got \subseteq ids /\ (q.op # "list" => got = ids)
      /\ index' = (IF kept THEN index ELSE Relisted(q, ids, got))
      /\ torn' = (torn \/ (~kept /\ index # ids) \/ \E i \in ids \ got : invites[i] = "open")
      /\ invites' = [i \in Invites |-> IF i \in dropped THEN "none" ELSE invites[i]]
      /\ spent' = spent \cup dropped
      /\ requests' = [requests EXCEPT ![r] = h]
      /\ UNCHANGED <<accounts, cookies, begun, used>>
  BY <1>0 DEF WriteIndex, At, End
<1>2. /\ requests[r] \in Request /\ Sound(requests[r].copy, used) /\ Careful(requests[r], spent)
      /\ q \in Asked /\ ids \subseteq Invites
      /\ q.op \in {"accept", "drop", "create", "revoke"} => q.invite \in Invites
  BY <1>1, UnderWay, AskedFields DEF Listings
<1>3. /\ k \in Request /\ k.q = q /\ k.step = "read" /\ k.copy = requests[r].copy
      /\ k.gone = requests[r].gone
  BY <1>2 DEF Request
<1>4. h \in Request \cup {Free} /\ Sound(h.copy, used') /\ Checked(h) /\ Careful(h, spent')
  <2> HIDE DEF k
  <2>1. CASE q.op = "accept"
    BY <1>1, <1>2, <1>3, <2>1 DEF Checked, Careful
  <2>2. CASE q.op # "accept"
    BY <2>2, FreeRequest
  <2> QED
    BY <2>1, <2>2
<1> HIDE DEF h
<1>5. \A o \in Requests : requests'[o] = IF o = r THEN h ELSE requests[o]
  BY <1>1, Standing
<1>6. /\ invites' \in [Invites -> {"none", "open", "expired"}]
      /\ \A i \in Invites : invites'[i] = IF i \in dropped THEN "none" ELSE invites[i]
  BY <1>1, Standing
<1>7. spent' \subseteq Invites /\ torn' \in BOOLEAN
  BY <1>1, <1>2, Standing
<1>8. index' \subseteq Invites
  BY <1>1, <1>2, Standing DEF Relisted
<1>9. SpentInv'
  BY <1>1, <1>2, <1>6, Standing DEF SpentInv
<1>10. ListedInv'
  <2> SUFFICES ASSUME NEW i \in Invites, invites[i] = "open", i \notin dropped, ~torn'
               PROVE  Listed(i)'
    BY <1>6 DEF ListedInv, Listed
  <2>1. Listed(i) /\ ~torn /\ (kept \/ index = ids) /\ (i \in ids => i \in got)
    BY <1>1, Standing DEF ListedInv
  <2>2. CASE i \in index
    <3>1. CASE kept
      BY <1>1, <2>2, <3>1 DEF Listed
    <3>2. CASE ~kept
      <4>1. i \in ids /\ q.op # "reset"
        BY <2>1, <2>2, <3>2
      <4>2. q.op \in {"accept", "drop", "revoke"} => i # q.invite
        BY <1>1, <1>2, Standing DEF Careful, SpentInv
      <4>3. i \in Relisted(q, ids, got)
        BY <1>1, <4>1, <4>2 DEF Relisted, Listings
      <4> QED
        BY <1>1, <3>2, <4>3 DEF Listed
    <3> QED
      BY <3>1, <3>2
  <2>3. ASSUME NEW o \in Requests, requests[o].q.op = "create", requests[o].q.invite = i,
               requests[o].step \in {"list", "relist"}
        PROVE  Listed(i)'
    <3>1. CASE o = r
      <4>1. i \in Relisted(q, ids, got) /\ ~kept
        BY <2>3, <3>1 DEF Relisted
      <4> QED
        BY <1>1, <4>1 DEF Listed
    <3>2. CASE o # r
      BY <1>5, <2>3, <3>2 DEF Listed
    <3> QED
      BY <3>1, <3>2
  <2> QED
    BY <2>1, <2>2, <2>3 DEF Listed
<1> HIDE DEF q, ids, kept, dropped, k
<1>11. /\ used \subseteq used' /\ spent \subseteq spent' /\ used' = used /\ accounts' = accounts
       /\ cookies' = cookies /\ begun' = begun
  BY <1>1
<1> QED
  BY <1>1, <1>4, <1>6, <1>7, <1>8, <1>9, <1>10, <1>11, Standing, WholeStep

LEMMA ExpireInv ==
  ASSUME AccountsInv, NEW i \in Invites, Expire(i)
  PROVE  AccountsInv'
<1> DEFINE next == IF invites[i] = "open" THEN "expired" ELSE "none"
<1>1. /\ invites' = [invites EXCEPT ![i] = next] /\ spent' = spent \cup {i}
      /\ UNCHANGED <<accounts, index, cookies, requests, begun, used, torn>>
  BY DEF Expire
<1>2. next \in {"expired", "none"}
  OBVIOUS
<1> HIDE DEF next
<1>3. /\ invites' \in [Invites -> {"none", "open", "expired"}]
      /\ \A j \in Invites : invites'[j] = IF j = i THEN next ELSE invites[j]
  BY <1>1, <1>2, Standing
<1>4. AccountsTypeOK'
  BY <1>1, <1>3 DEF AccountsInv, AccountsTypeOK
<1>5. ASSUME NEW r \in Requests
      PROVE  LET k == requests[r] IN Sound(k.copy, used) /\ Checked(k) /\ Careful(k, spent')
  BY <1>1 DEF AccountsInv, Careful
<1>6. SpentInv' /\ ListedInv'
  BY <1>1, <1>2, <1>3, Standing DEF SpentInv, ListedInv, Listed
<1> QED
  BY <1>1, <1>4, <1>5, <1>6 DEF AccountsInv

LEMMA AbortInv ==
  ASSUME AccountsInv, NEW r \in Requests, Abort(r)
  PROVE  AccountsInv'
<1>1. torn' = (torn \/ (requests[r].q.op = "create" /\ requests[r].step # "put"))
  BY DEF Abort
<1>2. torn' \in BOOLEAN
  BY <1>1, Standing
<1> QED
  BY <1>1, <1>2, EndStep DEF Abort

LEMMA AccountsNextInv ==
  ASSUME AccountsInv, [AccountsNext]_accountsVars
  PROVE  AccountsInv'
<1>1. CASE UNCHANGED accountsVars
  BY <1>1 DEF accountsVars, AccountsInv, AccountsTypeOK, SpentInv, ListedInv, Listed
<1>2. CASE \E r \in Requests, q \in Asked : q.op # "drop" /\ Arrive(r, q)
  BY <1>2, ArriveInv
<1>3. ASSUME NEW r \in Requests,
             \/ Gate(r) \/ Read(r) \/ Update(r) \/ PutInvite(r) \/ FindInvite(r) \/ DeleteInvite(r)
             \/ ReadIndex(r) \/ WriteIndex(r) \/ ResetAccounts(r) \/ Abort(r)
             \/ \E id \in Ids : Claim(r, id) \/ Accept(r, id)
      PROVE  AccountsInv'
  BY <1>3, GateInv, ReadInv, UpdateInv, PutInviteInv, FindInviteInv, DeleteInviteInv, ReadIndexInv,
     WriteIndexInv, ResetInv, AbortInv, ClaimInv, AcceptInv
<1>4. CASE \E id \in Ids : Login(id) \/ Logout(id)
  BY <1>4, SessionInv
<1>5. CASE \E i \in Invites : Expire(i)
  BY <1>5, ExpireInv
<1> QED
  BY <1>1, <1>2, <1>3, <1>4, <1>5 DEF AccountsNext

LEMMA AccountsInductive == AccountsSpec => []AccountsInv
<1>1. AccountsInv /\ [AccountsNext]_accountsVars => AccountsInv'
  BY AccountsNextInv
<1> QED
  BY <1>1, AccountsInitInv, PTL DEF AccountsSpec

\* The record of accounts, the invites, their index and the requests keep their shape.
THEOREM AccountsTyped == AccountsSpec => []AccountsTypeOK
<1>1. AccountsInv => AccountsTypeOK
  BY DEF AccountsInv
<1> QED
  BY <1>1, AccountsInductive, PTL

\* Whatever number of requests overlap and however their copies of the record replace one
\* another, a claimed Worker has an administrator and no two share a username
\* (removeAdminUser, addAdminUser).
THEOREM AccountsAlwaysSound == AccountsSpec => []AccountsSound
<1>1. AccountsInv => AccountsSound
  BY DEF AccountsInv, Sound, AccountsSound
<1> QED
  BY <1>1, AccountsInductive, PTL

\* No request that began when its invite was spent gets past the invite check, and an open
\* invite is listed or about to be, unless updates of the index overlapped or were cut short
\* (consumeInvite, addToIndex, removeFromIndex).
THEOREM InvitesAlwaysSound == AccountsSpec => []InvitesSound
<1>1. AccountsInv => InvitesSound
  BY DEF AccountsInv, Careful, ListedInv, InvitesSound
<1> QED
  BY <1>1, AccountsInductive, PTL

-----------------------------------------------------------------------------
(***************************************************************************)
(* Both at once.                                                           *)
(***************************************************************************)
\* Whichever of the two records is at work, a step leaves the other one and its calls alone,
\* so that both keep their shape in the behaviours that the runs check.
THEOREM OperatorsTyped == OperatorsSpec => []OperatorsTypeOK
<1>1. OperatorsInit => AccountsInv /\ LatchInv
  BY AccountsInitInv, LatchesInitInv DEF OperatorsInit
<1>2. ASSUME AccountsInv, LatchInv, [OperatorsNext]_<<accountsVars, latchesVars, part>>
      PROVE  AccountsInv' /\ LatchInv'
  <2>1. [AccountsNext]_accountsVars /\ [LatchesNext]_latchesVars
    BY <1>2 DEF OperatorsNext
  <2> QED
    BY <1>2, <2>1, AccountsNextInv, LatchesNextInv
<1>3. AccountsInv /\ LatchInv => OperatorsTypeOK
  BY DEF AccountsInv, LatchInv, OperatorsTypeOK
<1> QED
  BY <1>1, <1>2, <1>3, PTL DEF OperatorsSpec
=============================================================================
