------------------------ MODULE QueueRoomLineProofs ------------------------
(***************************************************************************)
(* Proofs about the steps of QueueRoom: the order of its line, what a step *)
(* may do to a place or a seat, the promptness of its alarm, and that it   *)
(* implements AdmissionLine.                                               *)
(*                                                                         *)
(* The argument is one description of what any step does to the rows, in   *)
(* two parts.  First visitors go away, by a sweep or by leaving.  Then     *)
(* nothing happens, a seat is confirmed, a newcomer is seated or queued,   *)
(* or some of the line are called.  Every action is shown to have that     *)
(* form once, and each property follows from the form.                     *)
(***************************************************************************)
EXTENDS QueueRoomLine, QueueRoomProofs

\* The row b is the row a with, at most, another check-in slot.
Continues(a, b) ==
  /\ b.status = a.status /\ b.seq = a.seq /\ b.joined = a.joined
  /\ b.admittedAt = a.admittedAt /\ b.entered = a.entered

\* q is r after some visitors went away: those with a place by leaving, or
\* because they were overdue at the instant t.
Thinned(r, q, t) ==
  \A v \in Visitor :
    \/ Continues(r[v], q[v])
    \/ /\ q[v].status \notin Live /\ ~q[v].entered
       /\ r[v].status \in Live =>
            q[v].status = "left" \/ v \in Overdue(r, Counts(r), t)

\* The decision behind every call from the line: canAdmit at this instant, or,
\* in the second half of the alarm handler, at the instant the handler read.
GateOpen ==
  \/ CanAdmit(settings, level, clock)
  \/ handler.pc = "admit" /\ CanAdmit(settings, level, handler.at)

\* This step leaves the rows of q alone, but for the visitors of S.
Others(q, S) == \A v \in Visitor : v \notin S => Continues(q[v], row'[v])

Rests(q) == Others(q, {}) /\ nextSeq' \in {nextSeq, nextSeq + 1}

Confirms(q, v) ==
  /\ q[v].status = "admitted"
  /\ q[v].entered \/ clock < q[v].admittedAt + settings.hold
  /\ Others(q, {v})
  /\ Continues([q[v] EXCEPT !.entered = TRUE], row'[v])
  /\ nextSeq' = nextSeq

Arrives(q, v) ==
  /\ q[v].status = "none"
  /\ Others(q, {v})
  /\ row'[v].seq = nextSeq /\ row'[v].joined = clock
  /\ nextSeq' = nextSeq + 1

Seats(q, v) ==
  /\ Arrives(q, v)
  /\ row'[v].status = "admitted" /\ row'[v].admittedAt = clock
  /\ CanAdmit(settings, level, clock)

Queues(q, v) ==
  /\ Arrives(q, v) /\ row'[v].status = "waiting"
  /\ Cardinality(Waiting(q)) < settings.maxWaiting

Calls(q, S) ==
  /\ S \subseteq Waiting(q)
  /\ S # {} => GateOpen
  /\ settings.mode = "queue" =>
       \A u \in S, x \in Waiting(q) \ S : q[u].seq < q[x].seq
  /\ Others(q, S)
  /\ \A v \in S : /\ row'[v].status = "admitted"
                  /\ row'[v].admittedAt \in {clock, handler.at}
                  /\ row'[v].seq = q[v].seq /\ row'[v].joined = q[v].joined
  /\ nextSeq' = nextSeq

\* What a step does to the rows, once those of q remain.
Effect(q) ==
  \/ Rests(q)
  \/ \E v \in Visitor : Confirms(q, v) \/ Seats(q, v) \/ Queues(q, v)
  \/ \E S \in SUBSET Visitor : Calls(q, S)

RowStep == \E q \in [Visitor -> Row] : Thinned(row, q, clock) /\ Effect(q)

\* The strengthening: the alarm handler works with an instant of the past,
\* nobody joined in the future, and the numbers follow arrival.
OrderInv ==
  /\ handler.at <= clock
  /\ \A v \in Visitor : row[v].status \in Live => row[v].joined <= clock
  /\ ArrivalOrder

RoomInv == IInv /\ OrderInv

-----------------------------------------------------------------------------
(***************************************************************************)
(* The parts of a step.                                                    *)
(***************************************************************************)
LEMMA ContinuesSame == \A a : Continues(a, a)
BY DEF Continues

LEMMA ThinnedSame == \A r, t : Thinned(r, r, t)
BY ContinuesSame DEF Thinned

\* Whoever is overdue stays overdue.
LEMMA OverdueLater ==
  ASSUME NEW r \in [Visitor -> Row], NEW d \in Depths, NEW t \in Nat, NEW u \in Nat, t <= u,
         settings \in Setting
  PROVE  Overdue(r, d, t) \subseteq Overdue(r, d, u)
<1> DEFINE grace == MissedSlotGrace(CheckInPeriod(d.waiting), settings.grace)
<1>1. grace \in Nat
  BY PeriodType DEF MissedSlotGrace, Larger, Setting, Depths
<1>2. settings.hold \in Nat /\ TokenTtl \in Nat /\ Stay \in Nat
  BY RoomAssumption DEF Setting
<1> HIDE DEF grace
<1>3. ASSUME NEW v \in Visitor
      PROVE  /\ r[v].joined + Stay <= t => r[v].joined + Stay <= u
             /\ r[v].check + grace <= t => r[v].check + grace <= u
             /\ r[v].admittedAt + settings.hold <= t => r[v].admittedAt + settings.hold <= u
             /\ r[v].admittedAt + TokenTtl <= t => r[v].admittedAt + TokenTtl <= u
  BY <1>1, <1>2 DEF Row
<1> QED
  BY <1>3 DEF Overdue, grace

LEMMA ThinnedLater ==
  ASSUME NEW r \in [Visitor -> Row], NEW q, NEW t \in Nat, NEW u \in Nat, t <= u,
         settings \in Setting, Thinned(r, q, t)
  PROVE  Thinned(r, q, u)
BY OverdueLater, CountsType DEF Thinned

\* A sweep takes away the overdue and purges terminal rows: what stays is
\* unchanged, and an unconfirmed seat that stays is within its hold.
LEMMA SweepThins ==
  ASSUME NEW s, NEW t \in Nat, s.row \in [Visitor -> Row], s.depth = Counts(s.row),
         settings \in Setting
  PROVE  /\ Thinned(s.row, Sweep(s, t).row, t)
         /\ \A v \in Visitor :
              LET r == Sweep(s, t).row[v]
              IN r.status = "admitted" =>
                   r.entered \/ t < r.admittedAt + settings.hold
<1> DEFINE gone == Overdue(s.row, s.depth, t)
           kept == Purge(Expire(s.row, gone), t)
<1>1. Sweep(s, t).row = kept
  BY DEF Sweep
<1>2. \A v \in Visitor :
        \/ v \notin gone /\ kept[v] = s.row[v]
        \/ /\ v \notin gone /\ s.row[v].status \in Terminal
           /\ kept[v].status = "none" /\ ~kept[v].entered
        \/ v \in gone /\ kept[v].status \in {"none", "expired"} /\ ~kept[v].entered
  BY DEF Purge, Expire, Ended, NoRow
<1>3. ASSUME NEW v \in Visitor
      PROVE  /\ \/ Continues(s.row[v], kept[v])
                \/ /\ kept[v].status \notin Live /\ ~kept[v].entered
                   /\ s.row[v].status \in Live => v \in gone
             /\ kept[v].status = "admitted" =>
                  kept[v].entered \/ t < kept[v].admittedAt + settings.hold
  <2>1. s.row[v] \in Row /\ settings.hold \in Nat
    BY DEF Setting
  <2>2. CASE v \in gone
    BY <1>2, <2>2 DEF Live
  <2>3. CASE v \notin gone /\ kept[v] = s.row[v]
    <3>1. kept[v].status = "admitted" /\ ~kept[v].entered =>
            ~(s.row[v].admittedAt + settings.hold <= t)
      BY <2>3 DEF Overdue
    <3> QED
      BY <2>1, <2>3, <3>1, ContinuesSame DEF Row
  <2>4. CASE /\ s.row[v].status \in Terminal /\ kept[v].status = "none"
             /\ ~kept[v].entered
    BY <2>4 DEF Terminal, Live
  <2> QED
    BY <1>2, <2>2, <2>3, <2>4
<1>4. gone = Overdue(s.row, Counts(s.row), t)
  OBVIOUS
<1> HIDE DEF kept, gone
<1> QED
  BY <1>1, <1>3, <1>4 DEF Thinned

\* What an open gate guarantees: all but the closing instant and the end of an
\* override still holds after the handler slept.
LEMMA GateFacts ==
  ASSUME IInv, handler.at <= clock, GateOpen
  PROVE  /\ ~settings.paused
         /\ clock >= settings.opensAt
         /\ ~(settings.healthOn /\ level = "pause" /\ settings.overrideUntil = 0)
<1>1. /\ settings.opensAt \in Nat /\ settings.overrideUntil \in Nat
      /\ clock \in Nat /\ handler.at \in Nat
  BY DEF IInv, ControlInv, Setting
<1> QED
  BY <1>1 DEF GateOpen, CanAdmit, AutoPaused, Overridden

\* An admission calls waiters in the order of the line, and none for an empty
\* budget.
LEMMA AdmissionsCall ==
  ASSUME NEW s, NEW limit \in Int, NEW t \in {clock, handler.at}, s.row \in [Visitor -> Row],
         s.depth.admitted \in Nat, NEW a \in Admissions(s, limit, t), row' = a.row, nextSeq' = nextSeq,
         limit > 0 => GateOpen
  PROVE  \E S \in SUBSET Visitor : Calls(s.row, S)
<1> DEFINE take == Smaller(limit, OpenSlots(Capacity, s.depth.admitted))
<1>1. CASE take <= 0
  <2>1. row' = s.row
    BY <1>1 DEF Admissions
  <2>2. Calls(s.row, {})
    BY <2>1, ContinuesSame DEF Calls, Others
  <2> QED
    BY <2>2
<1>2. CASE ~(take <= 0)
  <2>1. PICK S \in Selections(s, take) : a = AdmitSelected(s, S, t)
    BY <1>2 DEF Admissions
  <2>2. limit > 0
    BY <1>2, RoomAssumption DEF Smaller, OpenSlots, Larger
  <2>3. /\ S \subseteq Waiting(s.row)
        /\ settings.mode = "queue" =>
             \A u \in S, x \in Waiting(s.row) \ S : s.row[u].seq < s.row[x].seq
    BY <2>1 DEF Selections
  <2>4. \A v \in Visitor : row'[v] =
          IF v \in S THEN [s.row[v] EXCEPT !.status = "admitted", !.admittedAt = t,
                            !.entered = ~settings.click, !.check = 0]
          ELSE s.row[v]
    BY <2>1 DEF AdmitSelected
  <2>5. \A v \in S : /\ row'[v].status = "admitted" /\ row'[v].admittedAt = t
                     /\ row'[v].seq = s.row[v].seq /\ row'[v].joined = s.row[v].joined
    <3> SUFFICES ASSUME NEW v \in S
                 PROVE  /\ row'[v].status = "admitted" /\ row'[v].admittedAt = t
                        /\ row'[v].seq = s.row[v].seq /\ row'[v].joined = s.row[v].joined
      OBVIOUS
    <3>1. v \in Visitor /\ s.row[v] \in Row
      BY <2>3 DEF Waiting
    <3> QED
      BY <2>4, <3>1 DEF Row
  <2>6. Others(s.row, S)
    BY <2>4, ContinuesSame DEF Others
  <2>7. Calls(s.row, S)
    BY <2>2, <2>3, <2>5, <2>6 DEF Calls
  <2> QED
    BY <2>3, <2>7 DEF Waiting
<1> QED
  BY <1>1, <1>2

\* The rows after the sweep of an RPC, and of a throttled one.
LEMMA SweptThins ==
  ASSUME IInv
  PROVE  /\ Swept.row \in [Visitor -> Row] /\ Thinned(row, Swept.row, clock)
         /\ MaybeSwept.row \in [Visitor -> Row] /\ Thinned(row, MaybeSwept.row, clock)
         /\ \A v \in Visitor : Swept.row[v].status = "admitted" =>
              Swept.row[v].entered \/ clock < Swept.row[v].admittedAt + settings.hold
<1>1. Snapshot.row = row
  BY DEF Snapshot
<1>2. row \in [Visitor -> Row] /\ settings \in Setting /\ clock \in Nat
  BY DEF IInv, TableInv, ControlInv
<1>3. Swept.row \in [Visitor -> Row] /\ MaybeSwept.row \in [Visitor -> Row]
  BY SweptSound DEF Sound, Snaps
<1>4. Snapshot.depth = Counts(row)
  BY SnapshotSound DEF Sound, IInv, Snapshot
<1> QED
  BY <1>1, <1>2, <1>3, <1>4, SweepThins, ThinnedSame DEF Swept, MaybeSwept

\* A step that leaves the rows alone, or only sweeps them.
LEMMA RestStep ==
  ASSUME NEW q \in [Visitor -> Row], Thinned(row, q, clock), row' = q,
         nextSeq' \in {nextSeq, nextSeq + 1}
  PROVE  RowStep
BY ContinuesSame DEF RowStep, Effect, Rests, Others

LEMMA StillStep ==
  ASSUME row \in [Visitor -> Row], UNCHANGED <<row, nextSeq>>
  PROVE  RowStep
BY ThinnedSame, RestStep

-----------------------------------------------------------------------------
(***************************************************************************)
(* Every action has the form.                                              *)
(***************************************************************************)
LEMMA JoinRowStep ==
  ASSUME IInv, NEW v \in Visitor, Join(v)
  PROVE  RowStep
<1> DEFINE q == Swept.row
<1>1. /\ q \in [Visitor -> Row] /\ Thinned(row, q, clock) /\ Sound(Swept, nextSeq)
      /\ clock \in Nat
  BY SweptThins, SweptSound DEF IInv, ControlInv
<1>2. CASE JoinResume(v)
  <2>1. row' = q /\ nextSeq' = nextSeq
    BY <1>2, <1>1 DEF JoinResume, Commit, Memoize, Sound, Snaps
  <2> QED
    BY <1>1, <2>1, RestStep
<1>3. CASE JoinFull(v) \/ JoinConflict(v)
  <2>1. row' = q /\ nextSeq' \in {nextSeq, nextSeq + 1}
    BY <1>3 DEF JoinFull, JoinConflict, Commit, NextSequence
  <2> QED
    BY <1>1, <2>1, RestStep
<1>4. CASE JoinSeat(v)
  <2> DEFINE r == [NoRow EXCEPT !.status = "admitted", !.joined = clock,
                     !.admittedAt = clock, !.entered = ~settings.click,
                     !.seq = nextSeq]
  <2>1. r.status = "admitted" /\ r.seq = nextSeq /\ r.joined = clock /\ r.admittedAt = clock
    BY DEF NoRow
  <2>2. /\ q[v].status = "none" /\ row' = [q EXCEPT ![v] = r]
        /\ nextSeq' = nextSeq + 1 /\ CanAdmit(settings, level, clock)
    <3>1. Commit(InsertVisitor(Swept, v, r))
      BY <1>4 DEF JoinSeat
    <3>2. InsertVisitor(Swept, v, r).row = [q EXCEPT ![v] = r]
      <4> HIDE DEF r
      <4> QED
        BY <1>1 DEF InsertVisitor, Sound, Snaps
    <3> QED
      BY <1>4, <3>1, <3>2 DEF JoinSeat, SeatFree, NextSequence, Commit
  <2> HIDE DEF r, q
  <2>3. row'[v] = r /\ Others(q, {v})
    BY <1>1, <2>2, ContinuesSame DEF Others
  <2>4. Seats(q, v)
    BY <2>1, <2>2, <2>3 DEF Seats, Arrives
  <2> QED
    BY <1>1, <2>4 DEF RowStep, Effect
<1>5. CASE JoinLine(v)
  <2> DEFINE w == Swept.depth.waiting + 1
             slot == AssignCheckIn(v, w, w, 0, MinPeriod, clock)
             r == [NoRow EXCEPT !.status = "waiting", !.joined = clock,
                     !.check = slot, !.seq = nextSeq]
  <2>1. r.status = "waiting" /\ r.seq = nextSeq /\ r.joined = clock
    BY DEF NoRow
  <2>2. /\ q[v].status = "none" /\ row' = [q EXCEPT ![v] = r]
        /\ nextSeq' = nextSeq + 1 /\ ~LineFull(Swept)
    <3>1. Commit(Memoize(InsertVisitor(Swept, v, r), v))
      BY <1>5 DEF JoinLine
    <3> HIDE DEF r
    <3>2. InsertVisitor(Swept, v, r).row = [q EXCEPT ![v] = r]
      BY <1>1 DEF InsertVisitor, Sound, Snaps
    <3>3. Memoize(InsertVisitor(Swept, v, r), v).row = InsertVisitor(Swept, v, r).row
      BY <1>1 DEF Memoize, InsertVisitor, Sound, Snaps
    <3> QED
      BY <1>5, <3>1, <3>2, <3>3 DEF JoinLine, NextSequence, Commit
  <2> HIDE DEF r, q
  <2>3. row'[v] = r /\ Others(q, {v})
    BY <1>1, <2>2, ContinuesSame DEF Others
  <2>4. Cardinality(Waiting(q)) < settings.maxWaiting
    <3>1. /\ Swept.depth.waiting = Cardinality(Waiting(q))
          /\ Swept.depth.waiting \in Nat /\ settings.maxWaiting \in Nat
      BY <1>1 DEF q, Sound, Snaps, Counts, Depths, IInv, ControlInv, Setting
    <3> QED
      BY <2>2, <3>1 DEF LineFull
  <2>5. Queues(q, v)
    BY <2>1, <2>2, <2>3, <2>4 DEF Queues, Arrives
  <2> QED
    BY <1>1, <2>5 DEF RowStep, Effect
<1> QED
  BY <1>2, <1>3, <1>4, <1>5 DEF Join

\* A poll sweeps at most, and moves the check-in slot of the caller.
LEMMA PollRests ==
  ASSUME IInv, NEW v \in Visitor, Poll(v)
  PROVE  \E q \in [Visitor -> Row] : Thinned(row, q, clock) /\ Rests(q)
<1> DEFINE s == MaybeSwept
<1>1. /\ s.row \in [Visitor -> Row] /\ Thinned(row, s.row, clock) /\ Sound(s, nextSeq)
      /\ row \in [Visitor -> Row] /\ nextSeq' = nextSeq
  BY SweptThins, SweptSound DEF IInv, TableInv, Poll
<1>2. CASE UNCHANGED row
  BY <1>1, <1>2, ThinnedSame, ContinuesSame DEF Rests, Others
<1>3. CASE Commit(s)
  BY <1>1, <1>3, ContinuesSame DEF Commit, Rests, Others
<1>4. CASE Commit(Memoize(CheckIn(s, v, clock), v))
  <2> HIDE DEF s
  <2>1. Memoize(CheckIn(s, v, clock), v).row = CheckIn(s, v, clock).row
    BY <1>1 DEF Memoize, CheckIn, Sound, Snaps
  <2>2. \A u \in Visitor : Continues(s.row[u], CheckIn(s, v, clock).row[u])
    <3>1. \A c : \A u \in Visitor :
             Continues(s.row[u], [s EXCEPT !.row[v].check = c].row[u])
      BY <1>1 DEF Continues, Sound, Snaps, Row
    <3> QED
      BY <3>1, ContinuesSame DEF CheckIn
  <2>3. Rests(s.row)
    BY <1>1, <1>4, <2>1, <2>2 DEF Rests, Others, Commit
  <2> QED
    BY <1>1, <2>3
<1> QED
  BY <1>2, <1>3, <1>4 DEF Poll

LEMMA PollRowStep ==
  ASSUME IInv, NEW v \in Visitor, Poll(v)
  PROVE  RowStep
BY PollRests DEF RowStep, Effect

LEMMA EnterRowStep ==
  ASSUME IInv, NEW v \in Visitor, Enter(v)
  PROVE  RowStep
<1> DEFINE q == Swept.row
<1>1. /\ q \in [Visitor -> Row] /\ Thinned(row, q, clock) /\ Sound(Swept, nextSeq)
      /\ nextSeq' = nextSeq
  BY SweptThins, SweptSound DEF Enter
<1>2. CASE q[v].status = "admitted"
  <2>1. row' = [q EXCEPT ![v].entered = TRUE]
    BY <1>1, <1>2 DEF Enter, Commit, Sound, Snaps
  <2>2. q[v].entered \/ clock < q[v].admittedAt + settings.hold
    BY <1>2, SweptThins
  <2> HIDE DEF q
  <2>3. Others(q, {v}) /\ row'[v] = [q[v] EXCEPT !.entered = TRUE]
    BY <1>1, <2>1, ContinuesSame DEF Others
  <2>4. Confirms(q, v)
    BY <1>1, <1>2, <2>2, <2>3, ContinuesSame DEF Confirms
  <2> QED
    BY <1>1, <2>4 DEF RowStep, Effect
<1>3. CASE q[v].status # "admitted"
  BY <1>1, <1>3, RestStep DEF Enter, Commit
<1> QED
  BY <1>2, <1>3

\* Leaving takes the visitor away and calls from the rest of the line.
LEMMA LeaveRowStep ==
  ASSUME IInv, NEW v \in Visitor, Leave(v)
  PROVE  RowStep
<1>1. /\ Swept.row \in [Visitor -> Row] /\ Thinned(row, Swept.row, clock)
      /\ Sound(Swept, nextSeq) /\ nextSeq' = nextSeq /\ clock \in Nat
  BY SweptThins, SweptSound DEF Leave, IInv, ControlInv
<1>2. CASE Swept.row[v].status \in Live
  <2> DEFINE s == Departed(Swept, v)
  <2>1. Sound(s, nextSeq)
    BY <1>1, <1>2, DepartedSound DEF IInv, TableInv
  <2>2. /\ s.row \in [Visitor -> Row] /\ s.depth.admitted \in Nat
        /\ Thinned(row, s.row, clock)
    <3>1. s.row \in [Visitor -> Row] /\ s.depth.admitted \in Nat
      BY <2>1 DEF Sound, Snaps, Depths
    <3>2. /\ s.row[v].status = "left" /\ ~s.row[v].entered
          /\ \A u \in Visitor : u # v => s.row[u] = Swept.row[u]
      BY <1>1 DEF Departed, Ended, NoRow
    <3> HIDE DEF s
    <3> QED
      BY <1>1, <3>1, <3>2 DEF Thinned, Live
  <2>3. PICK a \in IF CanAdmit(settings, level, clock)
                   THEN Admissions(s, Capacity, clock) ELSE {s} : Commit(a)
    BY <1>2 DEF Leave
  <2>4. row' = a.row
    BY <2>3 DEF Commit
  <2> HIDE DEF s
  <2>5. CASE CanAdmit(settings, level, clock)
    <3>1. GateOpen
      BY <2>5 DEF GateOpen
    <3>2. \E S \in SUBSET Visitor : Calls(s.row, S)
      BY <1>1, <2>2, <2>3, <2>4, <2>5, <3>1, AdmissionsCall, RoomAssumption
    <3> QED
      BY <2>2, <3>2 DEF RowStep, Effect
  <2>6. CASE ~CanAdmit(settings, level, clock)
    BY <1>1, <2>2, <2>3, <2>4, <2>6, RestStep
  <2> QED
    BY <2>5, <2>6
<1>3. CASE Swept.row[v].status \notin Live
  BY <1>1, <1>3, RestStep DEF Leave, Commit
<1> QED
  BY <1>2, <1>3

LEMMA ForceAdmitRowStep ==
  ASSUME IInv, NEW count \in 1 .. Capacity, ForceAdmit(count)
  PROVE  RowStep
<1>1. /\ Swept.row \in [Visitor -> Row] /\ Thinned(row, Swept.row, clock)
      /\ Swept.depth.admitted \in Nat /\ nextSeq' = nextSeq /\ clock \in Nat
      /\ count \in Int
  BY SweptThins, SweptSound, RoomAssumption
  DEF ForceAdmit, IInv, ControlInv, Sound, Snaps, Depths
<1>2. PICK a \in IF CanAdmit(settings, level, clock)
                 THEN Admissions(Swept, count, clock) ELSE {Swept} : Commit(a)
  BY DEF ForceAdmit
<1>3. row' = a.row
  BY <1>2 DEF Commit
<1>4. CASE CanAdmit(settings, level, clock)
  <2>1. GateOpen
    BY <1>4 DEF GateOpen
  <2>2. \E S \in SUBSET Visitor : Calls(Swept.row, S)
    BY <1>1, <1>2, <1>3, <1>4, <2>1, AdmissionsCall
  <2> QED
    BY <1>1, <2>2 DEF RowStep, Effect
<1>5. CASE ~CanAdmit(settings, level, clock)
  BY <1>1, <1>2, <1>3, <1>5, RestStep
<1> QED
  BY <1>4, <1>5

\* The second half of the alarm handler decides with the instant it read
\* before its awaits; an empty budget calls nobody.
LEMMA AlarmAdmitRowStep ==
  ASSUME IInv, AlarmAdmit
  PROVE  RowStep
<1> DEFINE rate == EffectiveRate(settings, level, handler.at)
           budget == AdmissionsForTick(rate, remainder)
<1>1. /\ settings.rate \in Nat /\ SlowDiv \in Nat \ {0} /\ handler.at \in Nat
      /\ remainder \in 0 .. RateDen - 1 /\ nextSeq' = nextSeq
      /\ row \in [Visitor -> Row] /\ Depth.admitted \in Nat
  BY RoomAssumption, SnapshotSound
  DEF IInv, TableInv, ControlInv, Setting, AlarmAdmit, AlarmRest, Sound, Snaps, Depths,
      Snapshot
<1>2. rate \in Int
  BY <1>1, DivMod DEF EffectiveRate
<1>3. budget.admitCount > 0 => GateOpen
  <2>1. ~CanAdmit(settings, level, handler.at) => budget.admitCount = 0
    BY DEF EffectiveRate, AdmissionsForTick
  <2> QED
    BY <2>1 DEF GateOpen, AlarmAdmit
<1> HIDE DEF rate
<1>4. budget.admitCount \in Int
  BY <1>1, <1>2, BudgetType
<1> HIDE DEF budget
<1>5. PICK a \in Admissions(Snapshot, budget.admitCount, handler.at) : Commit(a)
  BY DEF AlarmAdmit, budget, rate
<1>6. Snapshot.row = row /\ Snapshot.depth = Depth /\ row' = a.row
  BY <1>5 DEF Snapshot, Commit
<1>7. \E S \in SUBSET Visitor : Calls(row, S)
  BY <1>1, <1>3, <1>4, <1>5, <1>6, AdmissionsCall
<1> QED
  BY <1>1, <1>7, ThinnedSame DEF RowStep, Effect

\* The operators change settings, and never the rows.
LEMMA OperateFrame ==
  ASSUME Operate
  PROVE  UNCHANGED <<clock, row, nextSeq, outbox, handler>>
BY DEF Operate, SetPaused, SetSchedule, SetMode, SetAdmitUx, SetAdmitRate,
       SetMissedSlotGrace, SetMaxWaiting, SetHealth, OverrideHealth,
       ClearHealthOverride, ConfigureAndArm, Configure

LEMMA NextRowStep ==
  ASSUME IInv, handler.at <= clock, [Next]_vars
  PROVE  RowStep
<1>1. row \in [Visitor -> Row] /\ clock \in Nat /\ handler.at \in Nat
  BY DEF IInv, TableInv, ControlInv
<1>2. CASE Metrics
  BY <1>2, SweptThins, RestStep DEF Metrics, Commit
<1>3. CASE Operate
  BY <1>1, <1>3, OperateFrame, StillStep
<1>4. CASE EnqueueWebhook
  BY <1>1, <1>4, StillStep DEF EnqueueWebhook
<1>5. CASE AlarmFire \/ AlarmDelivered \/ AlarmProbed
  BY <1>1, <1>5, StillStep DEF AlarmFire, AlarmDelivered, AlarmProbed, AlarmRest
<1>6. CASE AlarmSweep
  <2> DEFINE q == Sweep(Snapshot, handler.at).row
  <2>1. Snapshot.row = row /\ row' = q /\ nextSeq' = nextSeq
    BY <1>6 DEF Snapshot, AlarmSweep, AlarmRest, Commit
  <2>2. q \in [Visitor -> Row]
    BY SweptSound DEF Sound, Snaps
  <2>3. Thinned(row, q, handler.at)
    <3>1. Snapshot.depth = Counts(row)
      BY SnapshotSound DEF Sound, IInv, Snapshot
    <3> QED
      BY <1>1, <2>1, <3>1, SweepThins DEF IInv, ControlInv
  <2>4. settings \in Setting
    BY DEF IInv, ControlInv
  <2> HIDE DEF q
  <2> QED
    BY <1>1, <2>1, <2>2, <2>3, <2>4, ThinnedLater, RestStep
<1>7. CASE Tick \/ Restart \/ UNCHANGED vars
  BY <1>1, <1>7, StillStep DEF Tick, Restart, vars
<1> QED
  BY <1>2, <1>3, <1>4, <1>5, <1>6, <1>7, JoinRowStep, PollRowStep, EnterRowStep,
     LeaveRowStep, ForceAdmitRowStep, AlarmAdmitRowStep
  DEF Next

\* Only operators change the settings and only time moves the clock.
LEMMA NextFrame ==
  ASSUME RoomInv, [Next]_vars
  PROVE  /\ UNCHANGED settings \/ UNCHANGED <<row, nextSeq>>
         /\ clock' \in {clock, clock + 1}
         /\ handler'.at <= clock'
<1>1. handler.at <= clock /\ clock \in Nat /\ handler.at \in Nat
  BY DEF RoomInv, OrderInv, IInv, ControlInv
<1>2. CASE Operate
  BY <1>1, <1>2, OperateFrame
<1>3. ASSUME NEW v \in Visitor, Join(v) \/ Poll(v) \/ Enter(v) \/ Leave(v)
      PROVE  UNCHANGED <<settings, clock, handler>>
  BY <1>3 DEF Join, JoinResume, JoinSeat, JoinLine, JoinFull, JoinConflict, Poll,
              Enter, Leave, RoomOnly
<1>4. CASE Metrics \/ EnqueueWebhook \/ \E count \in 1 .. Capacity : ForceAdmit(count)
  BY <1>1, <1>4 DEF Metrics, EnqueueWebhook, ForceAdmit, RoomOnly
<1>5. CASE AlarmFire \/ AlarmDelivered \/ AlarmSweep \/ AlarmProbed \/ AlarmAdmit
  <2>1. handler \in [pc: {"idle", "outbox", "sweep", "probe", "admit"},
                     at: Nat, seen: Levels]
    BY DEF RoomInv, IInv, ControlInv
  <2>2. UNCHANGED <<settings, clock>>
    BY <1>5 DEF AlarmFire, AlarmDelivered, AlarmSweep, AlarmProbed, AlarmAdmit, AlarmRest
  <2>3. handler'.at \in {clock, handler.at, 0}
    <3>1. CASE AlarmFire
      BY <3>1 DEF AlarmFire
    <3>2. CASE AlarmDelivered \/ AlarmSweep \/ AlarmProbed
      BY <2>1, <3>2 DEF AlarmDelivered, AlarmSweep, AlarmProbed
    <3>3. CASE AlarmAdmit
      BY <3>3 DEF AlarmAdmit, NotRunning
    <3> QED
      BY <1>5, <3>1, <3>2, <3>3
  <2> QED
    BY <1>1, <2>2, <2>3
<1>6. CASE Tick \/ Restart \/ UNCHANGED vars
  BY <1>1, <1>6 DEF Tick, Restart, vars, NotRunning
<1> QED
  BY <1>1, <1>2, <1>3, <1>4, <1>5, <1>6 DEF Next

-----------------------------------------------------------------------------
(***************************************************************************)
(* What the form of a step means for a place and for a seat.               *)
(***************************************************************************)
\* Whoever has a live row after a step had it before, with the same number, or
\* is the one arrival of the step and drew the next number.
LEMMA Places ==
  ASSUME IInv, RowStep
  PROVE  /\ nextSeq' \in {nextSeq, nextSeq + 1}
         /\ \A v \in Visitor : row'[v].status \in Live =>
              \/ /\ row[v].status \in Live
                 /\ row'[v].seq = row[v].seq /\ row'[v].joined = row[v].joined
              \/ /\ nextSeq' = nextSeq + 1
                 /\ row'[v].seq = nextSeq /\ row'[v].joined = clock
                 /\ \A u \in Visitor \ {v} : row'[u].status \in Live =>
                      /\ row[u].status \in Live /\ row'[u].seq = row[u].seq
<1>1. PICK q \in [Visitor -> Row] : Thinned(row, q, clock) /\ Effect(q)
  BY DEF RowStep
<1>2. \A v \in Visitor : q[v].status \in Live =>
        /\ row[v].status \in Live /\ q[v].seq = row[v].seq /\ q[v].joined = row[v].joined
  BY <1>1 DEF Thinned, Continues
<1>3. ASSUME NEW S \in SUBSET Visitor, Others(q, S), NEW v \in Visitor, v \notin S,
             row'[v].status \in Live
      PROVE  /\ row[v].status \in Live
             /\ row'[v].seq = row[v].seq /\ row'[v].joined = row[v].joined
  BY <1>2, <1>3 DEF Others, Continues
<1>4. CASE Rests(q)
  BY <1>3, <1>4 DEF Rests
<1>5. ASSUME NEW v \in Visitor, Confirms(q, v)
      PROVE  nextSeq' = nextSeq /\ \A u \in Visitor : row'[u].status \in Live =>
               /\ row[u].status \in Live
               /\ row'[u].seq = row[u].seq /\ row'[u].joined = row[u].joined
  <2>1. q[v].status \in Live /\ q[v] \in Row
    BY <1>5 DEF Confirms, Live
  <2>2. row'[v].seq = q[v].seq /\ row'[v].joined = q[v].joined
    BY <1>5, <2>1 DEF Confirms, Continues, Row
  <2> QED
    BY <1>2, <1>3, <1>5, <2>1, <2>2 DEF Confirms
<1>6. ASSUME NEW v \in Visitor, Seats(q, v) \/ Queues(q, v)
      PROVE  /\ nextSeq' = nextSeq + 1
             /\ row'[v].seq = nextSeq /\ row'[v].joined = clock
             /\ \A u \in Visitor \ {v} : row'[u].status \in Live =>
                  /\ row[u].status \in Live
                  /\ row'[u].seq = row[u].seq /\ row'[u].joined = row[u].joined
  <2>1. Arrives(q, v)
    BY <1>6 DEF Seats, Queues
  <2> QED
    BY <1>3, <2>1 DEF Arrives
<1>7. ASSUME NEW S \in SUBSET Visitor, Calls(q, S)
      PROVE  nextSeq' = nextSeq /\ \A u \in Visitor : row'[u].status \in Live =>
               /\ row[u].status \in Live
               /\ row'[u].seq = row[u].seq /\ row'[u].joined = row[u].joined
  <2>1. \A v \in S : q[v].status \in Live
    BY <1>7 DEF Calls, Waiting, Live
  <2> QED
    BY <1>2, <1>3, <1>7, <2>1 DEF Calls
<1> QED
  BY <1>1, <1>4, <1>5, <1>6, <1>7 DEF Effect

LEMMA OrderNext == RoomInv /\ [Next]_vars => OrderInv'
<1> SUFFICES ASSUME RoomInv, [Next]_vars PROVE OrderInv'
  OBVIOUS
<1>1. /\ handler'.at <= clock' /\ clock' \in {clock, clock + 1} /\ clock \in Nat
      /\ nextSeq \in Nat
  BY NextFrame DEF RoomInv, IInv, ControlInv, TableInv
<1>2. RowStep
  BY NextRowStep DEF RoomInv, OrderInv
<1>3. row \in [Visitor -> Row] /\ row' \in [Visitor -> Row]
  BY NextInv DEF RoomInv, IInv, TableInv
<1>4. \A v \in Visitor : /\ row[v].seq \in Nat /\ row[v].joined \in Nat
                         /\ row'[v].seq \in Nat /\ row'[v].joined \in Nat
  BY <1>3 DEF Row
<1>5. \A v \in Visitor : row[v].status \in Live =>
        row[v].joined <= clock /\ row[v].seq < nextSeq
  BY DEF RoomInv, OrderInv, ArrivalOrder
<1>6. ASSUME NEW v \in Visitor, row'[v].status \in Live
      PROVE  row'[v].joined <= clock' /\ row'[v].seq < nextSeq'
  BY <1>1, <1>2, <1>4, <1>5, <1>6, Places DEF RoomInv
<1>7. ASSUME NEW u \in Visitor, NEW v \in Visitor, u # v,
             row'[u].status \in Live, row'[v].status \in Live
      PROVE  /\ row'[u].seq # row'[v].seq
             /\ row'[u].seq < row'[v].seq => row'[u].joined <= row'[v].joined
  <2>1. CASE /\ row[u].status \in Live /\ row'[u].seq = row[u].seq
             /\ row'[u].joined = row[u].joined
             /\ row[v].status \in Live /\ row'[v].seq = row[v].seq
             /\ row'[v].joined = row[v].joined
    BY <1>7, <2>1 DEF RoomInv, OrderInv, ArrivalOrder
  <2>2. CASE /\ row[u].status \in Live /\ row'[u].seq = row[u].seq
             /\ row'[u].joined = row[u].joined
             /\ row'[v].seq = nextSeq /\ row'[v].joined = clock
    BY <1>1, <1>4, <1>5, <2>2
  <2>3. CASE /\ row[v].status \in Live /\ row'[v].seq = row[v].seq
             /\ row'[u].seq = nextSeq
    BY <1>1, <1>4, <1>5, <2>3
  <2> QED
    BY <1>2, <1>7, <2>1, <2>2, <2>3, Places DEF RoomInv
<1>8. ArrivalOrder'
  BY <1>6, <1>7 DEF ArrivalOrder
<1> QED
  BY <1>1, <1>6, <1>8 DEF OrderInv

LEMMA OrderInit == Init => OrderInv
BY DEF Init, OrderInv, ArrivalOrder, NotRunning, NoRow, Live

\* The strengthened invariant holds in every reachable state.
THEOREM RoomInductive == Spec => []RoomInv
<1>1. Init => RoomInv
  BY InitInv, OrderInit DEF RoomInv
<1>2. RoomInv /\ [Next]_vars => RoomInv'
  BY NextInv, OrderNext DEF RoomInv
<1> QED
  BY <1>1, <1>2, PTL DEF Spec

\* Numbers are drawn once, in the order of arrival, and stay below the next
\* one, for any number of visitors and any interleaving (insertVisitor and
\* nextSequence).
THEOREM ArrivalsOrdered == Spec => []ArrivalOrder
BY RoomInductive, PTL DEF RoomInv, OrderInv

\* Whoever gets a seat in a step finds the gates open, and a newcomer finds
\* them open at this very instant.
LEMMA SeatedOpen ==
  ASSUME IInv, RowStep, NEW v \in Promoted \cup Newcomers
  PROVE  GateOpen /\ (v \in Newcomers => CanAdmit(settings, level, clock))
<1>1. PICK q \in [Visitor -> Row] : Thinned(row, q, clock) /\ Effect(q)
  BY DEF RowStep
<1>2. /\ v \in Visitor /\ row'[v].status = "admitted" /\ nextSeq \in Nat
      /\ row[v].status = "waiting" \/ row'[v].seq >= nextSeq
  BY DEF Promoted, Newcomers, Admitted, Waiting, IInv, TableInv
<1>3. q[v].status = "admitted" =>
        row[v].status = "admitted" /\ q[v].seq < nextSeq /\ q[v].seq \in Nat
  BY <1>1, <1>2 DEF Thinned, Continues, Live, IInv, TableInv, Row
<1>4. ~(q[v].status = "admitted" /\ row'[v].seq = q[v].seq)
  BY <1>2, <1>3
<1>5. CASE Rests(q)
  BY <1>2, <1>4, <1>5 DEF Rests, Others, Continues
<1>6. ASSUME NEW u \in Visitor, Confirms(q, u) PROVE FALSE
  <2>1. CASE u = v
    BY <1>4, <1>6, <2>1 DEF Confirms, Continues, Row
  <2>2. CASE u # v
    BY <1>2, <1>4, <1>6, <2>2 DEF Confirms, Others, Continues
  <2> QED
    BY <2>1, <2>2
<1>7. ASSUME NEW u \in Visitor, Seats(q, u) PROVE CanAdmit(settings, level, clock)
  BY <1>7 DEF Seats
<1>8. ASSUME NEW u \in Visitor, Queues(q, u) PROVE FALSE
  BY <1>2, <1>4, <1>8 DEF Queues, Arrives, Others, Continues
<1>9. ASSUME NEW S \in SUBSET Visitor, Calls(q, S) PROVE GateOpen /\ v \notin Newcomers
  <2>1. CASE v \in S
    <3>1. q[v].status \in Live /\ row'[v].seq = q[v].seq /\ GateOpen
      BY <1>9, <2>1 DEF Calls, Waiting, Live
    <3>2. row[v].seq < nextSeq /\ q[v].seq = row[v].seq /\ row[v].seq \in Nat
      BY <1>1, <1>2, <3>1 DEF Thinned, Continues, Live, IInv, TableInv, Row
    <3> QED
      BY <1>2, <3>1, <3>2 DEF Newcomers
  <2>2. CASE v \notin S
    BY <1>2, <1>4, <1>9, <2>2 DEF Calls, Others, Continues
  <2> QED
    BY <2>1, <2>2
<1> QED
  BY <1>1, <1>5, <1>6, <1>7, <1>8, <1>9 DEF Effect, GateOpen

\* What a step does to the seat of one visitor.
LEMMA SeatStep ==
  ASSUME IInv, RowStep, NEW v \in Visitor, row[v].status = "admitted"
  PROVE  /\ row[v].entered =>
              \/ row'[v].status = "left"
              \/ row'[v].status = "admitted" /\ row'[v].seq = row[v].seq
              \/ clock >= row[v].admittedAt + TokenTtl
         /\ (~row[v].entered /\ row'[v].seq = row[v].seq /\ row'[v].entered) =>
              clock < row[v].admittedAt + settings.hold
<1>1. PICK q \in [Visitor -> Row] : Thinned(row, q, clock) /\ Effect(q)
  BY DEF RowStep
<1>2. /\ row \in [Visitor -> Row] /\ nextSeq \in Nat /\ clock \in Nat
      /\ row[v].seq < nextSeq /\ row[v].seq \in Nat /\ row[v].admittedAt \in Nat
  BY DEF IInv, TableInv, ControlInv, Live, Row
<1>3. CASE q[v].status \notin Live
  <2>1. \/ row'[v].status = q[v].status /\ row'[v].entered = q[v].entered
        \/ nextSeq' = nextSeq + 1 /\ row'[v].seq = nextSeq /\ q[v].status = "none"
    <3>1. ASSUME NEW S \in SUBSET Visitor, Others(q, S), v \notin S
          PROVE  row'[v].status = q[v].status /\ row'[v].entered = q[v].entered
      BY <3>1 DEF Others, Continues
    <3>2. ASSUME NEW S \in SUBSET Visitor, Calls(q, S)
          PROVE  row'[v].status = q[v].status /\ row'[v].entered = q[v].entered
      BY <1>3, <3>1, <3>2 DEF Calls, Waiting, Live
    <3>3. ASSUME NEW u \in Visitor, Confirms(q, u)
          PROVE  row'[v].status = q[v].status /\ row'[v].entered = q[v].entered
      BY <1>3, <3>1, <3>3 DEF Confirms, Live
    <3>4. ASSUME NEW u \in Visitor, Seats(q, u) \/ Queues(q, u)
          PROVE  \/ row'[v].status = q[v].status /\ row'[v].entered = q[v].entered
                 \/ nextSeq' = nextSeq + 1 /\ row'[v].seq = nextSeq /\ q[v].status = "none"
      <4>1. Arrives(q, u)
        BY <3>4 DEF Seats, Queues
      <4>2. CASE u = v
        BY <4>1, <4>2 DEF Arrives
      <4>3. CASE u # v
        BY <3>1, <4>1, <4>3 DEF Arrives
      <4> QED
        BY <4>2, <4>3
    <3>5. ASSUME Rests(q)
          PROVE  row'[v].status = q[v].status /\ row'[v].entered = q[v].entered
      BY <3>5 DEF Rests, Others, Continues
    <3> QED
      BY <1>1, <3>2, <3>3, <3>4, <3>5 DEF Effect
  <2>2. /\ row[v].entered => q[v].status = "left" \/ row[v].admittedAt + TokenTtl <= clock
        /\ ~q[v].entered
    BY <1>1, <1>3 DEF Thinned, Continues, Live, Overdue
  <2> QED
    BY <1>2, <2>1, <2>2, RoomAssumption
<1>4. CASE q[v].status \in Live
  <2>1. Continues(row[v], q[v])
    BY <1>1, <1>4 DEF Thinned
  <2>2. \/ Continues(q[v], row'[v])
        \/ /\ row'[v].status = "admitted" /\ row'[v].seq = q[v].seq
           /\ q[v].entered \/ clock < q[v].admittedAt + settings.hold
    <3>1. ASSUME NEW S \in SUBSET Visitor, Others(q, S), v \notin S
          PROVE  Continues(q[v], row'[v])
      BY <3>1 DEF Others
    <3>2. ASSUME NEW S \in SUBSET Visitor, Calls(q, S) PROVE Continues(q[v], row'[v])
      BY <2>1, <3>1, <3>2 DEF Calls, Waiting, Continues
    <3>3. ASSUME NEW u \in Visitor, Confirms(q, u)
          PROVE  \/ Continues(q[v], row'[v])
                 \/ /\ row'[v].status = "admitted" /\ row'[v].seq = q[v].seq
                    /\ q[v].entered \/ clock < q[v].admittedAt + settings.hold
      BY <3>1, <3>3 DEF Confirms, Continues, Row
    <3>4. ASSUME NEW u \in Visitor, Seats(q, u) \/ Queues(q, u)
          PROVE  Continues(q[v], row'[v])
      BY <1>4, <3>1, <3>4 DEF Seats, Queues, Arrives, Live
    <3> QED
      BY <1>1, <3>1, <3>2, <3>3, <3>4 DEF Effect, Rests
  <2> QED
    BY <2>1, <2>2 DEF Continues
<1> QED
  BY <1>3, <1>4

\* A step that promotes anybody is a call from the line, before whoever stays.
LEMMA PromotedCalled ==
  ASSUME IInv, RowStep, Promoted # {}
  PROVE  /\ Newcomers = {}
         /\ settings.mode = "queue" =>
              \A u \in Promoted, x \in Waiting(row) \cap Waiting(row)' : row[u].seq < row[x].seq
<1>1. PICK q \in [Visitor -> Row] : Thinned(row, q, clock) /\ Effect(q)
  BY DEF RowStep
<1>2. /\ \A v \in Visitor : q[v].status \in Live => Continues(row[v], q[v])
      /\ nextSeq \in Nat /\ \A v \in Visitor : row[v].status \in Live => row[v].seq < nextSeq
      /\ \A v \in Visitor : row[v].seq \in Nat
  BY <1>1 DEF Thinned, IInv, TableInv, Row
<1>3. PICK p \in Visitor : /\ row[p].status = "waiting" /\ row'[p].status = "admitted"
                           /\ row'[p].seq < nextSeq
  BY DEF Promoted, Waiting, Admitted
<1>4. ASSUME NEW v \in Visitor, row[v].status = "waiting", row'[v].status = "admitted"
      PROVE  ~Continues(q[v], row'[v]) /\ q[v].status # "admitted"
  BY <1>2, <1>4 DEF Continues, Live
<1>5. \E S \in SUBSET Visitor : Calls(q, S)
  <2>1. CASE Rests(q)
    BY <1>3, <1>4, <2>1 DEF Rests, Others
  <2>2. ASSUME NEW v \in Visitor, Confirms(q, v) PROVE FALSE
    BY <1>3, <1>4, <2>2 DEF Confirms, Others
  <2>3. ASSUME NEW v \in Visitor, Seats(q, v) \/ Queues(q, v) PROVE FALSE
    BY <1>2, <1>3, <1>4, <2>3 DEF Seats, Queues, Arrives, Others
  <2> QED
    BY <1>1, <2>1, <2>2, <2>3 DEF Effect
<1>6. PICK S \in SUBSET Visitor : Calls(q, S)
  BY <1>5
<1>7. ASSUME NEW v \in Newcomers PROVE FALSE
  <2>1. v \in Visitor /\ row'[v].status = "admitted" /\ row'[v].seq >= nextSeq
    BY DEF Newcomers, Admitted
  <2>2. q[v].status \in Live /\ row'[v].seq = q[v].seq
    BY <1>6, <2>1 DEF Calls, Others, Continues, Waiting, Live
  <2> QED
    BY <1>2, <2>1, <2>2 DEF Continues, Live
<1>8. ASSUME settings.mode = "queue", NEW u \in Promoted, NEW x \in Waiting(row) \cap Waiting(row)'
      PROVE  row[u].seq < row[x].seq
  <2>1. /\ u \in Visitor /\ row[u].status = "waiting" /\ row'[u].status = "admitted"
        /\ x \in Visitor /\ row[x].status = "waiting" /\ row'[x].status = "waiting"
    BY DEF Promoted, Waiting, Admitted
  <2>2. u \in S
    BY <1>4, <1>6, <2>1 DEF Calls, Others
  <2>3. x \notin S /\ q[x].status = "waiting"
    BY <1>6, <2>1 DEF Calls, Others, Continues
  <2>4. q[u].status = "waiting" /\ q[u].seq < q[x].seq
    BY <1>6, <1>8, <2>1, <2>2, <2>3 DEF Calls, Waiting
  <2> QED
    BY <1>2, <2>1, <2>3, <2>4 DEF Continues, Live
<1> QED
  BY <1>7, <1>8

\* A seat after a step is the seat before, or a new one, stamped.
LEMMA StampStep ==
  ASSUME IInv, RowStep, NEW v \in Visitor, row'[v].status = "admitted"
  PROVE  \/ /\ row[v].status = "admitted" /\ row'[v].seq = row[v].seq
            /\ row'[v].admittedAt = row[v].admittedAt
            /\ row[v].entered => row'[v].entered
         \/ /\ row[v].status = "waiting" /\ row'[v].seq = row[v].seq
            /\ row'[v].admittedAt \in {clock, handler.at}
         \/ row'[v].seq = nextSeq /\ row'[v].admittedAt = clock
<1>1. PICK q \in [Visitor -> Row] : Thinned(row, q, clock) /\ Effect(q)
  BY DEF RowStep
<1>2. q[v].status \in Live => Continues(row[v], q[v])
  BY <1>1 DEF Thinned
<1>3. CASE Continues(q[v], row'[v])
  BY <1>2, <1>3 DEF Continues, Live
<1>4. ASSUME NEW u \in Visitor, Confirms(q, u) PROVE \/ Continues(q[v], row'[v])
                                                   \/ /\ q[v].status = "admitted"
                                                      /\ row'[v].seq = q[v].seq
                                                      /\ row'[v].admittedAt = q[v].admittedAt
                                                      /\ row'[v].entered
  BY <1>4 DEF Confirms, Others, Continues, Row
<1>5. ASSUME NEW u \in Visitor, Seats(q, u) \/ Queues(q, u)
      PROVE  \/ Continues(q[v], row'[v])
             \/ row'[v].seq = nextSeq /\ row'[v].admittedAt = clock
  BY <1>5 DEF Seats, Queues, Arrives, Others
<1>6. ASSUME NEW S \in SUBSET Visitor, Calls(q, S)
      PROVE  \/ Continues(q[v], row'[v])
             \/ /\ q[v].status = "waiting" /\ row'[v].seq = q[v].seq
                /\ row'[v].admittedAt \in {clock, handler.at}
  BY <1>6 DEF Calls, Others, Waiting
<1>7. CASE Rests(q)
  BY <1>3, <1>7 DEF Rests, Others
<1> QED
  BY <1>1, <1>2, <1>3, <1>4, <1>5, <1>6, <1>7 DEF Effect, Live, Continues

\* What a step does to a place, in the line or in a seat.
LEMMA PlaceStep ==
  ASSUME IInv, RowStep, NEW v \in Visitor, row[v].status \in Live
  PROVE  \/ row'[v].status = "left"
         \/ row'[v].status \in Live /\ row'[v].seq = row[v].seq
         \/ v \in Overdue(row, Counts(row), clock)
<1>1. PICK q \in [Visitor -> Row] : Thinned(row, q, clock) /\ Effect(q)
  BY DEF RowStep
<1>2. \/ q[v].status \in Live /\ q[v].seq = row[v].seq
      \/ q[v].status = "left"
      \/ v \in Overdue(row, Counts(row), clock)
  BY <1>1 DEF Thinned, Continues
<1>3. ASSUME NEW S \in SUBSET Visitor, Others(q, S), v \notin S
      PROVE  row'[v].status = q[v].status /\ row'[v].seq = q[v].seq
  BY <1>3 DEF Others, Continues
<1>4. CASE Rests(q)
  BY <1>2, <1>3, <1>4 DEF Rests
<1>5. ASSUME NEW u \in Visitor, Confirms(q, u)
      PROVE  row'[v].status = q[v].status /\ row'[v].seq = q[v].seq
  BY <1>3, <1>5 DEF Confirms, Continues, Row
<1>6. ASSUME NEW u \in Visitor, Seats(q, u) \/ Queues(q, u), q[v].status # "none"
      PROVE  row'[v].status = q[v].status /\ row'[v].seq = q[v].seq
  BY <1>3, <1>6 DEF Seats, Queues, Arrives
<1>7. ASSUME NEW S \in SUBSET Visitor, Calls(q, S)
      PROVE  \/ row'[v].status = q[v].status /\ row'[v].seq = q[v].seq
             \/ /\ q[v].status = "waiting"
                /\ row'[v].status \in Live /\ row'[v].seq = q[v].seq
  BY <1>3, <1>7 DEF Calls, Waiting, Live
<1> QED
  BY <1>1, <1>2, <1>4, <1>5, <1>6, <1>7 DEF Effect, Live

\* A join that ends without a live place met a full line or a terminal row
\* its sweep did not purge yet.
LEMMA JoinOutcome ==
  ASSUME IInv, NEW v \in Visitor, Join(v)
  PROVE  \/ row'[v].status \in Live
         \/ meta'.waiting >= settings.maxWaiting
         \/ row'[v].status \in Terminal /\ clock <= row'[v].joined + Retain
<1>1. /\ Sound(Swept, nextSeq) /\ Swept.row \in [Visitor -> Row] /\ clock \in Nat
  BY SweptSound DEF IInv, ControlInv, Sound, Snaps
<1>2. CASE JoinResume(v)
  <2>1. row' = Swept.row
    BY <1>1, <1>2 DEF JoinResume, Commit, Memoize, Sound, Snaps
  <2> QED
    BY <1>2, <2>1 DEF JoinResume
<1>3. CASE JoinFull(v)
  <2>1. meta' = Swept.depth \/ meta' = [waiting |-> Swept.depth.waiting,
                                        admitted |-> Swept.depth.admitted]
    BY <1>3 DEF JoinFull, Commit
  <2> QED
    BY <1>3, <2>1 DEF JoinFull, LineFull
<1>4. CASE JoinConflict(v)
  <2>1. row' = Swept.row /\ Swept.row[v].status \in Terminal
    BY <1>4 DEF JoinConflict, Commit
  <2>2. PICK r : Swept.row = Purge(r, clock)
    BY DEF Swept, Sweep
  <2>3. Swept.row[v] = r[v] /\ ~(r[v].status \in Terminal /\ r[v].joined + Retain < clock)
    BY <2>1, <2>2 DEF Purge, NoRow, Terminal
  <2>4. ~(row'[v].joined + Retain < clock) /\ row'[v].joined \in Nat
    BY <1>1, <2>1, <2>3 DEF Row
  <2> QED
    BY <1>1, <2>1, <2>4, RoomAssumption
<1>5. ASSUME NEW r, r.status \in Live
      PROVE  LET s == InsertVisitor(Swept, v, r)
             IN Memoize(s, v).row = s.row /\ s.row[v].status \in Live
  BY <1>1, <1>5 DEF Memoize, InsertVisitor, Sound, Snaps
<1>6. CASE JoinSeat(v)
  <2> DEFINE r == [NoRow EXCEPT !.status = "admitted", !.joined = clock,
                     !.admittedAt = clock, !.entered = ~settings.click,
                     !.seq = nextSeq]
  <2>1. r.status \in Live /\ row' = InsertVisitor(Swept, v, r).row
    BY <1>6 DEF JoinSeat, Commit, NoRow, Live
  <2> HIDE DEF r
  <2> QED
    BY <1>5, <2>1
<1>7. CASE JoinLine(v)
  <2> DEFINE w == Swept.depth.waiting + 1
             slot == AssignCheckIn(v, w, w, 0, MinPeriod, clock)
             r == [NoRow EXCEPT !.status = "waiting", !.joined = clock,
                     !.check = slot, !.seq = nextSeq]
  <2>1. r.status \in Live /\ row' = Memoize(InsertVisitor(Swept, v, r), v).row
    BY <1>7 DEF JoinLine, Commit, NoRow, Live
  <2> HIDE DEF r
  <2> QED
    BY <1>5, <2>1
<1> QED
  BY <1>2, <1>3, <1>4, <1>6, <1>7 DEF Join

\* An alarm calls no more than the whole visitors of its budget.
LEMMA AlarmPace ==
  ASSUME IInv, AlarmAdmit
  PROVE  Cardinality(Promoted) * RateDen + remainder'
           <= remainder + EffectiveRate(settings, level, handler.at)
<1> DEFINE rate == EffectiveRate(settings, level, handler.at)
           budget == AdmissionsForTick(rate, remainder)
<1>1. /\ settings.rate \in Nat /\ SlowDiv \in Nat \ {0}
      /\ remainder \in 0 .. RateDen - 1 /\ RateDen \in Nat \ {0}
      /\ Sound(Snapshot, nextSeq) /\ Depth.admitted \in Nat
  BY RoomAssumption, EngineAssumption, SnapshotSound
  DEF IInv, TableInv, ControlInv, Setting, Depths
<1>2. rate \in Nat
  <2>1. settings.rate \div SlowDiv \in Nat
    BY <1>1, QuotientType
  <2> QED
    BY <1>1, <2>1 DEF EffectiveRate
<1>3. PICK a \in Admissions(Snapshot, budget.admitCount, handler.at) : Commit(a)
  BY DEF AlarmAdmit
<1>4. remainder' = budget.nextRemainder
  BY DEF AlarmAdmit
<1> HIDE DEF rate
<1>5. /\ budget.admitCount \in Nat /\ remainder' \in Nat
      /\ budget.admitCount * RateDen + remainder' = remainder + rate
  BY <1>1, <1>2, <1>4, BudgetExact DEF Larger
<1> HIDE DEF budget
<1> DEFINE take == Smaller(budget.admitCount, OpenSlots(Capacity, Depth.admitted))
<1>6. Cardinality(Promoted) \in Nat /\ Cardinality(Promoted) <= budget.admitCount
  <2>1. Promoted \in SUBSET Visitor /\ Cardinality(Promoted) \in Nat
    BY FiniteParts DEF Promoted, Waiting
  <2>2. CASE take <= 0
    <3>1. row' = row
      BY <1>3, <2>2 DEF Admissions, Commit, Snapshot
    <3>2. Promoted = {}
      BY <3>1 DEF Promoted, Waiting, Admitted
    <3> QED
      BY <1>5, <3>2, FS_EmptySet
  <2>3. CASE ~(take <= 0)
    <3>1. PICK S \in Selections(Snapshot, take) : row' = AdmitSelected(Snapshot, S, handler.at).row
      BY <1>3, <2>3 DEF Admissions, Commit, Snapshot
    <3>2. take \in Nat /\ take <= budget.admitCount
      BY <1>1, <1>5, <2>3, RoomAssumption DEF Smaller, OpenSlots, Larger
    <3> HIDE DEF take
    <3>3. S \in SUBSET Waiting(row) /\ Cardinality(S) <= take
      BY <1>1, <3>2, SelectionsBounded DEF Snapshot
    <3>4. \A v \in Visitor \ S : row'[v] = row[v]
      BY <3>1 DEF AdmitSelected, Snapshot
    <3>5. Promoted \subseteq S
      BY <3>4 DEF Promoted, Waiting, Admitted
    <3>6. IsFiniteSet(S) /\ Cardinality(S) \in Nat
      BY <3>3, FiniteParts DEF Waiting
    <3>7. Cardinality(Promoted) <= Cardinality(S)
      BY <3>5, <3>6, FS_Subset
    <3> QED
      BY <1>5, <2>1, <3>2, <3>3, <3>6, <3>7
  <2> QED
    BY <2>2, <2>3
<1>7. Cardinality(Promoted) * RateDen <= budget.admitCount * RateDen
  BY <1>1, <1>5, <1>6
<1> QED
  BY <1>1, <1>2, <1>5, <1>6, <1>7 DEF rate

\* The line grows by the one visitor a step queues, below the cap.
LEMMA LineStep ==
  ASSUME IInv, RowStep, IInv'
  PROVE  Cardinality(Waiting(row)') > Cardinality(Waiting(row)) =>
           Cardinality(Waiting(row)') <= settings.maxWaiting
<1>1. PICK q \in [Visitor -> Row] : Thinned(row, q, clock) /\ Effect(q)
  BY DEF RowStep
<1>2. Waiting(q) \subseteq Waiting(row)
  BY <1>1 DEF Thinned, Continues, Waiting, Live
<1>3. CASE Waiting(row') \subseteq Waiting(q)
  <2>1. Waiting(row) \in SUBSET Visitor /\ Waiting(row') \in SUBSET Visitor
    BY DEF Waiting
  <2>2. Cardinality(Waiting(row')) <= Cardinality(Waiting(row))
    BY <1>2, <1>3, <2>1, FiniteParts, FS_Subset
  <2>3. Cardinality(Waiting(row')) \in Nat /\ Cardinality(Waiting(row)) \in Nat
    BY <2>1, FiniteParts
  <2> QED
    BY <2>2, <2>3
<1>4. ASSUME NEW v \in Visitor, Queues(q, v)
      PROVE  Cardinality(Waiting(row')) <= settings.maxWaiting
  <2>1. Waiting(row') = Waiting(q) \cup {v} /\ v \notin Waiting(q)
    BY <1>4 DEF Queues, Arrives, Others, Continues, Waiting
  <2>2. IsFiniteSet(Waiting(q)) /\ Cardinality(Waiting(q)) \in Nat
    BY FiniteParts DEF Waiting
  <2>3. Cardinality(Waiting(row')) = Cardinality(Waiting(q)) + 1
    BY <2>1, <2>2, FS_AddElement
  <2>4. settings.maxWaiting \in Nat
    BY DEF IInv, ControlInv, Setting
  <2> QED
    BY <1>4, <2>2, <2>3, <2>4 DEF Queues
<1>5. \/ Waiting(row') \subseteq Waiting(q)
      \/ \E v \in Visitor : Queues(q, v)
  <2>1. CASE Rests(q)
    BY <2>1 DEF Rests, Others, Continues, Waiting
  <2>2. ASSUME NEW v \in Visitor, Confirms(q, v) PROVE Waiting(row') \subseteq Waiting(q)
    <3>1. row'[v].status = "admitted"
      BY <2>2 DEF Confirms, Continues, Row
    <3> QED
      BY <2>2, <3>1 DEF Confirms, Others, Continues, Waiting
  <2>3. ASSUME NEW v \in Visitor, Seats(q, v) PROVE Waiting(row') \subseteq Waiting(q)
    BY <2>3 DEF Seats, Arrives, Others, Continues, Waiting
  <2>4. ASSUME NEW S \in SUBSET Visitor, Calls(q, S)
        PROVE  Waiting(row') \subseteq Waiting(q)
    BY <2>4 DEF Calls, Others, Continues, Waiting
  <2> QED
    BY <1>1, <2>1, <2>2, <2>3, <2>4 DEF Effect
<1>6. Waiting(row)' = Waiting(row')
  BY DEF Waiting
<1> QED
  BY <1>3, <1>4, <1>5, <1>6

LEMMA StepFacts ==
  ASSUME RoomInv, [Next]_vars
  PROVE  IInv /\ IInv' /\ RowStep
BY NextInv, NextRowStep DEF RoomInv, OrderInv

\* No step of any handler seats anybody behind a closed gate, the alarm
\* handler that slept while the gate closed included (canAdmit).
THEOREM GatesHold == Spec => GateRespected
<1>1. RoomInv /\ [Next]_vars =>
        [Promoted \cup Newcomers # {} =>
           /\ ~settings.paused
           /\ clock >= settings.opensAt
           /\ ~(settings.healthOn /\ level = "pause" /\ settings.overrideUntil = 0)]_vars
  BY StepFacts, SeatedOpen, GateFacts DEF RoomInv, OrderInv
<1> QED
  BY <1>1, RoomInductive, PTL DEF Spec, GateRespected

\* Who may be seated after closesAt: nobody who joins, and nobody called by a
\* leave or a forced admission; only the alarm handler that read its instant
\* before the room closed still calls from the line.
GateAsDecided ==
  [][/\ Newcomers # {} => CanAdmit(settings, level, clock)
     /\ Promoted # {} =>
          \/ CanAdmit(settings, level, clock)
          \/ handler.pc = "admit" /\ CanAdmit(settings, level, handler.at)]_vars

\* Every seat rests on a canAdmit decision, at the instant of the step or at
\* the one the alarm handler read before its awaits: the whole extent of the
\* late admissions ClosedMeansClosed exhibits (alarm, canAdmit).
THEOREM SeatsAsDecided == Spec => GateAsDecided
<1>1. RoomInv /\ [Next]_vars =>
        [/\ Newcomers # {} => CanAdmit(settings, level, clock)
         /\ Promoted # {} =>
              \/ CanAdmit(settings, level, clock)
              \/ handler.pc = "admit" /\ CanAdmit(settings, level, handler.at)]_vars
  BY StepFacts, SeatedOpen DEF GateOpen
<1> QED
  BY <1>1, RoomInductive, PTL DEF Spec, GateAsDecided

\* An unconfirmed seat is confirmed within its hold or never (enter).
THEOREM ConfirmedInTime == Spec => EnterInTime
<1>1. RoomInv /\ [Next]_vars =>
        [\A v \in Visitor :
           (/\ row[v].status = "admitted" /\ ~row[v].entered
            /\ row'[v].seq = row[v].seq /\ row'[v].entered)
           => clock < row[v].admittedAt + settings.hold]_vars
  BY StepFacts, SeatStep
<1> QED
  BY <1>1, RoomInductive, PTL DEF Spec, EnterInTime

\* A confirmed seat ends by its holder's leave or with its token, never by
\* the hold, a setting, an eviction or somebody else's call (sweep).
THEOREM SeatsSafe == Spec => SeatKept
<1>1. RoomInv /\ [Next]_vars =>
        [\A v \in Visitor :
           row[v].status = "admitted" /\ row[v].entered =>
             \/ row'[v].status = "left"
             \/ row'[v].status = "admitted" /\ row'[v].seq = row[v].seq
             \/ clock >= row[v].admittedAt + TokenTtl]_vars
  BY StepFacts, SeatStep
<1> QED
  BY <1>1, RoomInductive, PTL DEF Spec, SeatKept

\* Nobody loses a place, in the line or in a seat, while it keeps to the rules:
\* a place that is not left is lost only when the rule of the sweep has it
\* overdue at this instant.
PlaceKept ==
  [][\A v \in Visitor : row[v].status \in Live =>
       \/ row'[v].status = "left"
       \/ row'[v].status \in Live /\ row'[v].seq = row[v].seq
       \/ v \in Overdue(row, Counts(row), clock)]_vars

\* A waiter that checks in within the grace and a seat within its hold or its
\* token survive every step, whoever takes it and whatever operators change;
\* an alarm that read its instant before its awaits never sweeps too early
\* (sweep, expireOverdue).
THEOREM PlacesSafe == Spec => PlaceKept
<1>1. RoomInv /\ [Next]_vars =>
        [\A v \in Visitor : row[v].status \in Live =>
           \/ row'[v].status = "left"
           \/ row'[v].status \in Live /\ row'[v].seq = row[v].seq
           \/ v \in Overdue(row, Counts(row), clock)]_vars
  BY StepFacts, PlaceStep
<1> QED
  BY <1>1, RoomInductive, PTL DEF Spec, PlaceKept

\* A seat is stamped once, with an instant of the step that gives it: the clock,
\* or what the alarm handler read before its awaits; the stamp and a
\* confirmation last as long as the seat.
SeatStamped ==
  [][\A v \in Visitor : row'[v].status = "admitted" =>
       \/ /\ row[v].status = "admitted" /\ row'[v].seq = row[v].seq
          /\ row'[v].admittedAt = row[v].admittedAt
          /\ row[v].entered => row'[v].entered
       \/ /\ row[v].status = "waiting" /\ row'[v].seq = row[v].seq
          /\ row'[v].admittedAt \in {clock, handler.at}
       \/ row'[v].seq = nextSeq /\ row'[v].admittedAt = clock]_vars

\* admitted_at, from which every token of a seat counts its lifetime, is never
\* moved: signing the token again cannot prolong the seat, and AdmissionTokens
\* may rest on it (admitSelected, enter, insertVisitor).
THEOREM SeatsStampedOnce == Spec => SeatStamped
<1>1. RoomInv /\ [Next]_vars =>
        [\A v \in Visitor : row'[v].status = "admitted" =>
           \/ /\ row[v].status = "admitted" /\ row'[v].seq = row[v].seq
              /\ row'[v].admittedAt = row[v].admittedAt
              /\ row[v].entered => row'[v].entered
           \/ /\ row[v].status = "waiting" /\ row'[v].seq = row[v].seq
              /\ row'[v].admittedAt \in {clock, handler.at}
           \/ row'[v].seq = nextSeq /\ row'[v].admittedAt = clock]_vars
  BY StepFacts, StampStep
<1> QED
  BY <1>1, RoomInductive, PTL DEF Spec, SeatStamped

\* Who may overtake in Queue Mode: one newcomer at a time, in a step that calls
\* nobody from the line; whoever is called stood before all who stay.
OnlyNewcomerOvertakes ==
  [][/\ \A u, v \in Newcomers : u = v
     /\ Promoted # {} => Newcomers = {}
     /\ settings.mode = "queue" =>
          \A u \in Promoted, x \in Waiting(row) \cap Waiting(row)' : row[u].seq < row[x].seq]_vars

\* The line itself is first come, first served; the one way past it is a join
\* that finds a free seat: the exact extent of what FirstComeFirstServed
\* exhibits (join, selectWaiting).
THEOREM LineServedInOrder == Spec => OnlyNewcomerOvertakes
<1>1. ASSUME RoomInv, [Next]_vars, NEW u \in Newcomers, NEW v \in Newcomers
      PROVE  u = v
  <2>1. /\ u \in Visitor /\ row'[u].status \in Live /\ row'[u].seq >= nextSeq
        /\ v \in Visitor /\ row'[v].status \in Live /\ row'[v].seq >= nextSeq
    BY DEF Newcomers, Admitted, Live
  <2>2. /\ nextSeq \in Nat
        /\ \A w \in Visitor : row[w].status \in Live => row[w].seq < nextSeq /\ row[w].seq \in Nat
    BY <1>1 DEF RoomInv, IInv, TableInv, Row
  <2>3. IInv /\ RowStep
    BY <1>1, StepFacts
  <2>4. ~(row[u].status \in Live /\ row'[u].seq = row[u].seq)
    BY <2>1, <2>2
  <2>5. \A w \in Visitor \ {u} : row'[w].status \in Live =>
          row[w].status \in Live /\ row'[w].seq = row[w].seq
    BY <2>1, <2>3, <2>4, Places
  <2> QED
    BY <2>1, <2>2, <2>5
<1>2. RoomInv /\ [Next]_vars =>
        [/\ \A u, v \in Newcomers : u = v
         /\ Promoted # {} => Newcomers = {}
         /\ settings.mode = "queue" =>
              \A u \in Promoted, x \in Waiting(row) \cap Waiting(row)' :
                row[u].seq < row[x].seq]_vars
  BY <1>1, StepFacts, PromotedCalled
<1> QED
  BY <1>2, RoomInductive, PTL DEF Spec, OnlyNewcomerOvertakes

\* How long a visitor without a live place can be turned away by its own old
\* row: no longer than the row is retained after the arrival it stands for.
LockedOutAtMostRetain ==
  [][\A v \in Visitor : Join(v) =>
       \/ row'[v].status \in Live
       \/ meta'.waiting >= settings.maxWaiting
       \/ row'[v].status \in Terminal /\ clock <= row'[v].joined + Retain]_vars

\* A join that fails below the cap fails on a terminal row that the sweep of
\* that very join still had to keep: the exact extent of what LapsedRejoins
\* exhibits (join, insertVisitor, sweep).
THEOREM LockoutEnds == Spec => LockedOutAtMostRetain
<1>1. IInv /\ [Next]_vars =>
        [\A v \in Visitor : Join(v) =>
           \/ row'[v].status \in Live
           \/ meta'.waiting >= settings.maxWaiting
           \/ row'[v].status \in Terminal /\ clock <= row'[v].joined + Retain]_vars
  BY JoinOutcome
<1> QED
  BY <1>1, Inductive, PTL DEF Spec, LockedOutAtMostRetain

\* The seats an alarm gives and the fraction it carries over are paid from the
\* fraction it found and the rate of one tick.
Pace ==
  [][AlarmAdmit =>
       Cardinality(Promoted) * RateDen + remainder'
         <= remainder + EffectiveRate(settings, level, handler.at)]_vars

\* No alarm admits more than one tick's budget, whatever was carried over and
\* however full the room was before: unused slots are not saved up (alarm,
\* admissionsForTick).
THEOREM AlarmsKeepPace == Spec => Pace
<1>1. IInv /\ [Next]_vars =>
        [AlarmAdmit =>
           Cardinality(Promoted) * RateDen + remainder'
             <= remainder + EffectiveRate(settings, level, handler.at)]_vars
  BY AlarmPace
<1> QED
  BY <1>1, Inductive, PTL DEF Spec, Pace

\* The line never grows past the cap in force, however long it was when an
\* operator lowered the cap (join).
THEOREM LineNeverOverCap == Spec => LineCapped
<1>1. RoomInv /\ [Next]_vars =>
        [Cardinality(Waiting(row)') > Cardinality(Waiting(row)) =>
           Cardinality(Waiting(row)') <= settings.maxWaiting]_vars
  BY StepFacts, LineStep
<1> QED
  BY <1>1, RoomInductive, PTL DEF Spec, LineCapped

-----------------------------------------------------------------------------
(***************************************************************************)
(* The room implements the promised line.                                  *)
(***************************************************************************)
\* The arrivals of S by the rows r.
At(r, S) == {[who |-> v, number |-> r[v].seq] : v \in S}

LEMMA AtMember ==
  ASSUME NEW r, NEW S, NEW a
  PROVE  a \in At(r, S) <=> \E v \in S : a = [who |-> v, number |-> r[v].seq]
BY DEF At

\* Arrivals differ when their visitors do.
LEMMA AtMinus == \A r, S, T : At(r, S \ T) = At(r, S) \ At(r, T)
BY DEF At

LEMMA AtPlus == \A r, S, T : At(r, S \cup T) = At(r, S) \cup At(r, T)
BY DEF At

\* Only the numbers matter.
LEMMA AtSame ==
  ASSUME NEW r, NEW q, NEW S, \A v \in S : r[v].seq = q[v].seq
  PROVE  At(r, S) = At(q, S)
BY DEF At

\* There are as many arrivals as visitors, at most.
LEMMA AtCount ==
  ASSUME NEW r, NEW S \in SUBSET Visitor
  PROVE  /\ Cardinality(At(r, S)) <= Cardinality(S)
         /\ Cardinality(At(r, S)) \in Nat /\ Cardinality(S) \in Nat
<1> DEFINE f == [v \in S |-> [who |-> v, number |-> r[v].seq]]
<1>1. f \in Surjection(S, At(r, S))
  BY DEF At, Surjection
<1>2. IsFiniteSet(S)
  BY FiniteParts
<1> QED
  BY <1>1, <1>2, FS_Surjection, FS_CardinalityType

LEMMA LineIsAt ==
  /\ \A S : Arrivals(S) = At(row, S)
  /\ Arrivals(Waiting(row))' = At(row', Waiting(row'))
  /\ Arrivals(Admitted(row))' = At(row', Admitted(row'))
BY DEF Arrivals, At, Waiting, Admitted

\* Visitors that go away leave the line or their seats.
LEMMA ThinnedLine ==
  ASSUME NEW q \in [Visitor -> Row], Thinned(row, q, clock)
  PROVE  \E gone \in SUBSET (At(row, Waiting(row)) \cup At(row, Admitted(row))) :
           /\ At(q, Waiting(q)) = At(row, Waiting(row)) \ gone
           /\ At(q, Admitted(q)) = At(row, Admitted(row)) \ gone
<1>1. \A v \in Visitor : q[v].status \in Live =>
        row[v].status = q[v].status /\ row[v].seq = q[v].seq
  BY DEF Thinned, Continues
<1>2. PICK away \in SUBSET (Waiting(row) \cup Admitted(row)) :
        \A v \in Waiting(row) \cup Admitted(row) : v \in away <=> q[v].status \notin Live
  <2> DEFINE away == {v \in Waiting(row) \cup Admitted(row) : q[v].status \notin Live}
  <2> WITNESS away \in SUBSET (Waiting(row) \cup Admitted(row))
  <2> QED
    OBVIOUS
<1>3. Waiting(q) = Waiting(row) \ away /\ Admitted(q) = Admitted(row) \ away
  <2>1. \A v \in Visitor : v \notin away /\ row[v].status \in Live =>
          row[v].status = q[v].status
    BY <1>1, <1>2 DEF Waiting, Admitted, Live
  <2> QED
    BY <1>1, <1>2, <2>1 DEF Waiting, Admitted, Live
<1>4. At(q, Waiting(q)) = At(row, Waiting(q)) /\ At(q, Admitted(q)) = At(row, Admitted(q))
  <2>1. /\ \A v \in Waiting(q) : q[v].seq = row[v].seq
        /\ \A v \in Admitted(q) : q[v].seq = row[v].seq
    BY <1>1 DEF Waiting, Admitted, Live
  <2> QED
    BY <2>1, AtSame
<1>5. /\ At(q, Waiting(q)) = At(row, Waiting(row)) \ At(row, away)
      /\ At(q, Admitted(q)) = At(row, Admitted(row)) \ At(row, away)
  BY <1>3, <1>4, AtMinus
<1>6. At(row, away) \subseteq At(row, Waiting(row)) \cup At(row, Admitted(row))
  BY <1>2 DEF At
<1> QED
  BY <1>5, <1>6

\* The line counts its seats as the room does.
LEMMA LineCounts == \A S : Line!Cardinality(S) = Cardinality(S)
BY DEF Line!Cardinality, Cardinality

\* A step that leaves the settings alone is a step of the line.
LEMMA RowStepLine ==
  ASSUME RoomInv, RowStep, IInv', UNCHANGED settings
  PROVE  Line!LineNext
<1> DEFINE line == At(row, Waiting(row))
           seats == At(row, Admitted(row))
           line2 == At(row', Waiting(row'))
           seats2 == At(row', Admitted(row'))
<1>1. PICK q \in [Visitor -> Row] : Thinned(row, q, clock) /\ Effect(q)
  BY DEF RowStep
<1>2. PICK gone \in SUBSET (line \cup seats) :
        At(q, Waiting(q)) = line \ gone /\ At(q, Admitted(q)) = seats \ gone
  BY <1>1, ThinnedLine
<1>3. gone \in SUBSET Line!Present
  BY LineIsAt DEF Line!Present
<1>4. Cardinality(seats2) <= Capacity
  <2>1. Cardinality(Admitted(row')) <= Capacity
    BY DEF IInv, TableInv, CapacityHeld, Admitted
  <2>2. Admitted(row') \in SUBSET Visitor
    BY DEF Admitted
  <2> QED
    BY <2>1, <2>2, AtCount, RoomAssumption
<1>5. ASSUME NEW S \in SUBSET Visitor, Others(q, S)
      PROVE  \A v \in Visitor \ S :
               row'[v].status = q[v].status /\ row'[v].seq = q[v].seq
  BY <1>5 DEF Others, Continues
<1>6. ASSUME \A v \in Visitor : row'[v].status = q[v].status /\ row'[v].seq = q[v].seq
      PROVE  line2 = line \ gone /\ seats2 = seats \ gone
  <2>1. Waiting(row') = Waiting(q) /\ Admitted(row') = Admitted(q)
    BY <1>6 DEF Waiting, Admitted
  <2>2. /\ \A v \in Waiting(q) : row'[v].seq = q[v].seq
        /\ \A v \in Admitted(q) : row'[v].seq = q[v].seq
    BY <1>6 DEF Waiting, Admitted
  <2> QED
    BY <1>2, <2>1, <2>2, AtSame
<1>7. ASSUME line2 = line \ gone, seats2 = seats \ gone, nextSeq' = nextSeq
      PROVE  Line!LineNext
  <2>1. Line!Call(gone, {})
    BY <1>7, LineIsAt DEF Line!Call, Line!Head
  <2> QED
    BY <1>3, <2>1 DEF Line!LineNext
<1>8. CASE Rests(q)
  <2>1. line2 = line \ gone /\ seats2 = seats \ gone
    BY <1>5, <1>6, <1>8 DEF Rests
  <2>2. CASE nextSeq' = nextSeq + 1
    <3>1. Line!Waste(gone)
      BY <2>1, <2>2, LineIsAt DEF Line!Waste
    <3> QED
      BY <1>3, <3>1 DEF Line!LineNext
  <2> HIDE DEF line, seats, line2, seats2
  <2> QED
    BY <1>7, <1>8, <2>1, <2>2 DEF Rests
<1>9. ASSUME NEW v \in Visitor, Confirms(q, v) PROVE Line!LineNext
  <2>1. row'[v].status = q[v].status /\ row'[v].seq = q[v].seq
    BY <1>9 DEF Confirms, Continues, Row
  <2>2. \A u \in Visitor : row'[u].status = q[u].status /\ row'[u].seq = q[u].seq
    BY <1>5, <1>9, <2>1 DEF Confirms
  <2> HIDE DEF line, seats, line2, seats2
  <2> QED
    BY <1>6, <1>7, <1>9, <2>2 DEF Confirms

<1>10. ASSUME NEW v \in Visitor, Arrives(q, v)
       PROVE  /\ Line!Newcomer(gone, v)
              /\ At(row', {v}) = {[who |-> v, number |-> nextSeq]}
              /\ row'[v].status = "admitted" =>
                   line2 = line \ gone /\ seats2 = (seats \ gone) \cup At(row', {v})
              /\ row'[v].status = "waiting" =>
                   line2 = (line \ gone) \cup At(row', {v}) /\ seats2 = seats \ gone
  <2>1. \A a \in At(q, Waiting(q)) \cup At(q, Admitted(q)) : a.who # v
    BY <1>10 DEF At, Arrives, Waiting, Admitted
  <2>2. Line!Newcomer(gone, v)
    BY <1>2, <1>10, <2>1, LineIsAt DEF Arrives, Line!Newcomer, Line!Present
  <2>3. At(row', {v}) = {[who |-> v, number |-> nextSeq]}
    BY <1>10 DEF At, Arrives
  <2>4. /\ \A u \in Visitor \ {v} : row'[u].status = q[u].status /\ row'[u].seq = q[u].seq
        /\ v \notin Waiting(q) /\ v \notin Admitted(q)
    BY <1>5, <1>10 DEF Arrives, Waiting, Admitted
  <2>5. /\ At(row', Waiting(q)) = line \ gone
        /\ At(row', Admitted(q)) = seats \ gone
    <3>1. /\ \A u \in Waiting(q) : row'[u].seq = q[u].seq
          /\ \A u \in Admitted(q) : row'[u].seq = q[u].seq
      BY <2>4 DEF Waiting, Admitted
    <3> QED
      BY <1>2, <3>1, AtSame
  <2>6. CASE row'[v].status = "admitted"
    <3>1. Waiting(row') = Waiting(q) /\ Admitted(row') = Admitted(q) \cup {v}
      BY <2>4, <2>6 DEF Waiting, Admitted
    <3> QED
      BY <2>2, <2>3, <2>5, <2>6, <3>1, AtPlus
  <2>7. CASE row'[v].status = "waiting"
    <3>1. Waiting(row') = Waiting(q) \cup {v} /\ Admitted(row') = Admitted(q)
      BY <2>4, <2>7 DEF Waiting, Admitted
    <3> QED
      BY <2>2, <2>3, <2>5, <2>7, <3>1, AtPlus
  <2> QED
    BY <2>2, <2>3, <2>6, <2>7
<1>11. ASSUME NEW v \in Visitor, Seats(q, v) PROVE Line!LineNext
  <2>1. Line!SitDown(gone, v)
    BY <1>4, <1>10, <1>11, LineIsAt, LineCounts DEF Seats, Line!SitDown
  <2> QED
    BY <1>3, <2>1 DEF Line!LineNext
<1>12. ASSUME NEW v \in Visitor, Queues(q, v) PROVE Line!LineNext
  <2>1. Line!QueueUp(gone, v)
    BY <1>10, <1>12, LineIsAt DEF Queues, Line!QueueUp
  <2> QED
    BY <1>3, <2>1 DEF Line!LineNext
<1>13. ASSUME NEW S \in SUBSET Visitor, Calls(q, S) PROVE Line!LineNext
  <2> DEFINE called == At(q, S)
  <2>1. S \subseteq Waiting(q) /\ nextSeq' = nextSeq
    BY <1>13 DEF Calls
  <2>2. /\ \A v \in Visitor \ S : row'[v].status = q[v].status
        /\ \A v \in Visitor : row'[v].seq = q[v].seq
        /\ \A v \in S : row'[v].status = "admitted"
    BY <1>5, <1>13 DEF Calls
  <2>3. /\ Waiting(row') = Waiting(q) \ S /\ Admitted(row') = Admitted(q) \cup S
    BY <2>1, <2>2 DEF Waiting, Admitted
  <2>4. /\ line2 = (line \ gone) \ called
        /\ seats2 = (seats \ gone) \cup called
        /\ called \subseteq line \ gone
    <3>1. line2 = At(q, Waiting(q) \ S) /\ seats2 = At(q, Admitted(q) \cup S)
      <4>1. Waiting(row') \subseteq Visitor /\ Admitted(row') \subseteq Visitor
        BY DEF Waiting, Admitted
      <4> QED
        BY <2>2, <2>3, <4>1, AtSame
    <3>2. called \subseteq At(q, Waiting(q))
      BY <2>1 DEF At
    <3> QED
      BY <1>2, <3>1, <3>2, AtMinus, AtPlus
  <2>5. settings.mode = "queue" => \A a \in called, b \in (line \ gone) \ called :
          a.number < b.number
    <3> SUFFICES ASSUME settings.mode = "queue", NEW a \in At(q, S),
                        NEW b \in At(q, Waiting(q)) \ At(q, S)
                 PROVE  a.number < b.number
      BY <1>2
    <3>1. PICK u \in S : a = [who |-> u, number |-> q[u].seq]
      BY AtMember
    <3>2. PICK x \in Waiting(q) : b = [who |-> x, number |-> q[x].seq]
      BY AtMember
    <3>3. x \notin S
      BY <3>2, AtMember
    <3> QED
      BY <1>13, <3>1, <3>2, <3>3 DEF Calls
  <2> HIDE DEF line, seats, called
  <2>6. Line!Call(gone, called)
    BY <1>4, <2>1, <2>4, <2>5, LineIsAt, LineCounts DEF line, seats, Line!Call, Line!Head
  <2>7. called \in SUBSET (Arrivals(Waiting(row)) \ gone)
    BY <2>4, LineIsAt DEF line
  <2> QED
    BY <1>3, <2>6, <2>7 DEF Line!LineNext
<1> HIDE DEF line, seats, line2, seats2
<1> QED
  BY <1>1, <1>8, <1>9, <1>11, <1>12, <1>13 DEF Effect

LEMMA LineRefined ==
  ASSUME RoomInv, [Next]_vars
  PROVE  [Line!LineNext]_(Line!lineVars)
<1>1. IInv /\ IInv' /\ RowStep
  BY StepFacts
<1>2. CASE UNCHANGED settings
  BY <1>1, <1>2, RowStepLine
<1>3. CASE UNCHANGED <<row, nextSeq>>
  <2>1. /\ Arrivals(Waiting(row))' = Arrivals(Waiting(row))
        /\ Arrivals(Admitted(row))' = Arrivals(Admitted(row))
    BY <1>3, LineIsAt
  <2>2. CASE (settings.mode = "queue")' = (settings.mode = "queue")
    BY <1>3, <2>1, <2>2 DEF Line!lineVars
  <2>3. CASE (settings.mode = "queue")' = ~(settings.mode = "queue")
    <3>1. Line!SwitchMode
      BY <1>3, <2>1, <2>3 DEF Line!SwitchMode
    <3> QED
      BY <3>1 DEF Line!LineNext
  <2> QED
    BY <2>2, <2>3
<1> QED
  BY <1>2, <1>3, NextFrame

\* The room with its counters, memo, sweeps, alarm and evictions is the
\* promised line, for any number of visitors, capacity and settings.
THEOREM RoomImplementsLine == Spec => ImplementsLine
<1>1. Init => Line!LineInit
  <2> SUFFICES ASSUME Init PROVE Line!LineInit
    OBVIOUS
  <2>1. Waiting(row) = {} /\ Admitted(row) = {}
    BY DEF Init, NoRow, Waiting, Admitted
  <2>2. (settings.mode = "queue") \in BOOLEAN
    OBVIOUS
  <2> QED
    BY <2>1, <2>2 DEF Init, Line!LineInit, Arrivals
<1>2. RoomInv /\ [Next]_vars => [Line!LineNext]_(Line!lineVars)
  BY LineRefined
<1> QED
  BY <1>1, <1>2, RoomInductive, PTL DEF Spec, ImplementsLine, Line!LineSpec

-----------------------------------------------------------------------------
(***************************************************************************)
(* The alarm is armed whenever there is work.                              *)
(***************************************************************************)
\* ensureAlarm arms the alarm for the work it is told of.
LEMMA EnsureArms ==
  ASSUME NEW cfg, NEW lvl, NEW d \in Depths, NEW hook \in Nat, clock \in Nat,
         alarm \in Nat, EnsureAlarm(cfg, lvl, d, hook)
  PROVE  /\ (d.waiting > 0 \/ d.admitted > 0 \/ cfg.healthOn \/ hook # 0) => alarm' # 0
         /\ d.waiting > 0 => alarm' <= clock + Larger(WaitTick, ActiveTick)
         /\ d.waiting > 0 /\ CanAdmit(cfg, lvl, clock) => alarm' <= clock + ActiveTick
<1> DEFINE interval == AlarmInterval(cfg, lvl, d)
           next == NextAlarm(cfg, lvl, d, hook)
<1>1. d.waiting \in Nat /\ d.admitted \in Nat
  BY DEF Depths
<1>2. /\ interval \in Nat \ {0}
      /\ d.waiting > 0 => interval <= Larger(WaitTick, ActiveTick)
      /\ d.waiting > 0 /\ CanAdmit(cfg, lvl, clock) => interval <= ActiveTick
  BY <1>1, RoomAssumption DEF AlarmInterval, Smaller, Larger
<1> HIDE DEF interval
<1>3. /\ next \in Nat
      /\ hook = 0 => next = clock + interval
      /\ next = clock + interval \/ next = hook
      /\ d.waiting > 0 => next <= clock + interval
  BY <1>1, <1>2 DEF NextAlarm, Smaller, interval
<1>4. next # 0
  BY <1>2, <1>3
<1> HIDE DEF next
<1>5. alarm' = IF Idle(cfg, d, hook) THEN 0
               ELSE IF alarm = 0 \/ alarm > next THEN next ELSE alarm
  BY DEF EnsureAlarm, next
<1>6. CASE Idle(cfg, d, hook)
  BY <1>1, <1>6 DEF Idle
<1>7. CASE ~Idle(cfg, d, hook)
  <2>1. alarm' # 0 /\ alarm' \in Nat /\ alarm' <= next
    BY <1>3, <1>4, <1>5, <1>7
  <2>2. Larger(WaitTick, ActiveTick) \in Nat /\ ActiveTick \in Nat
    BY RoomAssumption DEF Larger
  <2> QED
    BY <1>2, <1>3, <2>1, <2>2
<1> QED
  BY <1>6, <1>7

\* Nothing but an operator can have closed the gate.
Unattended ==
  CanAdmit(settings, level, clock) /\ settings.opensAt = 0 /\ ~settings.healthOn

LEMMA UnattendedNext ==
  Unattended' => CanAdmit(settings', level', clock')
BY DEF Unattended, CanAdmit, AutoPaused, Overridden

LEMMA PromptParts ==
  AlarmPrompt <=>
    (handler.pc = "idle" =>
       /\ HasWork => alarm # 0
       /\ Waiting(row) # {} => alarm <= clock + Larger(WaitTick, ActiveTick)
       /\ Waiting(row) # {} /\ Unattended => alarm <= clock + ActiveTick)
BY DEF AlarmPrompt, Unattended

\* A step that ends with ensureAlarm leaves the alarm prompt, whatever it was.
LEMMA EnsuredPrompt ==
  ASSUME IInv, IInv', UNCHANGED clock,
         EnsureAlarm(settings', level', meta', outbox')
  PROVE  AlarmPrompt'
<1>1. /\ clock \in Nat /\ alarm \in Nat /\ outbox' \in Nat /\ meta' \in Depths
      /\ meta' = Counts(row')
  BY DEF IInv, ControlInv, TableInv, DepthCoherent
<1>2. /\ Waiting(row') # {} => meta'.waiting > 0
      /\ Admitted(row') # {} => meta'.admitted > 0
  <2>1. /\ Waiting(row') \in SUBSET Visitor /\ Admitted(row') \in SUBSET Visitor
    BY DEF Waiting, Admitted
  <2>2. /\ meta'.waiting = Cardinality(Waiting(row'))
        /\ meta'.admitted = Cardinality(Admitted(row'))
    BY <1>1 DEF Counts
  <2> QED
    BY <2>1, <2>2, FiniteParts, FS_EmptySet
<1>3. /\ (meta'.waiting > 0 \/ meta'.admitted > 0 \/ settings'.healthOn \/ outbox' # 0)
         => alarm' # 0
      /\ meta'.waiting > 0 => alarm' <= clock + Larger(WaitTick, ActiveTick)
      /\ meta'.waiting > 0 /\ CanAdmit(settings', level', clock) => alarm' <= clock + ActiveTick
  BY <1>1, EnsureArms
<1>4. HasWork' => alarm' # 0
  BY <1>2, <1>3 DEF HasWork, Waiting, Admitted
<1>5. Waiting(row)' = Waiting(row')
  BY DEF Waiting
<1>6. Waiting(row') # {} /\ Unattended' => alarm' <= clock + ActiveTick
  BY <1>2, <1>3, UnattendedNext
<1> QED
  BY <1>2, <1>3, <1>4, <1>5, <1>6 DEF AlarmPrompt, Unattended

LEMMA Later ==
  ASSUME NEW a \in Nat, NEW c \in Nat, NEW d \in {c, c + 1}
  PROVE  \A n \in Nat : a <= c + n => a <= d + n
OBVIOUS

\* A step that adds no work and opens no gate may leave the alarm alone.
LEMMA RelaxedPrompt ==
  ASSUME IInv, AlarmPrompt, handler'.pc = handler.pc, UNCHANGED <<alarm, outbox>>,
         clock' \in {clock, clock + 1},
         Waiting(row') \subseteq Waiting(row), Admitted(row') \subseteq Admitted(row),
         settings'.healthOn = settings.healthOn, Unattended' => Unattended
  PROVE  AlarmPrompt'
<1>1. /\ clock \in Nat /\ alarm \in Nat /\ Larger(WaitTick, ActiveTick) \in Nat
      /\ ActiveTick \in Nat
  BY RoomAssumption DEF IInv, ControlInv, Larger
<1>2. \A n \in Nat : alarm <= clock + n => alarm' <= clock' + n
  <2>1. \A n \in Nat : alarm <= clock + n => alarm <= clock' + n
    BY <1>1, Later
  <2> QED
    BY <2>1
<1>3. Waiting(row)' = Waiting(row') /\ Admitted(row)' = Admitted(row')
  BY DEF Waiting, Admitted
<1>4. HasWork' => HasWork
  BY <1>3 DEF HasWork
<1>5. handler'.pc = "idle" =>
        /\ HasWork' => alarm' # 0
        /\ Waiting(row)' # {} => alarm' <= clock' + Larger(WaitTick, ActiveTick)
        /\ Waiting(row)' # {} /\ Unattended' => alarm' <= clock' + ActiveTick
  BY <1>1, <1>2, <1>3, <1>4, PromptParts
<1> QED
  BY <1>5 DEF AlarmPrompt, Unattended

LEMMA ThinnedParts ==
  ASSUME NEW q, Thinned(row, q, clock)
  PROVE  Waiting(q) \subseteq Waiting(row) /\ Admitted(q) \subseteq Admitted(row)
BY DEF Thinned, Continues, Waiting, Admitted, Live

\* An RPC that only sweeps adds no work.
LEMMA SweptPrompt ==
  ASSUME IInv, AlarmPrompt, RoomOnly, UNCHANGED alarm,
         NEW q \in [Visitor -> Row], Thinned(row, q, clock), Rests(q)
  PROVE  AlarmPrompt'
<1>1. Waiting(q) \subseteq Waiting(row) /\ Admitted(q) \subseteq Admitted(row)
  BY ThinnedParts
<1>2. Waiting(row') \subseteq Waiting(q) /\ Admitted(row') \subseteq Admitted(q)
  BY DEF Rests, Others, Continues, Waiting, Admitted
<1>3. UNCHANGED <<clock, settings, level, outbox, handler>>
  BY DEF RoomOnly
<1>4. Unattended' => Unattended
  BY <1>3 DEF Unattended, CanAdmit, AutoPaused, Overridden
<1> QED
  BY <1>1, <1>2, <1>3, <1>4, RelaxedPrompt

LEMMA CommitMeta ==
  ASSUME NEW s, Commit(s)
  PROVE  meta' = s.depth
BY DEF Commit

\* Every RPC that seats, queues or frees anybody ends with ensureAlarm.
LEMMA RpcPrompt ==
  ASSUME IInv, IInv', AlarmPrompt, NEW v,
         Join(v) \/ Enter(v) \/ Leave(v) \/ \E count \in 1 .. Capacity : ForceAdmit(count)
  PROVE  AlarmPrompt'
<1>1. RoomOnly /\ UNCHANGED <<clock, settings, level, outbox>>
  BY DEF Join, JoinResume, JoinSeat, JoinLine, JoinFull, JoinConflict, Enter, Leave,
         ForceAdmit, RoomOnly
<1>2. ASSUME NEW d, EnsureAlarm(settings, level, d, outbox), meta' = d
      PROVE  AlarmPrompt'
  <2>1. EnsureAlarm(settings', level', meta', outbox')
    BY <1>1, <1>2 DEF EnsureAlarm, NextAlarm, Idle, AlarmInterval
  <2> QED
    BY <1>1, <2>1, EnsuredPrompt
<1>3. ASSUME Commit(Swept), UNCHANGED alarm, nextSeq' \in {nextSeq, nextSeq + 1}
      PROVE  AlarmPrompt'
  <2>1. Rests(Swept.row)
    BY <1>3, ContinuesSame DEF Commit, Rests, Others
  <2> QED
    BY <1>1, <1>3, <2>1, SweptThins, SweptPrompt
<1>4. Sound(Swept, nextSeq)
  BY SweptSound
<1>5. CASE JoinResume(v)
  <2>1. Memoize(Swept, v).depth = Swept.depth
    BY <1>4 DEF Memoize, Sound, Snaps
  <2> QED
    BY <1>2, <1>5, <2>1, CommitMeta DEF JoinResume
<1>6. CASE JoinSeat(v)
  BY <1>2, <1>6, CommitMeta DEF JoinSeat
<1>7. CASE JoinLine(v)
  <2> DEFINE w == Swept.depth.waiting + 1
             slot == AssignCheckIn(v, w, w, 0, MinPeriod, clock)
             r == [NoRow EXCEPT !.status = "waiting", !.joined = clock,
                     !.check = slot, !.seq = nextSeq]
             s == InsertVisitor(Swept, v, r)
  <2>1. Commit(Memoize(s, v)) /\ EnsureAlarm(settings, level, s.depth, outbox)
    BY <1>7 DEF JoinLine
  <2> HIDE DEF r
  <2>2. Memoize(s, v).depth = s.depth
    BY <1>4 DEF Memoize, InsertVisitor, Sound, Snaps
  <2> HIDE DEF s
  <2> QED
    BY <1>2, <2>1, <2>2, CommitMeta
<1>8. CASE JoinFull(v) \/ JoinConflict(v)
  BY <1>3, <1>8 DEF JoinFull, JoinConflict, NextSequence
<1>9. CASE Enter(v)
  <2>1. CASE Swept.row[v].status = "admitted"
    <3>1. [Swept EXCEPT !.row[v].entered = TRUE].depth = Swept.depth
      BY <1>4 DEF Sound, Snaps
    <3> QED
      BY <1>2, <1>9, <2>1, <3>1, CommitMeta DEF Enter
  <2>2. CASE Swept.row[v].status # "admitted"
    BY <1>3, <1>9, <2>2 DEF Enter
  <2> QED
    BY <2>1, <2>2
<1>10. CASE Leave(v)
  <2>1. CASE Swept.row[v].status \in Live
    BY <1>2, <1>10, <2>1, CommitMeta DEF Leave
  <2>2. CASE Swept.row[v].status \notin Live
    BY <1>3, <1>10, <2>2 DEF Leave
  <2> QED
    BY <2>1, <2>2
<1>11. ASSUME NEW count \in 1 .. Capacity, ForceAdmit(count) PROVE AlarmPrompt'
  BY <1>2, <1>11, CommitMeta DEF ForceAdmit
<1> QED
  BY <1>5, <1>6, <1>7, <1>8, <1>9, <1>10, <1>11 DEF Join

\* Every setter that can open a gate or start the probe ends with ensureAlarm;
\* the others close the gate or do not touch it.
LEMMA OperatePrompt ==
  ASSUME IInv, IInv', AlarmPrompt, Operate
  PROVE  AlarmPrompt'
<1>1. UNCHANGED <<clock, row, outbox, handler>>
  BY OperateFrame
<1>2. Depth = meta
  BY DEF IInv, TableInv, DepthCoherent, Depth
<1>3. ASSUME NEW new, Configure(new), EnsureAlarm(new, level', Depth, outbox),
             LoadDepth, UNCHANGED meta
      PROVE  AlarmPrompt'
  <2>1. EnsureAlarm(settings', level', meta', outbox')
    BY <1>1, <1>2, <1>3 DEF Configure
  <2> QED
    BY <1>1, <2>1, EnsuredPrompt
<1>4. ASSUME NEW new, ConfigureAndArm(new) PROVE AlarmPrompt'
  BY <1>3, <1>4 DEF ConfigureAndArm, Configure
<1>5. ASSUME NEW new \in Setting, Configure(new), UNCHANGED <<level, alarm>>,
             new.healthOn = settings.healthOn, new.opensAt = settings.opensAt,
             new.closesAt = settings.closesAt, new.paused \/ new.paused = settings.paused
      PROVE  AlarmPrompt'
  <2>1. settings' = new
    BY <1>5 DEF Configure
  <2>2. Unattended' => Unattended
    BY <1>1, <1>5, <2>1 DEF Unattended, CanAdmit, AutoPaused
  <2> QED
    BY <1>1, <1>5, <2>1, <2>2, RelaxedPrompt
<1>6. settings \in Setting
  BY DEF IInv, ControlInv
<1>7. ASSUME NEW p \in BOOLEAN, SetPaused(p) PROVE AlarmPrompt'
  <2>1. CASE ConfigureAndArm([settings EXCEPT !.paused = p])
    BY <1>4, <2>1
  <2>2. CASE p /\ Configure([settings EXCEPT !.paused = p]) /\ UNCHANGED <<level, alarm>>
    BY <1>5, <1>6, <2>2 DEF Setting
  <2> QED
    BY <1>7, <2>1, <2>2 DEF SetPaused
<1>8. ASSUME NEW n \in Chosen("maxWaiting"), SetMaxWaiting(n) PROVE AlarmPrompt'
  <2>1. n \in Nat \ {0}
    BY SettingsAssumption DEF Chosen, Setting
  <2>2. [settings EXCEPT !.maxWaiting = n] \in Setting
    BY <1>6, <2>1 DEF Setting
  <2> QED
    BY <1>5, <1>6, <1>8, <2>2 DEF SetMaxWaiting, Setting
<1>9. ASSUME ClearHealthOverride PROVE AlarmPrompt'
  BY <1>5, <1>6, <1>9 DEF ClearHealthOverride, Setting
<1>10. ASSUME NEW on, SetHealth(on) PROVE AlarmPrompt'
  BY <1>3, <1>10 DEF SetHealth, Configure
<1> QED
  BY <1>4, <1>7, <1>8, <1>9, <1>10
  DEF Operate, SetSchedule, SetMode, SetAdmitUx, SetAdmitRate, SetMissedSlotGrace,
      OverrideHealth

LEMMA PromptNext == RoomInv /\ AlarmPrompt /\ [Next]_vars => AlarmPrompt'
<1> SUFFICES ASSUME RoomInv, AlarmPrompt, [Next]_vars PROVE AlarmPrompt'
  OBVIOUS
<1>1. IInv /\ IInv'
  BY StepFacts
<1>2. /\ clock \in Nat \ {0} /\ WaitTick \in Nat /\ ActiveTick \in Nat
      /\ row \in [Visitor -> Row]
  BY <1>1, RoomAssumption DEF IInv, TableInv, ControlInv
<1>3. ASSUME NEW v \in Visitor, Poll(v) PROVE AlarmPrompt'
  BY <1>1, <1>3, PollRests, SweptPrompt DEF Poll
<1>4. CASE Metrics
  <2>1. Rests(MaybeSwept.row)
    BY <1>4, ContinuesSame DEF Metrics, Commit, Rests, Others
  <2> QED
    BY <1>1, <1>4, <2>1, SweptThins, SweptPrompt DEF Metrics
<1>5. CASE Operate
  BY <1>1, <1>5, OperatePrompt
<1>6. CASE EnqueueWebhook
  <2>1. Depth = meta
    BY <1>1 DEF IInv, TableInv, DepthCoherent, Depth
  <2>2. EnsureAlarm(settings', level', meta', outbox') /\ UNCHANGED clock
    BY <1>6, <2>1 DEF EnqueueWebhook
  <2> QED
    BY <1>1, <2>2, EnsuredPrompt
<1>7. CASE AlarmFire \/ AlarmDelivered \/ AlarmSweep \/ AlarmProbed
  <2>1. handler \in [pc: {"idle", "outbox", "sweep", "probe", "admit"},
                     at: Nat, seen: Levels]
    BY <1>1 DEF IInv, ControlInv
  <2>2. handler'.pc # "idle"
    <3>1. CASE AlarmFire
      BY <3>1 DEF AlarmFire
    <3>2. CASE AlarmDelivered \/ AlarmProbed
      BY <2>1, <3>2 DEF AlarmDelivered, AlarmProbed
    <3>3. CASE AlarmSweep
      BY <2>1, <3>3 DEF AlarmSweep
    <3> QED
      BY <1>7, <3>1, <3>2, <3>3
  <2> QED
    BY <2>2 DEF AlarmPrompt
<1>8. CASE AlarmAdmit
  <2>1. PICK s : Commit(s) /\ EnsureAlarm(settings, level, s.depth, outbox)
    BY <1>8 DEF AlarmAdmit
  <2>2. UNCHANGED <<clock, settings, level, outbox>> /\ meta' = s.depth
    BY <1>8, <2>1, CommitMeta DEF AlarmAdmit, AlarmRest
  <2>3. EnsureAlarm(settings', level', meta', outbox')
    BY <2>1, <2>2
  <2> QED
    BY <1>1, <2>2, <2>3, EnsuredPrompt
<1>9. CASE Restart /\ handler.pc # "idle"
  <2>1. /\ alarm' = clock /\ clock' = clock /\ row' = row
        /\ settings' = settings /\ level' = level /\ outbox' = outbox
    BY <1>9 DEF Restart
  <2> QED
    BY <1>2, <2>1 DEF AlarmPrompt, Larger
<1>10. ASSUME UNCHANGED <<row, settings, level, outbox, alarm>>,
              handler'.pc = handler.pc, clock' \in {clock, clock + 1}
       PROVE  AlarmPrompt'
  <2>1. Unattended' => Unattended
    <3>1. /\ settings.closesAt \in Nat /\ settings.opensAt \in Nat
      BY <1>1 DEF IInv, ControlInv, Setting
    <3> QED
      BY <1>2, <1>10, <3>1 DEF Unattended, CanAdmit, AutoPaused
  <2> QED
    BY <1>1, <1>10, <2>1, RelaxedPrompt
<1>11. ASSUME NEW v \in Visitor, Join(v) \/ Poll(v) \/ Enter(v) \/ Leave(v)
       PROVE  AlarmPrompt'
  <2>1. CASE Join(v) \/ Enter(v) \/ Leave(v)
    BY <1>1, <2>1, RpcPrompt
  <2> QED
    BY <1>3, <1>11, <2>1
<1>12. ASSUME NEW count \in 1 .. Capacity, ForceAdmit(count) PROVE AlarmPrompt'
  BY <1>1, <1>12, RpcPrompt
<1>13. CASE Restart
  <2>1. CASE handler.pc = "idle"
    BY <1>10, <1>13, <2>1 DEF Restart, NotRunning
  <2> QED
    BY <1>9, <1>13, <2>1
<1>14. CASE Tick
  BY <1>10, <1>14 DEF Tick
<1>15. CASE UNCHANGED vars
  BY <1>10, <1>15 DEF vars
<1> QED
  BY <1>4, <1>5, <1>6, <1>7, <1>8, <1>11, <1>12, <1>13, <1>14, <1>15 DEF Next

LEMMA PromptInit == Init => AlarmPrompt
<1> SUFFICES ASSUME Init PROVE AlarmPrompt
  OBVIOUS
<1>1. Waiting(row) = {} /\ Admitted(row) = {}
  BY DEF Init, NoRow, Waiting, Admitted
<1>2. HasWork => alarm # 0
  BY <1>1, RoomAssumption DEF Init, HasWork
<1> QED
  BY <1>1, <1>2 DEF AlarmPrompt

\* Whenever the handler rests, an alarm is armed for whatever work there is,
\* and soon enough for the line, for all settings, intervals and evictions.
THEOREM NeverSleepsOnWork == Spec => []AlarmPrompt
BY RoomInductive, PromptInit, PromptNext, PTL DEF Spec

=============================================================================
