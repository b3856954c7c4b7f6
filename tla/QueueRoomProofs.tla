-------------------------- MODULE QueueRoomProofs --------------------------
(***************************************************************************)
(* Proofs about QueueRoom for every set of visitors, capacity, timing and  *)
(* choice of settings.                                                     *)
(*                                                                         *)
(* The argument is about snapshots: a handler turns the snapshot of the    *)
(* room into another one with a chain of operators, so it is enough that   *)
(* each operator keeps a snapshot sound, and that committing a sound       *)
(* snapshot establishes the invariant.                                     *)
(***************************************************************************)
EXTENDS QueueRoom, FiniteSetTheorems, TLAPS

Memo == UNION {[D -> Nat] : D \in SUBSET Nat}
Snaps == [row: [Visitor -> Row], depth: Depths, ahead: Memo]

\* A sound snapshot when the next sequence number is n.
Sound(s, n) ==
  /\ s \in Snaps
  /\ s.depth = Counts(s.row)
  /\ Cardinality(Admitted(s.row)) <= Capacity
  /\ \A v \in Visitor : s.row[v].status \in Live => s.row[v].seq < n
  /\ \A x \in DOMAIN s.ahead : x < n /\ s.ahead[x] = AheadOf(s.row, x)

\* The inductive invariant: the tables, counters and memo agree, and the rest
\* of the room has its type.
TableInv ==
  /\ row \in [Visitor -> Row]
  /\ nextSeq \in Nat \ {0}
  /\ meta \in Depths
  /\ depth \in [loaded: BOOLEAN, waiting: Nat, admitted: Nat]
  /\ ahead \in Memo
  /\ DepthCoherent
  /\ CapacityHeld
  /\ \A v \in Visitor : row[v].status \in Live => row[v].seq < nextSeq
  /\ \A x \in DOMAIN ahead : x < nextSeq
  /\ AheadCoherent

ControlInv ==
  /\ clock \in Nat \ {0}
  /\ lastSweep \in Nat
  /\ settings \in Setting
  /\ level \in Levels
  /\ remainder \in 0 .. RateDen - 1
  /\ outbox \in Nat
  /\ alarm \in Nat
  /\ handler \in [pc: {"idle", "outbox", "sweep", "probe", "admit"},
                  at: Nat, seen: Levels]

IInv == TableInv /\ ControlInv

-----------------------------------------------------------------------------
(***************************************************************************)
(* Counting.                                                               *)
(***************************************************************************)
LEMMA FiniteParts ==
  ASSUME NEW S \in SUBSET Visitor
  PROVE  IsFiniteSet(S) /\ Cardinality(S) \in Nat
BY RoomAssumption, FS_Subset, FS_CardinalityType

LEMMA CountsType ==
  ASSUME NEW r
  PROVE  /\ Counts(r) \in Depths
         /\ \A x : AheadOf(r, x) \in Nat
BY FiniteParts DEF Counts, Depths, AheadOf, Waiting, Admitted

LEMMA SplitCardinality ==
  ASSUME NEW A \in SUBSET Visitor, NEW S \in SUBSET A
  PROVE  /\ Cardinality(A \ S) = Cardinality(A) - Cardinality(S)
         /\ Cardinality(S) <= Cardinality(A)
<1>1. IsFiniteSet(A) /\ IsFiniteSet(S) /\ IsFiniteSet(A \ S)
  BY FiniteParts
<1>2. (A \ S) \cup S = A /\ (A \ S) \cap S = {}
  OBVIOUS
<1>3. Cardinality((A \ S) \cup S) =
        Cardinality(A \ S) + Cardinality(S) - Cardinality((A \ S) \cap S)
  BY <1>1, FS_Union
<1>4. Cardinality((A \ S) \cap S) = 0
  BY <1>2, FS_EmptySet
<1>5. /\ Cardinality(A) \in Nat /\ Cardinality(S) \in Nat
      /\ Cardinality(A \ S) \in Nat
  BY FiniteParts
<1>6. Cardinality((A \ S) \cup S) = Cardinality(A)
  BY <1>2
<1> QED
  BY <1>3, <1>4, <1>5, <1>6

LEMMA JoinCardinality ==
  ASSUME NEW A \in SUBSET Visitor, NEW S \in SUBSET Visitor, A \cap S = {}
  PROVE  Cardinality(A \cup S) = Cardinality(A) + Cardinality(S)
<1>1. Cardinality(A \cup S) = Cardinality(A) + Cardinality(S) - Cardinality(A \cap S)
  BY FiniteParts, FS_Union
<1>2. Cardinality(A \cap S) = 0
  BY FS_EmptySet
<1> QED
  BY <1>1, <1>2, FiniteParts

(***************************************************************************)
(* Each step of a handler keeps a snapshot sound.                          *)
(***************************************************************************)
\* An empty memo is always right.
LEMMA NoAheadSound == NoAhead \in Memo /\ DOMAIN NoAhead = {}
<1>1. NoAhead \in [{} -> Nat]
  BY DEF NoAhead
<1> QED
  BY <1>1 DEF NoAhead, Memo

\* The memo of a snapshot whose line did not change stays right.
LEMMA AheadFrame ==
  ASSUME NEW r, NEW q, NEW x,
         \A v \in Visitor : (r[v].status = "waiting" /\ r[v].seq < x)
                              <=> (q[v].status = "waiting" /\ q[v].seq < x)
  PROVE  AheadOf(r, x) = AheadOf(q, x)
<1>1. {v \in Waiting(r) : r[v].seq < x} = {v \in Waiting(q) : q[v].seq < x}
  BY DEF Waiting
<1> QED
  BY <1>1 DEF AheadOf

\* sweep recounts and forgets the memo when it expires anybody; purging
\* touches terminal rows only.
LEMMA SweepSound ==
  ASSUME NEW s, NEW n \in Nat, NEW t \in Nat, Sound(s, n)
  PROVE  Sound(Sweep(s, t), n)
<1> DEFINE gone == Overdue(s.row, s.depth, t)
           kept == Purge(Expire(s.row, gone), t)
<1>1. /\ s.row \in [Visitor -> Row] /\ s.depth \in Depths /\ s.ahead \in Memo
  BY DEF Sound, Snaps
<1>2. /\ kept \in [Visitor -> Row]
      /\ \A v \in Visitor : \/ kept[v] = s.row[v] /\ v \notin gone
                            \/ kept[v].status \notin Live
      /\ \A v \in Visitor : kept[v].status \in Live => kept[v] = s.row[v]
  BY <1>1 DEF Purge, Expire, Ended, NoRow, Row, Live, Terminal
<1>3. CASE gone = {}
  <2>1. \A v \in Visitor : s.row[v].status \in Live => kept[v] = s.row[v]
    BY <1>1, <1>3 DEF Purge, Expire, Ended, NoRow, Row, Live, Terminal
  <2>2. Waiting(kept) = Waiting(s.row) /\ Admitted(kept) = Admitted(s.row)
    BY <1>2, <2>1 DEF Waiting, Admitted, Live
  <2>3. \A x : AheadOf(kept, x) = AheadOf(s.row, x)
    BY <1>2, <2>1, AheadFrame DEF Live
  <2>4. Sweep(s, t) = [row |-> kept, depth |-> s.depth, ahead |-> s.ahead]
    BY <1>3 DEF Sweep
  <2> QED
    BY <1>1, <1>2, <2>2, <2>3, <2>4 DEF Sound, Snaps, Counts
<1>4. CASE gone # {}
  <2>1. Sweep(s, t) = [row |-> kept, depth |-> Counts(kept), ahead |-> NoAhead]
    BY <1>4 DEF Sweep
  <2>2. Admitted(kept) \subseteq Admitted(s.row)
    BY <1>2 DEF Admitted, Live
  <2>3. Cardinality(Admitted(kept)) <= Capacity
    <3>1. Admitted(s.row) \in SUBSET Visitor
      BY DEF Admitted
    <3>2. /\ Cardinality(Admitted(kept)) <= Cardinality(Admitted(s.row))
          /\ Cardinality(Admitted(kept)) \in Nat
          /\ Cardinality(Admitted(s.row)) \in Nat
      BY <2>2, <3>1, FiniteParts, FS_Subset
    <3> QED
      BY <3>2, RoomAssumption DEF Sound
  <2> QED
    BY <1>1, <1>2, <2>1, <2>3, CountsType, NoAheadSound DEF Sound, Snaps
<1> QED
  BY <1>3, <1>4

(***************************************************************************)
(* Check-in slots are instants, whatever the period.                       *)
(***************************************************************************)
LEMMA DivMod ==
  ASSUME NEW a \in Int, NEW p \in Nat \ {0}
  PROVE  a % p \in 0 .. p - 1 /\ a \div p \in Int
OBVIOUS

\* Division with remainder; a residue is the only one of its class in a window
\* as long as the period.
LEMMA Euclid ==
  ASSUME NEW a \in Int, NEW p \in Nat \ {0}
  PROVE  a = p * (a \div p) + (a % p)
OBVIOUS

LEMMA ProductBound ==
  ASSUME NEW p \in Nat \ {0}, NEW k \in Int, NEW r \in 0 .. p - 1, NEW s \in 0 .. p - 1,
         p * k = s - r
  PROVE  s = r
<1>1. CASE k >= 1
  <2>1. p * k >= p
    BY <1>1
  <2> QED
    BY <2>1
<1>2. CASE k <= -1
  <2>1. p * k <= -p
    BY <1>2
  <2> QED
    BY <2>1
<1> QED
  BY <1>1, <1>2

LEMMA Residue ==
  ASSUME NEW p \in Nat \ {0}, NEW q \in Int, NEW r \in 0 .. p - 1
  PROVE  (p * q + r) % p = r
<1> DEFINE a == p * q + r
           s == a % p
           d == a \div p
<1>1. a \in Int /\ s \in 0 .. p - 1 /\ d \in Int
  OBVIOUS
<1>2. a = p * d + s
  BY <1>1, Euclid
<1> HIDE DEF s, d
<1>3. p * (q - d) = s - r
  BY <1>1, <1>2
<1>4. s = r
  BY <1>1, <1>3, ProductBound
<1> QED
  BY <1>4 DEF s

\* Rounding up gives the least count of periods that covers a.
LEMMA RoundUp ==
  ASSUME NEW a \in Nat, NEW p \in Nat \ {0}
  PROVE  /\ CeilDiv(a, p) \in Nat
         /\ a <= p * CeilDiv(a, p)
         /\ \A c \in Nat : a <= p * c => CeilDiv(a, p) <= c
<1> DEFINE d == (a + p - 1) \div p
           s == (a + p - 1) % p
<1>1. a + p - 1 \in Int /\ s \in 0 .. p - 1 /\ d \in Int
  OBVIOUS
<1>2. a + p - 1 = p * d + s
  BY <1>1, Euclid
<1> HIDE DEF s, d
<1>3. d \in Nat
  <2>1. SUFFICES ASSUME d <= -1 PROVE FALSE
    BY <1>1
  <2>2. p * d <= -p
    BY <1>1, <2>1
  <2> QED
    BY <1>1, <1>2, <2>2
<1>4. a <= p * d
  BY <1>1, <1>2
<1>5. ASSUME NEW c \in Nat, a <= p * c PROVE d <= c
  <2>1. SUFFICES ASSUME d - c >= 1 PROVE FALSE
    BY <1>1
  <2>2. p * (d - c) >= p
    BY <1>1, <2>1
  <2>3. p * d - p * c >= p
    BY <1>1, <2>2
  <2> QED
    BY <1>1, <1>2, <1>5, <2>3
<1> QED
  BY <1>3, <1>4, <1>5 DEF CeilDiv, d

LEMMA QuotientType ==
  ASSUME NEW a \in Nat, NEW p \in Nat \ {0}
  PROVE  a \div p \in Nat
<1> DEFINE d == a \div p
           s == a % p
<1>1. d \in Int /\ s \in 0 .. p - 1 /\ a = p * d + s
  BY Euclid
<1> HIDE DEF d, s
<1>2. d >= 0
  <2>1. SUFFICES ASSUME d <= -1 PROVE FALSE
    BY <1>1
  <2>2. p * d <= -p
    BY <1>1, <2>1
  <2> QED
    BY <1>1, <2>2
<1> QED
  BY <1>1, <1>2 DEF d

\* The budget of an alarm is exact: the whole visitors it admits and the
\* fraction it carries over add up to what it had, so no fraction of a visitor
\* is lost or admitted twice over any number of ticks (admissionsForTick).
THEOREM BudgetExact ==
  ASSUME NEW rate \in Int, NEW carried \in 0 .. RateDen - 1
  PROVE  LET b == AdmissionsForTick(rate, carried)
         IN /\ b.admitCount \in Nat /\ b.nextRemainder \in 0 .. RateDen - 1
            /\ b.admitCount * RateDen + b.nextRemainder = carried + Larger(rate, 0)
<1> DEFINE n == carried + rate
<1>1. CASE rate <= 0
  BY <1>1, EngineAssumption DEF AdmissionsForTick, Larger
<1>2. CASE rate > 0
  <2>1. n \in Nat /\ RateDen \in Nat \ {0}
    BY <1>2, EngineAssumption
  <2> HIDE DEF n
  <2> DEFINE d == n \div RateDen
             s == n % RateDen
  <2>2. d \in Int /\ s \in 0 .. RateDen - 1 /\ n = RateDen * d + s
    BY <2>1, Euclid
  <2>3. AdmissionsForTick(rate, carried) = [admitCount |-> d, nextRemainder |-> s]
    BY <1>2 DEF AdmissionsForTick, n
  <2> HIDE DEF d, s
  <2>4. d >= 0
    <3>1. SUFFICES ASSUME d <= -1 PROVE FALSE
      BY <2>2
    <3>2. RateDen * d <= -RateDen
      BY <2>1, <2>2, <3>1
    <3> QED
      BY <2>1, <2>2, <3>2
  <2>5. d * RateDen + s = n /\ Larger(rate, 0) = rate
    BY <1>2, <2>1, <2>2 DEF Larger
  <2> QED
    BY <2>2, <2>3, <2>4, <2>5 DEF n
<1> QED
  BY <1>1, <1>2

\* A waiter's next slot lies within one period of the earliest instant allowed,
\* in the residue class of its hash, and no earlier instant does: consecutive
\* slots of one visitor are one period apart while it stays the same (nextCheckAtMs).
THEOREM SlotExact ==
  ASSUME NEW hash \in Nat, NEW earliest \in Nat, NEW period \in Nat \ {0}
  PROVE  LET slot == NextCheckAt(hash, earliest, period)
         IN /\ slot \in earliest .. earliest + period - 1
            /\ slot % period = hash % period
            /\ \A t \in earliest .. slot - 1 : t % period # hash % period
<1> DEFINE slot == NextCheckAt(hash, earliest, period)
           h == hash % period
           e == earliest % period
           q == earliest \div period
           w == (h - e + period) % period
<1>1. /\ h \in 0 .. period - 1 /\ e \in 0 .. period - 1 /\ q \in Int
      /\ earliest = period * q + e
  BY Euclid
<1>2. slot = earliest + w
  BY DEF NextCheckAt
<1> HIDE DEF h, e, q
<1>3. \/ h >= e /\ w = h - e
      \/ h < e /\ w = h - e + period
  <2>1. CASE h >= e
    <3>1. (period * 1 + (h - e)) % period = h - e
      BY <1>1, <2>1, Residue
    <3>2. period * 1 + (h - e) = h - e + period
      BY <1>1
    <3> QED
      BY <2>1, <3>1, <3>2
  <2>2. CASE h < e
    <3>1. (period * 0 + (h - e + period)) % period = h - e + period
      BY <1>1, <2>2, Residue
    <3>2. period * 0 + (h - e + period) = h - e + period
      BY <1>1
    <3> QED
      BY <2>2, <3>1, <3>2
  <2> QED
    BY <1>1, <2>1, <2>2
<1> HIDE DEF w
<1>4. slot \in earliest .. earliest + period - 1
  BY <1>1, <1>2, <1>3
<1> HIDE DEF slot
<1>5. slot % period = h
  <2>1. PICK k \in Int : slot = period * k + h
    <3>1. CASE h >= e
      <4>1. slot = period * q + h
        BY <1>1, <1>2, <1>3, <3>1
      <4> QED
        BY <1>1, <4>1
    <3>2. CASE h < e
      <4>1. slot = period * (q + 1) + h
        BY <1>1, <1>2, <1>3, <3>2
      <4> QED
        BY <1>1, <4>1
    <3> QED
      BY <1>1, <3>1, <3>2
  <2> QED
    BY <1>1, <2>1, Residue
<1>6. ASSUME NEW t \in earliest .. slot - 1 PROVE t % period # h
  <2>1. SUFFICES ASSUME t % period = h PROVE FALSE
    OBVIOUS
  <2>2. /\ t \in Nat /\ slot \in Nat /\ slot - t >= 1 /\ slot - t < period
    BY <1>4, <1>6
  <2>3. t = period * (t \div period) + h /\ slot = period * (slot \div period) + h
    BY <1>5, <2>1, <2>2, Euclid
  <2> DEFINE k == (slot \div period) - (t \div period)
  <2>4. k \in Int /\ period * k = slot - t
    BY <1>1, <2>2, <2>3
  <2> HIDE DEF k
  <2>5. slot - t \in 0 .. period - 1 /\ 0 \in 0 .. period - 1
    BY <2>2
  <2>6. slot - t = 0
    BY <2>4, <2>5, ProductBound
  <2> QED
    BY <2>2, <2>6
<1> QED
  BY <1>4, <1>5, <1>6 DEF slot, h
\* The check-in period is the least one, from the minimum on, at which the
\* whole line fits into the status budget (checkInPeriodSeconds).
THEOREM PeriodExact ==
  ASSUME NEW waiting \in Nat
  PROVE  LET period == CheckInPeriod(waiting)
         IN /\ period \in Nat /\ period >= MinPeriod /\ waiting <= StatusBudget * period
            /\ \A p \in Nat : p >= MinPeriod /\ waiting <= StatusBudget * p => period <= p
<1> DEFINE c == CeilDiv(waiting, StatusBudget)
<1>1. /\ StatusBudget \in Nat \ {0} /\ MinPeriod \in Nat \ {0}
      /\ c \in Nat /\ waiting <= StatusBudget * c
      /\ \A p \in Nat : waiting <= StatusBudget * p => c <= p
  BY EngineAssumption, RoundUp
<1>2. CheckInPeriod(waiting) = IF waiting = 0 THEN MinPeriod ELSE Larger(MinPeriod, c)
  BY DEF CheckInPeriod
<1> HIDE DEF c
<1>3. \A p \in Nat : p >= c => StatusBudget * c <= StatusBudget * p
  <2>1. SUFFICES ASSUME NEW p \in Nat, p >= c PROVE StatusBudget * (p - c) >= 0
    BY <1>1
  <2> QED
    BY <1>1, <2>1
<1>4. CASE waiting = 0
  BY <1>1, <1>2, <1>4
<1>5. CASE waiting # 0
  <2>1. CheckInPeriod(waiting) = Larger(MinPeriod, c)
    BY <1>2, <1>5
  <2>2. Larger(MinPeriod, c) \in Nat /\ Larger(MinPeriod, c) >= MinPeriod /\ Larger(MinPeriod, c) >= c
    BY <1>1 DEF Larger
  <2>3. waiting <= StatusBudget * Larger(MinPeriod, c)
    <3> DEFINE l == Larger(MinPeriod, c)
    <3>1. l \in Nat /\ l >= c
      BY <2>2
    <3> HIDE DEF l
    <3>2. StatusBudget * c <= StatusBudget * l
      BY <1>3, <3>1
    <3>3. StatusBudget * c \in Nat /\ StatusBudget * l \in Nat
      BY <1>1, <3>1
    <3> QED
      BY <1>1, <3>2, <3>3 DEF l
  <2>4. ASSUME NEW p \in Nat, p >= MinPeriod, waiting <= StatusBudget * p
        PROVE  Larger(MinPeriod, c) <= p
    BY <1>1, <2>4 DEF Larger
  <2> QED
    BY <2>1, <2>2, <2>3, <2>4
<1> QED
  BY <1>4, <1>5

LEMMA PeriodType ==
  ASSUME NEW w \in Int, NEW position, NEW mode, NEW eta, NEW rate
  PROVE  /\ CheckInPeriod(w) \in Nat \ {0}
         /\ EffectiveCheckInPeriod(w, position, mode, eta, rate) \in Nat \ {0}
<1>1. CheckInPeriod(w) \in Nat \ {0}
  <2>1. (w + StatusBudget - 1) \div StatusBudget \in Int
    BY DivMod, EngineAssumption
  <2> QED
    BY <2>1, EngineAssumption DEF CheckInPeriod, CeilDiv, Larger
<1> QED
  BY <1>1, EngineAssumption DEF EffectiveCheckInPeriod

LEMMA SlotType ==
  ASSUME NEW h \in Nat, NEW e \in Nat, NEW p \in Nat \ {0}
  PROVE  NextCheckAt(h, e, p) \in Nat
<1>1. h % p \in 0 .. p - 1 /\ e % p \in 0 .. p - 1
  BY DivMod
<1>2. (h % p) - (e % p) + p \in Int
  BY <1>1
<1>3. ((h % p) - (e % p) + p) % p \in 0 .. p - 1
  BY <1>2, DivMod
<1> QED
  BY <1>3 DEF NextCheckAt

LEMMA AssignType ==
  ASSUME NEW v \in Visitor, NEW w \in Int, NEW position, NEW eta,
         NEW lead \in Nat, NEW t \in Nat, settings \in Setting
  PROVE  AssignCheckIn(v, w, position, eta, lead, t) \in Nat
<1>1. Hash[v] \in Nat /\ settings.opensAt \in Nat /\ t + lead \in Nat
  BY RoomAssumption DEF Setting
<1> QED
  BY <1>1, PeriodType, SlotType DEF AssignCheckIn

\* Memoizing a place stores the true one.
LEMMA MemoizeSound ==
  ASSUME NEW s, NEW n \in Nat, NEW v \in Visitor, Sound(s, n)
  PROVE  Sound(Memoize(s, v), n)
<1> DEFINE seq == s.row[v].seq
           memo == [x \in DOMAIN s.ahead \cup {seq} |->
                      IF x = seq THEN AheadOf(s.row, seq) ELSE s.ahead[x]]
<1>1. CASE Memoize(s, v) = s
  BY <1>1
<1>2. CASE Memoize(s, v) # s
  <2>1. /\ s.row[v].status = "waiting"
        /\ Memoize(s, v) = [s EXCEPT !.ahead = memo]
    BY <1>2 DEF Memoize
  <2>2. /\ s \in Snaps /\ s.ahead \in Memo /\ s.row \in [Visitor -> Row]
    BY DEF Sound, Snaps
  <2>3. seq \in Nat /\ seq < n
    BY <2>1, <2>2 DEF Sound, Row, Live
  <2>4. PICK D \in SUBSET Nat : s.ahead \in [D -> Nat]
    BY <2>2 DEF Memo
  <2>5. memo \in [D \cup {seq} -> Nat]
    BY <2>4, CountsType
  <2>6. memo \in Memo
    BY <2>3, <2>5 DEF Memo
  <2>7. \A x \in DOMAIN memo : x < n /\ memo[x] = AheadOf(s.row, x)
    BY <2>3, <2>4 DEF Sound
  <2>8. Memoize(s, v) = [row |-> s.row, depth |-> s.depth, ahead |-> memo]
    BY <2>1, <2>2 DEF Snaps
  <2> HIDE DEF memo
  <2> QED
    BY <2>2, <2>6, <2>7, <2>8 DEF Sound, Snaps
<1> QED
  BY <1>1, <1>2

\* A new value in a column that no count depends on.
LEMMA ColumnSound ==
  ASSUME NEW s, NEW n \in Nat, NEW v \in Visitor, NEW r \in Row, Sound(s, n),
         r.status = s.row[v].status, r.seq = s.row[v].seq
  PROVE  Sound([s EXCEPT !.row[v] = r], n)
<1> DEFINE rows == [s.row EXCEPT ![v] = r]
<1>1. s \in Snaps /\ s.row \in [Visitor -> Row]
  BY DEF Sound, Snaps
<1>2. [s EXCEPT !.row[v] = r] = [row |-> rows, depth |-> s.depth, ahead |-> s.ahead]
  BY <1>1 DEF Snaps
<1>3. \A u \in Visitor : rows[u].status = s.row[u].status /\ rows[u].seq = s.row[u].seq
  BY <1>1
<1>4. Waiting(rows) = Waiting(s.row) /\ Admitted(rows) = Admitted(s.row)
  BY <1>3 DEF Waiting, Admitted
<1>5. \A x : AheadOf(rows, x) = AheadOf(s.row, x)
  <2> SUFFICES ASSUME NEW x PROVE AheadOf(rows, x) = AheadOf(s.row, x)
    OBVIOUS
  <2> HIDE DEF rows
  <2> QED
    BY <1>3, AheadFrame
<1> QED
  BY <1>1, <1>2, <1>3, <1>4, <1>5 DEF Sound, Snaps, Counts

\* A check-in moves the waiter's slot only.
LEMMA CheckInSound ==
  ASSUME NEW s, NEW n \in Nat, NEW v \in Visitor, NEW t \in Nat, Sound(s, n),
         settings \in Setting
  PROVE  Sound(CheckIn(s, v, t), n)
<1> DEFINE w == s.depth.waiting
           repaired == AssignCheckIn(v, w, Position(s, v), 0, 0, t)
           renewed == AssignCheckIn(v, w, Position(s, v), Eta(w, t), 1, t)
<1>1. s \in Snaps /\ s.row \in [Visitor -> Row] /\ w \in Nat
  BY DEF Sound, Snaps, Depths
<1>2. repaired \in Nat /\ renewed \in Nat
  BY <1>1, AssignType
<1>3. \A c \in Nat : Sound([s EXCEPT !.row[v].check = c], n)
  <2> SUFFICES ASSUME NEW c \in Nat PROVE Sound([s EXCEPT !.row[v].check = c], n)
    OBVIOUS
  <2> DEFINE r == [s.row[v] EXCEPT !.check = c]
  <2>1. /\ r \in Row /\ r.status = s.row[v].status /\ r.seq = s.row[v].seq
    BY <1>1 DEF Row
  <2>2. [s EXCEPT !.row[v].check = c] = [s EXCEPT !.row[v] = r]
    BY <1>1 DEF Snaps
  <2> QED
    BY <2>1, <2>2, ColumnSound
<1> QED
  BY <1>2, <1>3 DEF CheckIn

\* A newcomer carries the next sequence number, so no memoized place changes.
LEMMA InsertSound ==
  ASSUME NEW s, NEW n \in Nat, NEW v \in Visitor, NEW r \in Row, Sound(s, n),
         s.row[v].status \notin Live, r.status \in Live, r.seq = n,
         r.status = "admitted" => s.depth.admitted < Capacity
  PROVE  Sound(InsertVisitor(s, v, r), n + 1)
<1> DEFINE rows == [s.row EXCEPT ![v] = r]
           waits == r.status = "waiting"
<1>1. /\ s \in Snaps /\ s.row \in [Visitor -> Row] /\ s.ahead \in Memo
      /\ s.depth = Counts(s.row)
      /\ s.depth.waiting = Cardinality(Waiting(s.row))
      /\ s.depth.admitted = Cardinality(Admitted(s.row))
      /\ s.depth.waiting \in Nat /\ s.depth.admitted \in Nat
  BY DEF Sound, Snaps, Depths, Counts
<1>2. /\ rows \in [Visitor -> Row]
      /\ \A u \in Visitor : rows[u] = IF u = v THEN r ELSE s.row[u]
  BY <1>1
<1>3. /\ Waiting(rows) = IF waits THEN Waiting(s.row) \cup {v} ELSE Waiting(s.row)
      /\ Admitted(rows) = IF waits THEN Admitted(s.row) ELSE Admitted(s.row) \cup {v}
      /\ Waiting(s.row) \cap {v} = {} /\ Admitted(s.row) \cap {v} = {}
  BY <1>2 DEF Waiting, Admitted, Live
<1>4. Cardinality({v}) = 1
  BY FS_Singleton
<1>5. /\ Cardinality(Waiting(rows)) = s.depth.waiting + IF waits THEN 1 ELSE 0
      /\ Cardinality(Admitted(rows)) = s.depth.admitted + IF waits THEN 0 ELSE 1
  <2>1. /\ Waiting(s.row) \in SUBSET Visitor /\ Admitted(s.row) \in SUBSET Visitor
        /\ {v} \in SUBSET Visitor
    BY DEF Waiting, Admitted
  <2>2. /\ Cardinality(Waiting(s.row) \cup {v}) = s.depth.waiting + 1
        /\ Cardinality(Admitted(s.row) \cup {v}) = s.depth.admitted + 1
    BY SMTT(30), <2>1, <1>1, <1>3, <1>4, JoinCardinality
  <2> QED
    BY <2>2, <1>1, <1>3
<1>6. Cardinality(Admitted(rows)) <= Capacity
  BY <1>1, <1>5, RoomAssumption DEF Sound, Live
<1>7. \A x \in DOMAIN s.ahead : x < n + 1 /\ s.ahead[x] = AheadOf(rows, x)
  <2> SUFFICES ASSUME NEW x \in DOMAIN s.ahead
               PROVE  x < n + 1 /\ s.ahead[x] = AheadOf(rows, x)
    OBVIOUS
  <2>1. x \in Nat /\ x < n /\ s.ahead[x] = AheadOf(s.row, x)
    BY <1>1 DEF Sound, Memo
  <2>2. \A u \in Visitor : (rows[u].status = "waiting" /\ rows[u].seq < x)
                             <=> (s.row[u].status = "waiting" /\ s.row[u].seq < x)
    BY <1>2, <2>1 DEF Live
  <2> HIDE DEF rows
  <2>3. AheadOf(rows, x) = AheadOf(s.row, x)
    BY <2>2, AheadFrame
  <2> QED
    BY <2>1, <2>3
<1>8. \A u \in Visitor : rows[u].status \in Live => rows[u].seq < n + 1
  BY <1>1, <1>2 DEF Sound, Row
<1>9. InsertVisitor(s, v, r) = [row |-> rows, depth |-> Counts(rows), ahead |-> s.ahead]
  <2>1. (IF waits THEN BumpDepth(s.depth, 1, 0) ELSE BumpDepth(s.depth, 0, 1))
          = Counts(rows)
    BY <1>1, <1>5 DEF BumpDepth, Larger, Counts
  <2>2. InsertVisitor(s, v, r) = [s EXCEPT !.row[v] = r, !.depth = Counts(rows)]
    BY <2>1 DEF InsertVisitor
  <2> QED
    BY <1>1, <2>2 DEF Snaps
<1> HIDE DEF rows
<1> QED
  BY <1>1, <1>2, <1>6, <1>7, <1>8, <1>9, CountsType DEF Sound, Snaps

\* A sequence number may be drawn and never used.
LEMMA SoundLater ==
  ASSUME NEW s, NEW n \in Nat, Sound(s, n)
  PROVE  Sound(s, n + 1)
<1>1. s.row \in [Visitor -> Row] /\ s.ahead \in Memo
  BY DEF Sound, Snaps
<1>2. \A v \in Visitor : s.row[v].status \in Live => s.row[v].seq < n + 1
  BY <1>1 DEF Sound, Row
<1>3. DOMAIN s.ahead \subseteq Nat
  BY <1>1 DEF Memo
<1>4. \A x \in DOMAIN s.ahead : x < n + 1 /\ s.ahead[x] = AheadOf(s.row, x)
  BY <1>3 DEF Sound
<1> QED
  BY <1>2, <1>4 DEF Sound

\* Promoting waiters into open slots moves them from one counter to the other.
LEMMA AdmitSelectedSound ==
  ASSUME NEW s, NEW n \in Nat, NEW S \in SUBSET Waiting(s.row), NEW t \in Nat,
         Sound(s, n), s.depth.admitted + Cardinality(S) <= Capacity
  PROVE  Sound(AdmitSelected(s, S, t), n)
<1> DEFINE admit(v) == [s.row[v] EXCEPT !.status = "admitted", !.admittedAt = t,
                          !.entered = ~settings.click, !.check = 0]
           rows == [v \in Visitor |-> IF v \in S THEN admit(v) ELSE s.row[v]]
<1>1. /\ s \in Snaps /\ s.row \in [Visitor -> Row] /\ s.ahead \in Memo
      /\ s.depth.waiting = Cardinality(Waiting(s.row))
      /\ s.depth.admitted = Cardinality(Admitted(s.row))
      /\ s.depth.waiting \in Nat /\ s.depth.admitted \in Nat
      /\ S \in SUBSET Visitor
  BY DEF Sound, Snaps, Depths, Counts, Waiting
<1>2. /\ rows \in [Visitor -> Row]
      /\ \A v \in Visitor : /\ v \in S => rows[v].status = "admitted"
                            /\ v \notin S => rows[v].status = s.row[v].status
                            /\ rows[v].seq = s.row[v].seq
  <2>1. \A v \in Visitor : /\ admit(v) \in Row /\ admit(v).status = "admitted"
                           /\ admit(v).seq = s.row[v].seq
    BY <1>1, ZenonT(40) DEF Row, Live
  <2> HIDE DEF admit
  <2> QED
    BY <1>1, <2>1
<1> HIDE DEF rows
<1>3. /\ Waiting(rows) = Waiting(s.row) \ S
      /\ Admitted(rows) = Admitted(s.row) \cup S
      /\ Admitted(s.row) \cap S = {}
  BY <1>1, <1>2 DEF Waiting, Admitted
<1>4. /\ Cardinality(Waiting(rows)) = s.depth.waiting - Cardinality(S)
      /\ Cardinality(Admitted(rows)) = s.depth.admitted + Cardinality(S)
      /\ Cardinality(S) \in Nat /\ Cardinality(S) <= s.depth.waiting
  <2>1. Waiting(s.row) \in SUBSET Visitor /\ Admitted(s.row) \in SUBSET Visitor
    BY DEF Waiting, Admitted
  <2>2. /\ Cardinality(Waiting(s.row) \ S) = Cardinality(Waiting(s.row)) - Cardinality(S)
        /\ Cardinality(S) <= Cardinality(Waiting(s.row))
    BY <2>1, SplitCardinality
  <2>3. Cardinality(Admitted(s.row) \cup S) = Cardinality(Admitted(s.row)) + Cardinality(S)
    BY <2>1, <1>1, <1>3, JoinCardinality
  <2>4. Cardinality(S) \in Nat
    BY <1>1, FiniteParts
  <2> QED
    BY <2>2, <2>3, <2>4, <1>1, <1>3
<1>5. BumpDepth(s.depth, -Cardinality(S), Cardinality(S)) = Counts(rows)
  BY <1>1, <1>4 DEF BumpDepth, Larger, Counts
<1>6. AdmitSelected(s, S, t) =
        [row |-> rows, depth |-> Counts(rows),
         ahead |-> IF S = {} THEN s.ahead ELSE NoAhead]
  BY <1>5 DEF AdmitSelected, rows
<1>7. \A v \in Visitor : rows[v].status \in Live => rows[v].seq < n
  BY <1>1, <1>2 DEF Sound, Waiting, Live
<1>8. CASE S = {}
  <2>1. \A x : AheadOf(rows, x) = AheadOf(s.row, x)
    BY <1>2, <1>8, AheadFrame
  <2> QED
    BY <1>1, <1>2, <1>4, <1>6, <1>7, <1>8, <2>1, CountsType DEF Sound, Snaps, Counts
<1>9. CASE S # {}
  BY <1>1, <1>2, <1>4, <1>6, <1>7, <1>9, CountsType, NoAheadSound
  DEF Sound, Snaps, Counts
<1> QED
  BY <1>8, <1>9

\* selectWaiting returns waiters, at most as many as it was asked for; in a
\* lottery this needs the waiting counter to be right.
LEMMA SelectionsBounded ==
  ASSUME NEW s, NEW n, NEW limit \in Nat, Sound(s, n), NEW S \in Selections(s, limit)
  PROVE  S \in SUBSET Waiting(s.row) /\ Cardinality(S) <= limit
<1>1. /\ s.depth.waiting = Cardinality(Waiting(s.row)) /\ s.depth.waiting \in Nat
      /\ Waiting(s.row) \in SUBSET Visitor
  BY FiniteParts DEF Sound, Counts, Waiting
<1>2. S \in SUBSET Waiting(s.row)
  BY DEF Selections
<1>3. Cardinality(S) \in Nat
  BY <1>1, <1>2, FiniteParts
<1> QED
  BY <1>1, <1>2, <1>3 DEF Selections, Smaller

\* Filling the open slots never exceeds the capacity.
LEMMA AdmissionsSound ==
  ASSUME NEW s, NEW n \in Nat, NEW limit \in Int, NEW t \in Nat, Sound(s, n),
         NEW a \in Admissions(s, limit, t)
  PROVE  Sound(a, n)
<1> DEFINE take == Smaller(limit, OpenSlots(Capacity, s.depth.admitted))
<1>1. s.depth.admitted \in Nat /\ s.depth.admitted <= Capacity
  BY FiniteParts DEF Sound, Counts, Admitted
<1>2. CASE take <= 0
  BY <1>2 DEF Admissions
<1>3. CASE ~(take <= 0)
  <2>1. take \in Nat /\ s.depth.admitted + take <= Capacity
    BY <1>1, <1>3, RoomAssumption DEF Smaller, OpenSlots, Larger
  <2>2. PICK S \in Selections(s, take) : a = AdmitSelected(s, S, t)
    BY <1>3 DEF Admissions
  <2> HIDE DEF take
  <2>3. S \in SUBSET Waiting(s.row) /\ Cardinality(S) <= take
    BY <2>1, SelectionsBounded
  <2>4. Cardinality(S) \in Nat
    BY <2>3, FiniteParts DEF Waiting
  <2>5. s.depth.admitted + Cardinality(S) <= Capacity
    BY <1>1, <2>1, <2>3, <2>4, RoomAssumption
  <2> QED
    BY <2>2, <2>3, <2>5, AdmitSelectedSound
<1> QED
  BY <1>2, <1>3

\* Leaving takes one row out of the counter it was in.
LEMMA DepartedSound ==
  ASSUME NEW s, NEW n \in Nat, NEW v \in Visitor, Sound(s, n),
         s.row[v].status \in Live
  PROVE  Sound(Departed(s, v), n)
<1> DEFINE rows == [s.row EXCEPT ![v] = Ended(s.row[v], "left")]
           waits == s.row[v].status = "waiting"
<1>1. /\ s \in Snaps /\ s.row \in [Visitor -> Row] /\ s.ahead \in Memo
      /\ s.depth.waiting = Cardinality(Waiting(s.row))
      /\ s.depth.admitted = Cardinality(Admitted(s.row))
      /\ s.depth.waiting \in Nat /\ s.depth.admitted \in Nat
  BY DEF Sound, Snaps, Depths, Counts
<1>2. Ended(s.row[v], "left") \in Row /\ Ended(s.row[v], "left").status = "left"
  BY <1>1 DEF Ended, NoRow, Row, Terminal
<1>3. /\ rows \in [Visitor -> Row] /\ rows[v].status = "left"
      /\ \A u \in Visitor : u # v => rows[u] = s.row[u]
  BY <1>1, <1>2
<1>4. Departed(s, v) =
        [row |-> rows,
         depth |-> IF waits THEN BumpDepth(s.depth, -1, 0) ELSE BumpDepth(s.depth, 0, -1),
         ahead |-> IF waits THEN NoAhead ELSE s.ahead]
  BY DEF Departed
<1> HIDE DEF rows
<1>5. /\ Waiting(rows) = Waiting(s.row) \ {v}
      /\ Admitted(rows) = Admitted(s.row) \ {v}
      /\ waits => v \in Waiting(s.row) /\ v \notin Admitted(s.row)
      /\ ~waits => v \notin Waiting(s.row) /\ v \in Admitted(s.row)
  BY <1>3 DEF Waiting, Admitted, Live
<1>6. /\ Cardinality(Waiting(rows)) = s.depth.waiting - IF waits THEN 1 ELSE 0
      /\ Cardinality(Admitted(rows)) = s.depth.admitted - IF waits THEN 0 ELSE 1
  <2>1. Waiting(s.row) \in SUBSET Visitor /\ Admitted(s.row) \in SUBSET Visitor
    BY DEF Waiting, Admitted
  <2>2. Cardinality({v}) = 1
    BY FS_Singleton
  <2>3. CASE waits
    <3>1. {v} \in SUBSET Waiting(s.row) /\ Admitted(rows) = Admitted(s.row)
      BY <1>5, <2>3
    <3>2. Cardinality(Waiting(s.row) \ {v}) = Cardinality(Waiting(s.row)) - 1
      BY <2>1, <2>2, <3>1, SplitCardinality
    <3>3. /\ Cardinality(Waiting(rows)) = Cardinality(Waiting(s.row) \ {v})
          /\ Cardinality(Admitted(rows)) = Cardinality(Admitted(s.row))
      BY <1>5, <3>1
    <3> QED
      BY <1>1, <2>3, <3>2, <3>3
  <2>4. CASE ~waits
    <3>1. {v} \in SUBSET Admitted(s.row) /\ Waiting(rows) = Waiting(s.row)
      BY <1>5, <2>4
    <3>2. Cardinality(Admitted(s.row) \ {v}) = Cardinality(Admitted(s.row)) - 1
      BY <2>1, <2>2, <3>1, SplitCardinality
    <3>3. /\ Cardinality(Admitted(rows)) = Cardinality(Admitted(s.row) \ {v})
          /\ Cardinality(Waiting(rows)) = Cardinality(Waiting(s.row))
      BY <1>5, <3>1
    <3> QED
      BY <1>1, <2>4, <3>2, <3>3
  <2> QED
    BY <2>3, <2>4
<1>7. /\ Cardinality(Waiting(rows)) \in Nat /\ Cardinality(Admitted(rows)) \in Nat
      /\ Counts(rows) \in Depths
  BY FiniteParts, CountsType DEF Waiting, Admitted
<1>8. (IF waits THEN BumpDepth(s.depth, -1, 0) ELSE BumpDepth(s.depth, 0, -1))
        = Counts(rows)
  BY <1>1, <1>6, <1>7 DEF BumpDepth, Larger, Counts
<1>9. Cardinality(Admitted(rows)) <= Capacity
  BY <1>1, <1>6, RoomAssumption DEF Sound
<1>10. \A u \in Visitor : rows[u].status \in Live => rows[u].seq < n
  BY <1>3 DEF Sound, Live
<1>11. CASE waits
  BY <1>1, <1>3, <1>4, <1>7, <1>8, <1>9, <1>10, <1>11, NoAheadSound DEF Sound, Snaps
<1>12. CASE ~waits
  <2>1. \A x : AheadOf(rows, x) = AheadOf(s.row, x)
    BY <1>3, <1>12, AheadFrame
  <2> QED
    BY <1>1, <1>3, <1>4, <1>7, <1>8, <1>9, <1>10, <1>12, <2>1 DEF Sound, Snaps
<1> QED
  BY <1>11, <1>12

\* Confirming a seat changes the entered column only.
LEMMA EnterSound ==
  ASSUME NEW s, NEW n \in Nat, NEW v \in Visitor, Sound(s, n)
  PROVE  Sound([s EXCEPT !.row[v].entered = TRUE], n)
<1> DEFINE r == [s.row[v] EXCEPT !.entered = TRUE]
<1>1. s \in Snaps /\ s.row \in [Visitor -> Row]
  BY DEF Sound, Snaps
<1>2. r \in Row /\ r.status = s.row[v].status /\ r.seq = s.row[v].seq
  BY <1>1 DEF Row
<1>3. [s EXCEPT !.row[v].entered = TRUE] = [s EXCEPT !.row[v] = r]
  BY <1>1 DEF Snaps
<1> QED
  BY <1>2, <1>3, ColumnSound

-----------------------------------------------------------------------------
(***************************************************************************)
(* From the invariant to a sound snapshot and back.                        *)
(***************************************************************************)
LEMMA SnapshotSound ==
  ASSUME TableInv
  PROVE  Sound(Snapshot, nextSeq) /\ Depth \in Depths
<1>1. Depth = Counts(row) /\ Depth \in Depths
  BY CountsType DEF TableInv, DepthCoherent, Depth, Depths
<1> QED
  BY <1>1 DEF TableInv, Sound, Snaps, Snapshot, CapacityHeld, AheadCoherent

LEMMA SweptSound ==
  ASSUME IInv
  PROVE  /\ Sound(Swept, nextSeq) /\ Sound(MaybeSwept, nextSeq)
         /\ Sound(Sweep(Snapshot, handler.at), nextSeq)
<1>1. Sound(Snapshot, nextSeq) /\ nextSeq \in Nat /\ clock \in Nat /\ handler.at \in Nat
  BY SnapshotSound DEF IInv, TableInv, ControlInv
<1> QED
  BY <1>1, SweepSound DEF Swept, MaybeSwept

\* Committing a sound snapshot establishes the invariant of the tables.
LEMMA CommitSound ==
  ASSUME NEW s, nextSeq' \in Nat \ {0}, Sound(s, nextSeq'), Commit(s)
  PROVE  TableInv'
<1>1. /\ row' = s.row /\ meta' = s.depth /\ ahead' = s.ahead
      /\ depth' = [loaded |-> TRUE, waiting |-> s.depth.waiting,
                   admitted |-> s.depth.admitted]
  BY DEF Commit
<1>2. s \in Snaps /\ s.row \in [Visitor -> Row] /\ s.depth \in Depths /\ s.ahead \in Memo
  BY DEF Sound, Snaps
<1>3. s.depth = [waiting |-> s.depth.waiting, admitted |-> s.depth.admitted]
  BY <1>2 DEF Depths
<1>4. DepthCoherent'
  BY <1>1, <1>3 DEF Sound, DepthCoherent, Depth
<1>5. depth' \in [loaded: BOOLEAN, waiting: Nat, admitted: Nat]
  BY <1>1, <1>2 DEF Depths
<1> QED
  BY <1>1, <1>2, <1>4, <1>5 DEF Sound, TableInv, CapacityHeld, AheadCoherent

\* What the tables hold is also kept when only the memory copy of the
\* counters is loaded, or dropped with the memo.
LEMMA TableFrame ==
  ASSUME TableInv, UNCHANGED <<row, nextSeq, meta>>,
         \/ UNCHANGED <<depth, ahead>>
         \/ LoadDepth /\ UNCHANGED ahead
         \/ depth' = [loaded |-> FALSE, waiting |-> 0, admitted |-> 0] /\ ahead' = NoAhead
  PROVE  TableInv'
<1>1. Depth \in Depths /\ Depth = meta
  BY SnapshotSound DEF TableInv, DepthCoherent, Depth
<1>2. CASE UNCHANGED <<depth, ahead>>
  BY <1>2 DEF TableInv, DepthCoherent, Depth, CapacityHeld, AheadCoherent
<1>3. CASE LoadDepth /\ UNCHANGED ahead
  BY <1>1, <1>3 DEF LoadDepth, TableInv, DepthCoherent, Depth, Depths,
                    CapacityHeld, AheadCoherent
<1>4. CASE depth' = [loaded |-> FALSE, waiting |-> 0, admitted |-> 0] /\ ahead' = NoAhead
  BY <1>4, NoAheadSound DEF TableInv, DepthCoherent, Depth, CapacityHeld, AheadCoherent
<1> QED
  BY <1>2, <1>3, <1>4

\* ensureAlarm sets an instant or none.
LEMMA AlarmType ==
  ASSUME NEW cfg, NEW lvl, NEW d, NEW hook \in Nat, clock \in Nat, alarm \in Nat,
         EnsureAlarm(cfg, lvl, d, hook)
  PROVE  alarm' \in Nat
<1>1. AlarmInterval(cfg, lvl, d) \in Nat
  BY RoomAssumption DEF AlarmInterval, Smaller
<1>2. NextAlarm(cfg, lvl, d, hook) \in Nat
  BY <1>1 DEF NextAlarm, Smaller
<1> QED
  BY <1>2 DEF EnsureAlarm

-----------------------------------------------------------------------------
(***************************************************************************)
(* Every action keeps the invariant.                                       *)
(***************************************************************************)
\* An RPC touches, besides the tables, the sweep mark and the alarm only.
LEMMA RpcControl ==
  ASSUME IInv, RoomOnly, lastSweep' \in {clock, lastSweep},
         \/ UNCHANGED alarm
         \/ \E d : EnsureAlarm(settings, level, d, outbox)
  PROVE  ControlInv'
<1>1. alarm' \in Nat
  BY AlarmType DEF IInv, ControlInv
<1> QED
  BY <1>1 DEF IInv, ControlInv, RoomOnly

LEMMA JoinStep ==
  ASSUME IInv, NEW v \in Visitor, Join(v)
  PROVE  IInv'
<1>1. ControlInv'
  BY RpcControl DEF Join, JoinResume, JoinSeat, JoinLine, JoinFull, JoinConflict,
                    ForcedSweep
<1>2. Sound(Swept, nextSeq)
  BY SweptSound
<1>3. /\ nextSeq \in Nat \ {0} /\ nextSeq + 1 \in Nat \ {0} /\ clock \in Nat
      /\ settings \in Setting /\ Swept.depth.waiting \in Nat
      /\ Swept.depth.admitted \in Nat /\ settings.click \in BOOLEAN
  BY <1>2 DEF IInv, TableInv, ControlInv, Sound, Snaps, Depths, Setting
<1>4. CASE JoinResume(v)
  BY <1>1, <1>2, <1>3, <1>4, MemoizeSound, CommitSound DEF JoinResume, IInv
<1>5. CASE JoinSeat(v)
  <2> DEFINE r == [NoRow EXCEPT !.status = "admitted", !.joined = clock,
                     !.admittedAt = clock, !.entered = ~settings.click,
                     !.seq = nextSeq]
             s == InsertVisitor(Swept, v, r)
  <2>1. r \in Row /\ r.status = "admitted" /\ r.seq = nextSeq
    BY <1>3 DEF NoRow, Row, Live
  <2>2. Swept.row[v].status = "none" /\ Swept.depth.admitted < Capacity
    BY <1>3, <1>5, RoomAssumption DEF JoinSeat, SeatFree, OpenSlots, Larger
  <2>3. Commit(s) /\ nextSeq' = nextSeq + 1
    BY <1>5 DEF JoinSeat, NextSequence
  <2> HIDE DEF r
  <2>4. Sound(s, nextSeq + 1)
    BY <1>2, <1>3, <2>1, <2>2, InsertSound DEF Live
  <2> QED
    BY <1>1, <1>3, <2>3, <2>4, CommitSound DEF IInv
<1>6. CASE JoinLine(v)
  <2> DEFINE w == Swept.depth.waiting + 1
             slot == AssignCheckIn(v, w, w, 0, MinPeriod, clock)
             r == [NoRow EXCEPT !.status = "waiting", !.joined = clock,
                     !.check = slot, !.seq = nextSeq]
             s == InsertVisitor(Swept, v, r)
  <2>1. slot \in Nat
    BY <1>3, AssignType, EngineAssumption
  <2>2. Swept.row[v].status = "none" /\ Commit(Memoize(s, v)) /\ nextSeq' = nextSeq + 1
    BY <1>6 DEF JoinLine, NextSequence
  <2> HIDE DEF slot
  <2>3. r \in Row /\ r.status = "waiting" /\ r.seq = nextSeq
    BY <1>3, <2>1 DEF NoRow, Row, Live
  <2> HIDE DEF r
  <2>4. Sound(s, nextSeq + 1)
    BY <1>2, <1>3, <2>2, <2>3, InsertSound DEF Live
  <2> HIDE DEF s
  <2>5. Sound(Memoize(s, v), nextSeq + 1)
    BY <1>3, <2>4, MemoizeSound
  <2> QED
    BY <1>1, <1>3, <2>2, <2>5, CommitSound DEF IInv
<1>7. CASE JoinFull(v)
  BY <1>1, <1>2, <1>3, <1>7, CommitSound DEF JoinFull, IInv
<1>8. CASE JoinConflict(v)
  <2>1. Sound(Swept, nextSeq + 1)
    BY <1>2, <1>3, SoundLater
  <2> QED
    BY <1>1, <1>3, <1>8, <2>1, CommitSound DEF JoinConflict, NextSequence, IInv
<1> QED
  BY <1>4, <1>5, <1>6, <1>7, <1>8 DEF Join

LEMMA PollStep ==
  ASSUME IInv, NEW v \in Visitor, Poll(v)
  PROVE  IInv'
<1>1. ControlInv'
  BY RpcControl DEF Poll
<1>2. /\ Sound(MaybeSwept, nextSeq) /\ nextSeq' = nextSeq
      /\ nextSeq \in Nat \ {0} /\ clock \in Nat /\ settings \in Setting
  BY SweptSound DEF IInv, TableInv, ControlInv, Poll
<1>3. Sound(Memoize(CheckIn(MaybeSwept, v, clock), v), nextSeq)
  BY <1>2, CheckInSound, MemoizeSound
<1>4. \/ Commit(Memoize(CheckIn(MaybeSwept, v, clock), v))
      \/ Commit(MaybeSwept)
      \/ UNCHANGED <<row, meta, depth, ahead>>
  BY DEF Poll
<1>5. TableInv'
  BY <1>2, <1>3, <1>4, CommitSound, TableFrame DEF IInv
<1> QED
  BY <1>1, <1>5 DEF IInv

LEMMA MetricsStep ==
  ASSUME IInv, Metrics
  PROVE  IInv'
<1>1. ControlInv'
  BY RpcControl DEF Metrics
<1>2. Sound(MaybeSwept, nextSeq) /\ nextSeq' = nextSeq /\ nextSeq \in Nat \ {0}
  BY SweptSound DEF IInv, TableInv, Metrics
<1> QED
  BY <1>1, <1>2, CommitSound DEF Metrics, IInv

LEMMA EnterStep ==
  ASSUME IInv, NEW v \in Visitor, Enter(v)
  PROVE  IInv'
<1>1. ControlInv'
  BY RpcControl DEF Enter, ForcedSweep
<1>2. Sound(Swept, nextSeq) /\ nextSeq' = nextSeq /\ nextSeq \in Nat \ {0}
  BY SweptSound DEF IInv, TableInv, Enter
<1>3. Sound([Swept EXCEPT !.row[v].entered = TRUE], nextSeq)
  BY <1>2, EnterSound
<1> QED
  BY <1>1, <1>2, <1>3, CommitSound DEF Enter, IInv

LEMMA LeaveStep ==
  ASSUME IInv, NEW v \in Visitor, Leave(v)
  PROVE  IInv'
<1>1. ControlInv'
  BY RpcControl DEF Leave, ForcedSweep
<1>2. /\ Sound(Swept, nextSeq) /\ nextSeq' = nextSeq /\ nextSeq \in Nat \ {0}
      /\ clock \in Nat
  BY SweptSound DEF IInv, TableInv, ControlInv, Leave
<1>3. CASE Swept.row[v].status \in Live
  <2>1. Sound(Departed(Swept, v), nextSeq)
    BY <1>2, <1>3, DepartedSound
  <2>2. PICK s \in IF CanAdmit(settings, level, clock)
                   THEN Admissions(Departed(Swept, v), Capacity, clock)
                   ELSE {Departed(Swept, v)} : Commit(s)
    BY <1>3 DEF Leave
  <2>3. Sound(s, nextSeq)
    BY <1>2, <2>1, <2>2, AdmissionsSound, RoomAssumption
  <2> QED
    BY <1>1, <1>2, <2>2, <2>3, CommitSound DEF IInv
<1>4. CASE Swept.row[v].status \notin Live
  BY <1>1, <1>2, <1>4, CommitSound DEF Leave, IInv
<1> QED
  BY <1>3, <1>4

LEMMA ForceAdmitStep ==
  ASSUME IInv, NEW count \in 1 .. Capacity, ForceAdmit(count)
  PROVE  IInv'
<1>1. ControlInv'
  BY RpcControl DEF ForceAdmit, ForcedSweep
<1>2. /\ Sound(Swept, nextSeq) /\ nextSeq' = nextSeq /\ nextSeq \in Nat \ {0}
      /\ clock \in Nat /\ count \in Int
  BY SweptSound, RoomAssumption DEF IInv, TableInv, ControlInv, ForceAdmit
<1>3. PICK s \in IF CanAdmit(settings, level, clock)
                 THEN Admissions(Swept, count, clock) ELSE {Swept} : Commit(s)
  BY DEF ForceAdmit
<1>4. Sound(s, nextSeq)
  BY <1>2, <1>3, AdmissionsSound
<1> QED
  BY <1>1, <1>2, <1>3, <1>4, CommitSound DEF IInv

\* A setter stores what the operator chose and may load the counters.
LEMMA ConfigureStep ==
  ASSUME IInv, NEW new, Configure(new),
         UNCHANGED depth \/ LoadDepth,
         level' \in Levels, alarm' \in Nat
  PROVE  IInv'
<1>1. TableInv'
  BY TableFrame DEF IInv, Configure
<1>2. settings' \in Setting
  BY SettingsAssumption DEF Configure
<1>3. ControlInv'
  BY <1>2 DEF Configure, IInv, ControlInv
<1> QED
  BY <1>1, <1>3 DEF IInv

LEMMA ConfigureAndArmStep ==
  ASSUME IInv, NEW new, ConfigureAndArm(new)
  PROVE  IInv'
<1>1. outbox \in Nat /\ clock \in Nat /\ alarm \in Nat /\ level \in Levels
  BY DEF IInv, ControlInv
<1>2. alarm' \in Nat
  BY <1>1, AlarmType DEF ConfigureAndArm
<1> QED
  BY <1>1, <1>2, ConfigureStep DEF ConfigureAndArm

LEMMA OperateStep ==
  ASSUME IInv, Operate
  PROVE  IInv'
<1>1. outbox \in Nat /\ clock \in Nat /\ alarm \in Nat /\ level \in Levels
  BY DEF IInv, ControlInv
<1>2. ASSUME NEW p \in BOOLEAN, SetPaused(p) PROVE IInv'
  BY <1>1, <1>2, ConfigureStep, ConfigureAndArmStep DEF SetPaused
<1>3. ASSUME NEW o, NEW c, SetSchedule(o, c) PROVE IInv'
  BY <1>3, ConfigureAndArmStep DEF SetSchedule
<1>4. ASSUME NEW mode, SetMode(mode) PROVE IInv'
  BY <1>4, ConfigureAndArmStep DEF SetMode
<1>5. ASSUME NEW click, NEW hold, SetAdmitUx(click, hold) PROVE IInv'
  BY <1>5, ConfigureAndArmStep DEF SetAdmitUx
<1>6. ASSUME NEW rate, SetAdmitRate(rate) PROVE IInv'
  BY <1>6, ConfigureAndArmStep DEF SetAdmitRate
<1>7. ASSUME NEW grace, SetMissedSlotGrace(grace) PROVE IInv'
  BY <1>7, ConfigureAndArmStep DEF SetMissedSlotGrace
<1>8. ASSUME NEW n, SetMaxWaiting(n) PROVE IInv'
  BY <1>1, <1>8, ConfigureStep DEF SetMaxWaiting
<1>9. ASSUME NEW on, SetHealth(on) PROVE IInv'
  <2> DEFINE cfg == [settings EXCEPT !.healthOn = on]
             lvl == IF on THEN level ELSE "ok"
  <2>1. /\ Configure(cfg) /\ level' = lvl /\ LoadDepth
        /\ EnsureAlarm(cfg, lvl, Depth, outbox)
    BY <1>9 DEF SetHealth
  <2>2. level' \in Levels
    BY <1>1, <2>1 DEF Levels
  <2> HIDE DEF cfg, lvl
  <2>3. alarm' \in Nat
    BY <1>1, <2>1, AlarmType
  <2> QED
    BY <2>1, <2>2, <2>3, ConfigureStep
<1>10. ASSUME NEW until, OverrideHealth(until) PROVE IInv'
  BY <1>10, ConfigureAndArmStep DEF OverrideHealth
<1>11. ASSUME ClearHealthOverride PROVE IInv'
  BY <1>1, <1>11, ConfigureStep DEF ClearHealthOverride
<1> QED
  BY <1>2, <1>3, <1>4, <1>5, <1>6, <1>7, <1>8, <1>9, <1>10, <1>11 DEF Operate

LEMMA EnqueueStep ==
  ASSUME IInv, EnqueueWebhook
  PROVE  IInv'
<1>1. /\ clock \in Nat /\ alarm \in Nat /\ outbox' \in Nat
      /\ EnsureAlarm(settings, level, Depth, outbox')
  BY RoomAssumption DEF IInv, ControlInv, EnqueueWebhook
<1>2. alarm' \in Nat
  BY <1>1, AlarmType
<1>3. ControlInv'
  BY <1>1, <1>2 DEF IInv, ControlInv, EnqueueWebhook
<1>4. TableInv'
  BY TableFrame DEF IInv, EnqueueWebhook
<1> QED
  BY <1>3, <1>4 DEF IInv

\* The alarm handler, part by part.
LEMMA AlarmStep ==
  ASSUME IInv, AlarmFire \/ AlarmDelivered \/ AlarmSweep \/ AlarmProbed
  PROVE  IInv'
<1>1. CASE AlarmFire
  <2>1. TableInv'
    BY <1>1, TableFrame DEF IInv, AlarmFire, AlarmRest
  <2> QED
    BY <1>1, <2>1 DEF IInv, ControlInv, AlarmFire, AlarmRest, Levels
<1>2. CASE AlarmDelivered
  <2>1. TableInv'
    BY <1>2, TableFrame DEF IInv, AlarmDelivered, AlarmRest
  <2> QED
    BY <1>2, <2>1, RoomAssumption DEF IInv, ControlInv, AlarmDelivered, AlarmRest
<1>3. CASE AlarmSweep
  <2>1. TableInv'
    BY <1>3, SweptSound, CommitSound DEF IInv, TableInv, AlarmSweep, AlarmRest
  <2> QED
    BY <1>3, <2>1 DEF IInv, ControlInv, AlarmSweep, AlarmRest, Levels
<1>4. CASE AlarmProbed
  <2>1. TableInv'
    BY <1>4, TableFrame DEF IInv, AlarmProbed, AlarmRest
  <2> QED
    BY <1>4, <2>1 DEF IInv, ControlInv, AlarmProbed, AlarmRest, Levels
<1> QED
  BY <1>1, <1>2, <1>3, <1>4

\* The carried remainder stays a fraction of one admission.
LEMMA BudgetType ==
  ASSUME NEW rate \in Int, remainder \in 0 .. RateDen - 1
  PROVE  /\ AdmissionsForTick(rate, remainder).nextRemainder \in 0 .. RateDen - 1
         /\ AdmissionsForTick(rate, remainder).admitCount \in Int
<1>1. remainder + rate \in Int /\ RateDen \in Nat \ {0}
  BY EngineAssumption
<1>2. (remainder + rate) % RateDen \in 0 .. RateDen - 1 /\ (remainder + rate) \div RateDen \in Int
  BY <1>1, DivMod
<1> QED
  BY <1>2 DEF AdmissionsForTick

LEMMA AlarmAdmitStep ==
  ASSUME IInv, AlarmAdmit
  PROVE  IInv'
<1> DEFINE rate == EffectiveRate(settings, level, handler.at)
           budget == AdmissionsForTick(rate, remainder)
<1>1. /\ settings.rate \in Nat /\ SlowDiv \in Nat \ {0} /\ nextSeq \in Nat \ {0}
      /\ handler.at \in Nat /\ remainder \in 0 .. RateDen - 1
  BY RoomAssumption DEF IInv, TableInv, ControlInv, Setting
<1>2. rate \in Int
  BY <1>1, DivMod DEF EffectiveRate
<1> HIDE DEF rate
<1>3. budget.nextRemainder \in 0 .. RateDen - 1 /\ budget.admitCount \in Int
  BY <1>1, <1>2, BudgetType
<1> HIDE DEF budget
<1>4. /\ remainder' = budget.nextRemainder
      /\ \E s \in Admissions(Snapshot, budget.admitCount, handler.at) :
           Commit(s) /\ EnsureAlarm(settings, level, s.depth, outbox)
      /\ handler' = NotRunning
      /\ UNCHANGED <<clock, nextSeq, settings, lastSweep, level, outbox>>
  BY DEF AlarmAdmit, AlarmRest, budget, rate
<1>5. PICK s \in Admissions(Snapshot, budget.admitCount, handler.at) :
        Commit(s) /\ EnsureAlarm(settings, level, s.depth, outbox)
  BY <1>4
<1>6. Sound(s, nextSeq)
  BY <1>1, <1>3, <1>5, SnapshotSound, AdmissionsSound DEF IInv
<1>7. TableInv'
  BY <1>1, <1>4, <1>5, <1>6, CommitSound
<1>8. alarm' \in Nat
  BY <1>5, AlarmType DEF IInv, ControlInv
<1>9. ControlInv'
  BY <1>3, <1>4, <1>8 DEF IInv, ControlInv, NotRunning, Levels
<1> QED
  BY <1>7, <1>9 DEF IInv

LEMMA PlatformStep ==
  ASSUME IInv, Tick \/ Restart \/ UNCHANGED vars
  PROVE  IInv'
<1>1. TableInv'
  BY TableFrame DEF IInv, Tick, Restart, vars
<1> QED
  BY <1>1 DEF IInv, ControlInv, Tick, Restart, vars, NotRunning, Levels

LEMMA InitInv == Init => IInv
<1> SUFFICES ASSUME Init PROVE IInv
  OBVIOUS
<1>1. Waiting(row) = {} /\ Admitted(row) = {}
  BY DEF Init, NoRow, Waiting, Admitted
<1>2. Cardinality({}) = 0
  BY FS_EmptySet
<1>3. TableInv
  <2>1. /\ row \in [Visitor -> Row]
        /\ \A v \in Visitor : row[v].status \notin Live
    BY DEF Init, NoRow, Row, Live
  <2>2. Counts(row) = [waiting |-> 0, admitted |-> 0]
    BY <1>1, <1>2 DEF Counts
  <2>3. DepthCoherent /\ meta \in Depths
    BY <2>2 DEF Init, DepthCoherent, Depth, Depths
  <2>4. CapacityHeld
    BY <1>1, <1>2, RoomAssumption DEF CapacityHeld
  <2>5. ahead \in Memo /\ DOMAIN ahead = {}
    BY NoAheadSound DEF Init
  <2>6. nextSeq = 1 /\ depth = [loaded |-> TRUE, waiting |-> 0, admitted |-> 0]
    BY DEF Init
  <2> QED
    BY <2>1, <2>3, <2>4, <2>5, <2>6 DEF TableInv, AheadCoherent
<1>4. ControlInv
  BY SettingsAssumption, RoomAssumption, EngineAssumption
  DEF Init, ControlInv, NotRunning, Levels, Setting
<1> QED
  BY <1>3, <1>4 DEF IInv

LEMMA NextInv == IInv /\ [Next]_vars => IInv'
BY JoinStep, PollStep, EnterStep, LeaveStep, ForceAdmitStep, MetricsStep, OperateStep,
   EnqueueStep, AlarmStep, AlarmAdmitStep, PlatformStep
DEF Next

LEMMA InvConsequences ==
  ASSUME IInv
  PROVE  TypeOK /\ DepthCoherent /\ CapacityHeld /\ AheadCoherent
<1>1. DOMAIN ahead \subseteq Nat /\ \A x \in DOMAIN ahead : ahead[x] \in Nat
  <2>1. PICK D \in SUBSET Nat : ahead \in [D -> Nat]
    BY DEF IInv, TableInv, Memo
  <2> QED
    BY <2>1
<1> QED
  BY <1>1 DEF IInv, TableInv, ControlInv, TypeOK

-----------------------------------------------------------------------------
(***************************************************************************)
(* Theorems.                                                               *)
(***************************************************************************)
\* The inductive invariant holds in every reachable state of the room.
THEOREM Inductive == Spec => []IInv
BY InitInv, NextInv, PTL DEF Spec

\* Every table, meta key, cached value and alarm of the room keeps its type,
\* the carried admission remainder below one admission included.
THEOREM TypeCorrect == Spec => []TypeOK
BY Inductive, InvConsequences, PTL

\* The counters that replace COUNT(*) equal the rows, in storage and in memory,
\* for any number of visitors and any interleaving of RPCs, alarm and eviction.
THEOREM DepthNeverDrifts == Spec => []DepthCoherent
BY Inductive, InvConsequences, PTL

\* The room never holds more admitted rows than its capacity, for any number of
\* visitors, any rate and any interleaving with the suspended alarm handler.
THEOREM CapacityNeverExceeded == Spec => []CapacityHeld
BY Inductive, InvConsequences, PTL

\* A memoized place in line is always the number of waiters ahead.
THEOREM MemoNeverStale == Spec => []AheadCoherent
BY Inductive, InvConsequences, PTL

=============================================================================
