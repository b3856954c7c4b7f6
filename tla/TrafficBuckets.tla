--------------------------- MODULE TrafficBuckets ---------------------------
(***************************************************************************)
(* Traffic analytics of a queue room                                       *)
(* (src/durable-object/traffic-buckets.ts): joins and admits are counted   *)
(* in an open bucket kept in the table meta; the first event of a later    *)
(* bucket closes it into the table traffic_buckets.  Calls record with the *)
(* present instant, and the alarm with the one it read before its network  *)
(* awaits.                                                                 *)
(***************************************************************************)
EXTENDS Naturals, Sequences, FiniteSets, FiniteSetsExt

CONSTANTS
  Width,      \* TRAFFIC_BUCKET_MS
  Retention,  \* TRAFFIC_RETENTION_MS
  MaxJoins,   \* bound: joins of the instance
  MaxAdmits,  \* bound: admissions of the instance
  MaxClock    \* bound: last instant of the instance

VARIABLES
  clock,   \* Date.now()
  open,    \* meta traffic_open_t, _joins and _admits; t is 0 when never set
  closed,  \* table traffic_buckets, by bucket
  inflow,  \* meta total_inflow
  alarm,   \* the alarm handler: the instant it read, 0 when it does not run
  joined,  \* history: the bucket each join happened in, in their order
  seated,  \* history: admissions by the bucket they were recorded for
  reopened \* history: an older bucket took the place of the open one

bucketsVars == <<clock, open, closed, inflow, alarm, joined, seated, reopened>>

ASSUME TrafficAssumption ==
  /\ Width \in Nat \ {0}
  /\ Retention \in Nat
  /\ MaxJoins \in Nat /\ MaxAdmits \in Nat
  /\ MaxClock \in Nat /\ MaxClock >= Width

\* alignTrafficBucket
Align(t) == (t \div Width) * Width

Bucket == {Align(t) : t \in Width .. MaxClock}
Empty == [joins |-> 0, admits |-> 0]
Add(a, b) == [joins |-> a.joins + b.joins, admits |-> a.admits + b.admits]

Lesser(a, b) == IF a <= b THEN a ELSE b
Opened(t) == [t |-> t, n |-> Empty]

-----------------------------------------------------------------------------
\* Mutant: what an earlier visit of the bucket had stored is kept twice.
MergedTwice(table, b) == [table EXCEPT ![b.t] = Add(Add(@, b.n), @)]

\* INSERT ... ON CONFLICT(t) DO UPDATE
Merged(table, b) == [table EXCEPT ![b.t] = Add(@, b.n)]

\* DELETE FROM traffic_buckets WHERE t < cutoff
Pruned(table, now) ==
  [t \in Bucket |-> IF t + Retention < now THEN Empty ELSE table[t]]

\* flushTrafficBucket, on the open bucket and the table: [open, closed]
Flush(s, now) ==
  IF s.open.t = 0 THEN [s EXCEPT !.open = Opened(Align(now))]
  ELSE IF s.open.t >= Align(now) THEN s
  ELSE [open |-> Opened(Align(now)), closed |-> Pruned(Merged(s.closed, s.open), now)]

\* Mutant: the event is counted into the bucket that happens to be open.
RecordAfter(s, now, n) ==
  Flush([s EXCEPT !.open.n = Add(@, n)], now)

\* recordTraffic: a bucket that is not the open one replaces it.
Record(s, now, n) ==
  LET f == Flush(s, now)
      b == IF f.open.t = Align(now) THEN f.open ELSE Opened(Align(now))
  IN [f EXCEPT !.open = [b EXCEPT !.n = Add(@, n)]]

Stored == [open |-> open, closed |-> closed]

Store(s) ==
  /\ open' = s.open
  /\ closed' = s.closed
  /\ reopened' = (reopened \/ s.open.t < open.t)

\* An event counted at the instant `now', with its history: a call counts one join at most.
Recorded(now, n) ==
  /\ Store(Record(Stored, now, n))
  /\ inflow' = inflow + n.joins
  /\ joined' = IF n.joins = 0 THEN joined ELSE Append(joined, Align(clock))
  /\ seated' = [seated EXCEPT ![Align(now)] = @ + n.admits]

-----------------------------------------------------------------------------
\* MaxJoins and MaxAdmits bound the instance.
Left == MaxAdmits - MapThenSumSet(LAMBDA t : seated[t], Bucket)

\* join, into the line or straight into a seat
Join ==
  /\ inflow < MaxJoins
  /\ \E admits \in 0 .. Lesser(1, Left) : Recorded(clock, [joins |-> 1, admits |-> admits])
  /\ UNCHANGED <<clock, alarm>>

\* forceAdmit
ForceAdmit ==
  /\ \E n \in 1 .. Left : Recorded(clock, [joins |-> 0, admits |-> n])
  /\ UNCHANGED <<clock, alarm>>

\* getTraffic, which flushes before it reads
GetTraffic ==
  /\ Store(Flush(Stored, clock))
  /\ UNCHANGED <<clock, inflow, alarm, joined, seated>>

AlarmFire ==
  /\ alarm = 0
  /\ alarm' = clock
  /\ UNCHANGED <<clock, open, closed, inflow, joined, seated, reopened>>

\* admitFromBudget and the flush that ends the alarm, both with its old instant
AlarmAdmit ==
  /\ alarm # 0
  /\ \/ \E n \in 1 .. Left : Recorded(alarm, [joins |-> 0, admits |-> n])
     \/ Store(Flush(Stored, alarm)) /\ UNCHANGED <<inflow, joined, seated>>
  /\ alarm' = 0
  /\ UNCHANGED clock

BucketsTick ==
  /\ clock < MaxClock
  /\ clock' = clock + 1
  /\ UNCHANGED <<open, closed, inflow, alarm, joined, seated, reopened>>

BucketsInit ==
  /\ clock = Width
  /\ open = Opened(0)
  /\ closed = [t \in Bucket |-> Empty]
  /\ inflow = 0
  /\ alarm = 0
  /\ joined = <<>>
  /\ seated = [t \in Bucket |-> 0]
  /\ reopened = FALSE

BucketsNext == Join \/ ForceAdmit \/ GetTraffic \/ AlarmFire \/ AlarmAdmit \/ BucketsTick

BucketsSpec == BucketsInit /\ [][BucketsNext]_bucketsVars

-----------------------------------------------------------------------------
(***************************************************************************)
(* Properties.                                                             *)
(***************************************************************************)
Counts == [joins: Nat, admits: Nat]

BucketsTypeOK ==
  /\ clock \in Width .. MaxClock
  /\ open \in [t: Bucket \cup {0}, n: Counts]
  /\ closed \in [Bucket -> Counts]
  /\ inflow \in Nat
  /\ alarm \in 0 .. clock
  /\ joined \in Seq(Bucket) /\ seated \in [Bucket -> Nat]
  /\ reopened \in BOOLEAN

\* What the chart shows of a bucket: its row and, if it is open, the counters.
Shown(t) == IF open.t = t THEN Add(closed[t], open.n) ELSE closed[t]

Retained(t) == t + Retention >= clock

\* The joins of a history that happened in a bucket.
CountIn(history, t) == Cardinality({i \in DOMAIN history : history[i] = t})

\* No event is ever shown twice, though a bucket may be opened, closed and
\* opened again and its row updated on conflict: a bucket shows at most the
\* joins and admissions of its time.
NeverOvercounts ==
  \A t \in Bucket : Shown(t).joins <= CountIn(joined, t) /\ Shown(t).admits <= seated[t]

\* docs/analytics.md:7: the room records joins and admits into buckets that it
\* keeps for the retention time.
Conserved ==
  \A t \in Bucket :
    Retained(t) => Shown(t) = [joins |-> CountIn(joined, t), admits |-> seated[t]]

\* The only way to lose a count is an alarm whose instant has fallen behind the
\* open bucket; the running total of joins survives even that.
LostOnlyToStaleAlarm ==
  /\ ~reopened => Conserved
  /\ inflow = Len(joined)
=============================================================================
