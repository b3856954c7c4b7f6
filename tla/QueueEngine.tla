---------------------------- MODULE QueueEngine ----------------------------
(***************************************************************************)
(* The pure queue arithmetic of src/queue/engine.ts: how many visitors one *)
(* alarm tick may admit, how often a waiter must check in, and at which    *)
(* instant its next check-in slot lies.  Time is counted in whole seconds  *)
(* (the code aligns every slot to a second) and a rate is an exact         *)
(* fraction with denominator RateDen, where the code uses a double.        *)
(***************************************************************************)
EXTENDS Integers

CONSTANTS
  RateDen,       \* denominator of every admission rate (visitors per tick)
  StatusBudget,  \* STATUS_RPS_BUDGET: check-ins per second the room accepts
  MinPeriod,     \* MIN_CHECK_IN_PERIOD_SEC
  FrontBand,     \* FIFO positions that keep the short check-in period, at least
  BandTicks,     \* and as many as are admitted in this many ticks
  NearEta        \* lottery ETA up to which a waiter keeps the short period

ASSUME EngineAssumption ==
  /\ RateDen \in Nat \ {0}
  /\ StatusBudget \in Nat \ {0}
  /\ MinPeriod \in Nat \ {0}
  /\ FrontBand \in Nat
  /\ BandTicks \in Nat
  /\ NearEta \in Nat

Larger(a, b) == IF a >= b THEN a ELSE b
Smaller(a, b) == IF a <= b THEN a ELSE b
CeilDiv(a, b) == (a + b - 1) \div b

(***************************************************************************)
(* Admission budget.  `rate' and `remainder' are numerators over RateDen.  *)
(***************************************************************************)
\* Mutant: the admitted visitors are not taken off the carried budget.
AdmissionsCarried(rate, remainder) ==
  [admitCount    |-> (remainder + rate) \div RateDen,
   nextRemainder |-> remainder + rate]

AdmissionsForTick(rate, remainder) ==
  IF rate <= 0
  THEN [admitCount |-> 0, nextRemainder |-> remainder]
  ELSE [admitCount    |-> (remainder + rate) \div RateDen,
        nextRemainder |-> (remainder + rate) % RateDen]

OpenSlots(capacity, admitted) == Larger(0, capacity - admitted)

(***************************************************************************)
(* Check-in slots.                                                         *)
(***************************************************************************)
CheckInPeriod(waiting) ==
  IF waiting <= 0 THEN MinPeriod
  ELSE Larger(MinPeriod, CeilDiv(waiting, StatusBudget))

FrontBandSize(rate) == Larger(FrontBand, CeilDiv(rate * BandTicks, RateDen))

\* `eta' is the estimated wait in ticks, used in lottery mode only.
EffectiveCheckInPeriod(waiting, position, mode, eta, rate) ==
  IF \/ mode = "lottery" /\ eta <= NearEta
     \/ mode = "queue" /\ position <= FrontBandSize(rate)
  THEN MinPeriod
  ELSE CheckInPeriod(waiting)

\* The first instant at or after `earliest' whose residue modulo the period
\* is the visitor's hash.
NextCheckAt(hash, earliest, period) ==
  earliest + (((hash % period) - (earliest % period) + period) % period)

MissedSlotGrace(period, graceSeconds) == Larger(graceSeconds, period)

IsCheckInDue(now, nextCheckAt) == now >= nextCheckAt
=============================================================================
