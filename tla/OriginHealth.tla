---------------------------- MODULE OriginHealth ----------------------------
(***************************************************************************)
(* Origin health of a queue room (advanceHealthState in                    *)
(* src/health/origin-probe.ts, maybeProbeHealth in                         *)
(* src/durable-object/health-state.ts, setHealthConfig in queue-room.ts):  *)
(* the alarm probes the origin, and consecutive results move the level     *)
(* that slows or pauses admissions.  A probe reads configuration and state *)
(* before its network await and writes the state after it, whatever the    *)
(* operator did meanwhile.                                                 *)
(***************************************************************************)
EXTENDS Naturals

CONSTANTS
  Threshold,  \* values of failThreshold and recoverThreshold
  Interval,   \* intervalSeconds
  ProbeTimeout,    \* time after which a probe is aborted
  MaxLost     \* bound: probes lost to an eviction

VARIABLES
  config,  \* meta health_config: [enabled, fail, recover]
  health,  \* meta health_state: [level, fails, oks, failed]
  age,     \* time since lastCheckedAt, at most Interval, which it is when null
  probe,   \* the probe in flight, with what it read
  origin,  \* the origin answers as configured, or does not
  lost     \* history: probes lost to an eviction

healthVars == <<config, health, age, probe, origin, lost>>

ASSUME HealthAssumption ==
  /\ Threshold \subseteq Nat \ {0} /\ Threshold # {}
  /\ Interval \in Nat /\ ProbeTimeout \in Nat /\ MaxLost \in Nat
  /\ \E t \in Threshold : \A u \in Threshold : u <= t

Most == CHOOSE t \in Threshold : \A u \in Threshold : u <= t

Config == [enabled: BOOLEAN, fail: Threshold, recover: Threshold]

\* `failed' is history: the failed probes behind a level below ok.  The
\* counters stop at the largest threshold, above which nothing tells them apart.
Health == [level: {"ok", "slow", "pause"}, fails: 0 .. Most, oks: 0 .. Most,
           failed: 0 .. Most + Most]

DefaultHealth == [level |-> "ok", fails |-> 0, oks |-> 0, failed |-> 0]

Smaller(a, b) == IF a <= b THEN a ELSE b
Count(n) == Smaller(n + 1, Most)

-----------------------------------------------------------------------------
(***************************************************************************)
(* advanceHealthState, for a good and for a bad result.                    *)
(***************************************************************************)
Recovered(c, h) == h.level # "ok" /\ Count(h.oks) >= c.recover

Succeed(c, h) ==
  IF Recovered(c, h) THEN DefaultHealth
  ELSE [h EXCEPT !.oks = Count(@), !.fails = 0,
                 !.failed = IF h.level = "ok" THEN 0 ELSE @]

\* Mutant: the failures that slowed the room count again towards its pause.
WorseKept(h) ==
  [h EXCEPT !.level = IF @ = "ok" THEN "slow" ELSE "pause", !.fails = Count(@)]

\* Mutant: the room that has just been slowed is tested for a pause as well.
WorseTwice(h) == [h EXCEPT !.level = "pause", !.fails = 0]

Worse(h) == [h EXCEPT !.level = IF @ = "ok" THEN "slow" ELSE "pause", !.fails = 0]

\* Mutant: only the failures of a healthy room make it worse.
FailOnce(c, h) ==
  LET counted == [h EXCEPT !.oks = 0, !.failed = Smaller(@ + 1, Most + Most)]
  IN IF h.level = "ok" /\ Count(h.fails) >= c.fail
     THEN Worse(counted)
     ELSE [counted EXCEPT !.fails = Count(@)]

Fail(c, h) ==
  LET counted == [h EXCEPT !.oks = 0, !.failed = Smaller(@ + 1, Most + Most)]
  IN IF h.level # "pause" /\ Count(h.fails) >= c.fail
     THEN Worse(counted)
     ELSE [counted EXCEPT !.fails = Count(@)]

-----------------------------------------------------------------------------
\* setHealthConfig: switching the probe off forgets its state, but not a probe
\* in flight.  `stale' is history: such a probe has been overtaken.
SetHealthConfig(c) ==
  /\ config' = c
  /\ health' = IF c.enabled THEN health ELSE DefaultHealth
  /\ age' = IF c.enabled THEN age ELSE Interval
  /\ probe' = [probe EXCEPT !.stale = @ \/ (probe.running /\ ~c.enabled)]
  /\ UNCHANGED <<origin, lost>>

NoProbe == [running |-> FALSE, config |-> [enabled |-> FALSE, fail |-> Most, recover |-> Most],
            health |-> DefaultHealth, spent |-> 0, stale |-> FALSE]

\* maybeProbeHealth, up to the await.  The alarm's own reading of the clock is
\* taken to be fresh: webhook deliveries before it are left to QueueRoom.
ProbeBegin ==
  /\ ~probe.running
  /\ config.enabled /\ age = Interval
  /\ probe' = [NoProbe EXCEPT !.running = TRUE, !.config = config, !.health = health]
  /\ UNCHANGED <<config, health, age, origin, lost>>

\* The answer, or the abort: the state is written over whatever is stored.
ProbeEnd ==
  /\ probe.running
  /\ health' = IF origin = "up" THEN Succeed(probe.config, probe.health)
                                ELSE Fail(probe.config, probe.health)
  /\ age' = Smaller(probe.spent, Interval)
  /\ probe' = NoProbe
  /\ UNCHANGED <<config, origin, lost>>

\* An eviction during the await; the next alarm probes again.
\* MaxLost bounds the lost probes of the instance.
Lose ==
  /\ probe.running /\ lost < MaxLost
  /\ probe' = NoProbe
  /\ lost' = lost + 1
  /\ UNCHANGED <<config, health, age, origin>>

OriginChanges ==
  /\ origin' = IF origin = "up" THEN "down" ELSE "up"
  /\ UNCHANGED <<config, health, age, probe, lost>>

HealthTick ==
  /\ probe.running => probe.spent < ProbeTimeout
  /\ age' = Smaller(age + 1, Interval)
  /\ probe' = IF probe.running THEN [probe EXCEPT !.spent = @ + 1] ELSE probe
  /\ UNCHANGED <<config, health, origin, lost>>

HealthInit ==
  /\ config \in {c \in Config : ~c.enabled}
  /\ health = DefaultHealth
  /\ age = Interval
  /\ probe = NoProbe
  /\ origin \in {"up", "down"}
  /\ lost = 0

HealthNext ==
  \/ \E c \in Config : SetHealthConfig(c)
  \/ ProbeBegin \/ ProbeEnd \/ Lose
  \/ OriginChanges
  \/ HealthTick

\* An enabled probe keeps the room's alarm armed, and a probe is aborted after
\* ProbeTimeout.  Nothing is owed by the operator or the origin.
HealthSpec ==
  HealthInit /\ [][HealthNext]_healthVars
  /\ WF_healthVars(ProbeBegin) /\ WF_healthVars(ProbeEnd) /\ WF_healthVars(HealthTick)

-----------------------------------------------------------------------------
(***************************************************************************)
(* Properties.                                                             *)
(***************************************************************************)
HealthTypeOK ==
  /\ config \in Config
  /\ health \in Health
  /\ age \in 0 .. Interval
  /\ probe \in [running: BOOLEAN, config: Config, health: Health,
                spent: 0 .. ProbeTimeout, stale: BOOLEAN]
  /\ origin \in {"up", "down"}
  /\ lost \in 0 .. MaxLost

\* A slowed room rests on as many failed probes as the smallest threshold in
\* use, a paused one on twice as many, also when a stale probe wrote the level.
LevelEarned ==
  \A t \in Threshold : (\A u \in Threshold : t <= u) =>
    /\ health.level = "slow" => health.failed >= t
    /\ health.level = "pause" => health.failed >= t + t

\* The throttle is gradual: a room goes from full admission to a pause in one
\* step only when the operator switched the probe off while it ran.
Gradual ==
  [][health.level = "ok" /\ health'.level = "pause" => probe.stale]_healthVars

\* With probes on, an origin that stays broken ends in a pause and one that stays well in
\* full admission, whatever thresholds the operator sets and whatever probes are lost
\* (advanceHealthState, maybeProbeHealth).
FollowsOrigin ==
  /\ <>[](config.enabled /\ origin = "down") => <>[](health.level = "pause")
  /\ <>[](config.enabled /\ origin = "up") => <>[](health.level = "ok")
=============================================================================
