------------------------------ MODULE MCServices ------------------------------
(***************************************************************************)
(* What surrounds a queue's line, on small instances: the jobs that its    *)
(* Durable Object does besides (webhook deliveries, the origin probe, the  *)
(* traffic buckets) and the control room that steers it.  `part' says what *)
(* is at work in a behaviour; the jobs share the alarm (QueueRoom) and no  *)
(* other state.  The operator of the control room, at one desk, changes    *)
(* the queue that is shown while answers come; its plans and limits are in *)
(* MCAdmin.                                                                *)
(***************************************************************************)
EXTENDS WebhookOutbox, OriginHealth, TrafficBuckets, ControlRoom

CONSTANT d1 \* a desk

VARIABLE part

servicesVars == <<outboxVars, healthVars, bucketsVars, controlVars, part>>

Delays == [i \in 1 .. MaxAttempts - 1 |-> i]

\* The desk shows queues, and its changes are of no instant.
Shows ==
  \A c \in {r \in Slots : requests'[r] # NoRequest} :
    requests'[c].op \in {"metrics", "switch", "change", "control"} /\ requests'[c].sent = {}

ServicesInit ==
  /\ part \in {"outbox", "health", "buckets", "desks"}
  /\ OutboxInit /\ HealthInit /\ BucketsInit /\ ControlInit
  /\ part # "health" =>
       origin = "up" /\ config = CHOOSE c \in Config : ~c.enabled

OutboxOnly(A) ==
  part = "outbox" /\ A /\ UNCHANGED <<healthVars, bucketsVars, controlVars, part>>
HealthOnly(A) ==
  part = "health" /\ A /\ UNCHANGED <<outboxVars, bucketsVars, controlVars, part>>
BucketsOnly(A) ==
  part = "buckets" /\ A /\ UNCHANGED <<outboxVars, healthVars, controlVars, part>>
DesksOnly(A) ==
  /\ part = "desks" /\ A /\ Shows
  /\ UNCHANGED <<outboxVars, healthVars, bucketsVars, part>>

ServicesNext ==
  \/ OutboxOnly(OutboxNext)
  \/ HealthOnly(HealthNext)
  \/ BucketsOnly(BucketsNext)
  \/ DesksOnly(ControlNext)

ServicesSpec ==
  /\ ServicesInit /\ [][ServicesNext]_servicesVars
  /\ WF_servicesVars(OutboxOnly(OutboxTick))
  /\ WF_servicesVars(OutboxOnly(OutboxAlarm))
  /\ WF_servicesVars(OutboxOnly(HandlerStep))
  /\ WF_servicesVars(HealthOnly(ProbeBegin))
  /\ WF_servicesVars(HealthOnly(ProbeEnd))
  /\ WF_servicesVars(HealthOnly(HealthTick))
  /\ SF_servicesVars(DesksOnly(\E c \in Slots : Poll(d1, c)))
  /\ \A c \in Slots : WF_servicesVars(DesksOnly(Proceed(c)))
=============================================================================
