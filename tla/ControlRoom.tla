----------------------------- MODULE ControlRoom -----------------------------
(***************************************************************************)
(* The operators' dashboard (admin/src/components/Dashboard.tsx,           *)
(* EventToolbar.tsx and the panels) and the routes behind it               *)
(* (src/routes/admin/traffic.ts, state.ts, src/admin/audit-store.ts).  A   *)
(* dashboard shows one queue, asks for its metrics every five seconds and  *)
(* sends changes; a route makes its calls of the room one by one and ends  *)
(* by rewriting the activity log.  Answers come late and in any order, and *)
(* the queue shown changes meanwhile.                                      *)
(* Pauses, rates, modes, passes, revocations and health settings are one   *)
(* call of the room each, about what no property tells apart: a change of  *)
(* no instant.  Webhooks are left to AlertLatches.  A poll is not sent      *)
(* before the one of the same queue is answered, and a read is answered in *)
(* the end: bounds of this model.                                          *)
(***************************************************************************)
EXTENDS Naturals

CONSTANTS
  Desks,    \* open dashboards
  Queues,   \* queues, each with its room
  Slots,    \* requests under way at a time
  First,    \* defaultQueue
  Times,    \* instants of a schedule
  Bounds,   \* values of a limit
  MaxSaves  \* bound: changes sent

\* An instant of a schedule is a number, 0 for none.
Instants == {"opens", "closes"}
Plan == [Instants -> Times \cup {0}]
Limits == [max: Bounds, grace: Bounds]

ASSUME ControlAssumption ==
  /\ First \in Queues /\ Times \subseteq Nat \ {0}
  /\ Bounds \subseteq Nat \ {0} /\ Bounds # {} /\ MaxSaves \in Nat

VARIABLES
  rooms,      \* what the routes read and write of each room
  desks,      \* the dashboards
  requests,   \* the requests under way
  audit,      \* admin:audit: the changes it tells of
  saves,      \* changes sent
  done,       \* history: the changes that took effect
  partial,    \* history: rooms whose last schedule gave one of its instants only
  raced,      \* history: two changes of one room's limits were at work at once
  surprised   \* history: a limit was replaced that the operator had not reviewed

controlVars == <<rooms, desks, requests, audit, saves, done, partial, raced, surprised>>

Room == [plan: Plan, limits: Limits]
Usual == CHOOSE b \in Bounds : TRUE
Unplanned == [i \in Instants |-> 0]
Ordered(plan) == plan["opens"] # 0 /\ plan["closes"] # 0 => plan["opens"] < plan["closes"]
Fresh == [plan |-> Unplanned, limits |-> [max |-> Usual, grace |-> Usual]]

\* `of': history, the queue that the metrics on show belong to.  `known': the
\* limits that the Danger zone shows.
Desk == [queue: Queues, of: Queues, known: Limits]

Asks == {"metrics", "switch", "limits"}
\* "change": a panel that shows its queue again when it is done (onSaved).  "control": the
\* toolbar, which asks for the metrics only (onRefresh).
Changes == {"change", "control", "setLimits"}

\* What a request does, one await after the other.  After any but the limits the
\* dashboard asks for the state, or the metrics, of the queue that it was sent to.
Steps(op) ==
  CASE op \in Asks -> <<"ask", "answer">>
    [] op = "setLimits" -> <<"review", "setMax", "setGrace", "readLog", "putLog", "answer">>
    [] OTHER -> <<"set", "readLog", "putLog", "ask", "answer">>

\* `want': what the room is to have of what the request changes.  `sent': the instants
\* that a schedule gives.  `reviewed': the limits that the operator saw.  `log': the log
\* as it was read.  `got': what was read for an answer.  What is of no use any more is
\* forgotten.
NoRequest == [op |-> "none"]
Request(op, d, q, n, want, sent) ==
  [op |-> op, sent |-> sent, desk |-> d, queue |-> q, at |-> 1, n |-> n, want |-> want,
   reviewed |-> IF op = "setLimits" THEN desks[d].known ELSE Fresh.limits,
    log |-> {}, got |-> Fresh.limits]

Step(c) == Steps(requests[c].op)[requests[c].at]
At(c, step) == requests[c] # NoRequest /\ Step(c) = step
Next1(r) == [r EXCEPT !.at = @ + 1]
Goes(c) == requests' = [requests EXCEPT ![c] = Next1(@)]
Drops(c) == requests' = [requests EXCEPT ![c] = NoRequest]
Of(c) == requests[c].queue

ControlInit ==
  /\ rooms = [q \in Queues |-> Fresh]
  /\ desks = [d \in Desks |-> [queue |-> First, of |-> First,
                               known |-> Fresh.limits]]
  /\ requests = [c \in Slots |-> NoRequest]
  /\ audit = {} /\ saves = 0 /\ done = {}
  /\ partial = {} /\ raced = FALSE /\ surprised = FALSE

-----------------------------------------------------------------------------
(***************************************************************************)
(* The dashboard.                                                          *)
(***************************************************************************)
\* refreshMetrics, at each interval, for the queue on show.
Poll(d, c) ==
  /\ requests[c] = NoRequest
  /\ \A b \in Slots : requests[b] # NoRequest =>
       ~(requests[b].op = "metrics" /\ requests[b].desk = d /\ Of(b) = desks[d].queue)
  /\ requests' = [requests EXCEPT ![c] = Request("metrics", d, desks[d].queue, 0, Fresh, {})]
  /\ UNCHANGED <<rooms, desks, audit, saves, done, partial, raced, surprised>>

\* switchQueue.
Choose(d, c) ==
  /\ requests[c] = NoRequest
  /\ \E q \in Queues \ {desks[d].queue} :
       requests' = [requests EXCEPT ![c] = Request("switch", d, q, 0, Fresh, {})]
  /\ UNCHANGED <<rooms, desks, audit, saves, done, partial, raced, surprised>>

\* The Danger zone is opened, or its queue has changed.
AskLimits(d, c) ==
  /\ requests[c] = NoRequest
  /\ requests' = [requests EXCEPT ![c] = Request("limits", d, desks[d].queue, 0, Fresh, {})]
  /\ UNCHANGED <<rooms, desks, audit, saves, done, partial, raced, surprised>>

Submits(c, op, d, want, sent) ==
  /\ requests[c] = NoRequest /\ saves < MaxSaves
  /\ saves' = saves + 1
  /\ requests' = [requests EXCEPT ![c] = Request(op, d, desks[d].queue, saves + 1, want, sent)]
  /\ UNCHANGED <<rooms, audit, done, partial, raced, surprised>>

\* Mutant: the instants are not compared.
AcceptsAny(plan, sent) == TRUE

\* handleAdminSchedule refuses a closing that is not after the opening, when both are given.
Accepts(plan, sent) == sent = Instants => Ordered(plan)

\* Save schedule and Open now send both instants.  The route also takes one of them, and
\* the room keeps its other one.  setRate, togglePause and the others send neither.
Save(d, c) ==
  /\ \E plan \in Plan, sent \in SUBSET Instants, op \in {"change", "control"} :
       /\ op = "control" => sent = {}
       /\ Accepts(plan, sent)
       /\ \A i \in Instants \ sent : plan[i] = 0
       /\ Submits(c, op, d, [Fresh EXCEPT !.plan = plan], sent)
  /\ UNCHANGED desks

\* Save capacity override, after the changes on show were acknowledged.
SaveLimits(d, c) ==
  /\ \A b \in Slots : requests[b] # NoRequest =>
       ~(requests[b].op = "setLimits" /\ requests[b].desk = d)
  /\ \E limits \in Limits \ {desks[d].known} :
       Submits(c, "setLimits", d, [Fresh EXCEPT !.limits = limits], {})
  /\ UNCHANGED desks

-----------------------------------------------------------------------------
(***************************************************************************)
(* The routes.                                                             *)
(***************************************************************************)
\* handleAdminMetrics, handleAdminState, handleAdminQueueLimitsGet read the room.
Ask(c) ==
  /\ At(c, "ask")
  /\ requests' = [requests EXCEPT ![c] = [Next1(@) EXCEPT !.got =
       IF requests[c].op = "limits" THEN rooms[Of(c)].limits ELSE requests[c].got]]
  /\ UNCHANGED <<rooms, desks, audit, saves, done, partial, raced, surprised>>

\* setSchedule, setPaused, setAdmitRate...: the room takes the instants that are given.
Set(c) ==
  /\ At(c, "set")
  /\ rooms' = [rooms EXCEPT ![Of(c)].plan =
       [i \in Instants |-> IF i \in requests[c].sent THEN requests[c].want.plan[i] ELSE @[i]]]
  /\ done' = done \cup {requests[c].n}
  /\ partial' = CASE requests[c].sent = {} -> partial
                   [] requests[c].sent = Instants -> partial \ {Of(c)}
                   [] OTHER -> partial \cup {Of(c)}
  /\ requests' = [requests EXCEPT ![c] = [Next1(@) EXCEPT !.want = Fresh, !.sent = {}]]
  /\ UNCHANGED <<desks, audit, saves, raced, surprised>>

\* Mutant: only one of the two limits is compared with what was reviewed.
SameMax(reviewed, limits) == reviewed.max = limits.max

Same(reviewed, limits) == reviewed.max = limits.max /\ reviewed.grace = limits.grace

\* handleAdminQueueLimitsPut compares what the operator reviewed with the limits, and
\* is refused when they differ.
Review(c) ==
  /\ At(c, "review")
  /\ LET limits == rooms[Of(c)].limits IN
     IF ~Same(requests[c].reviewed, limits) \/ requests[c].want.limits = limits
     THEN Drops(c) /\ UNCHANGED raced
     ELSE /\ Goes(c)
          /\ raced' = (raced \/ \E b \in Slots \ {c} :
                           (At(b, "setMax") \/ At(b, "setGrace")) /\ Of(b) = Of(c))
  /\ UNCHANGED <<rooms, desks, audit, saves, done, partial, surprised>>

\* setMaxWaitingVisitors, setMissedSlotGraceSeconds: each only for a limit that changes.
SetLimit(c, step, field) ==
  /\ At(c, step)
  /\ LET r == requests[c] IN
     IF r.want.limits[field] = r.reviewed[field]
     THEN UNCHANGED <<rooms, done, surprised>>
     ELSE /\ rooms' = [rooms EXCEPT ![Of(c)].limits[field] = r.want.limits[field]]
          /\ done' = done \cup {r.n}
          /\ surprised' = (surprised \/ rooms[Of(c)].limits[field] # r.reviewed[field])
  /\ requests' = [requests EXCEPT ![c] = [Next1(@) EXCEPT !.reviewed =
       IF step = "setGrace" THEN Fresh.limits ELSE requests[c].reviewed]]
  /\ UNCHANGED <<desks, audit, saves, partial, raced>>

\* appendAuditEvent: a log that cannot be read is taken for an empty one.
ReadLog(c) ==
  /\ At(c, "readLog")
  /\ \E log \in {audit, {}} : requests' = [requests EXCEPT ![c] = [Next1(@) EXCEPT !.log = log]]
  /\ UNCHANGED <<rooms, desks, audit, saves, done, partial, raced, surprised>>

PutLog(c) ==
  /\ At(c, "putLog")
  /\ audit' = requests[c].log \cup {requests[c].n}
  /\ requests' = [requests EXCEPT ![c] = [Next1(@) EXCEPT !.log = {}, !.n = 0]]
  /\ UNCHANGED <<rooms, desks, saves, done, partial, raced, surprised>>

\* A call of the room or the store fails, and the request with it.
FailRequest(c) ==
  /\ requests[c] # NoRequest /\ requests[c].op \in Changes /\ Step(c) # "answer"
  /\ Drops(c)
  /\ UNCHANGED <<rooms, desks, audit, saves, done, partial, raced, surprised>>

-----------------------------------------------------------------------------
(***************************************************************************)
(* The answers.                                                            *)
(***************************************************************************)
\* Mutant: metrics are compared with the queue of the first render, a stale closure.
DisplayedFirst(desk, r) ==
  IF r.op \notin {"metrics", "control"} THEN [desk EXCEPT !.queue = r.queue, !.of = r.queue]
  ELSE IF r.queue = First THEN [desk EXCEPT !.of = First] ELSE desk

\* Metrics are shown, and a state makes its queue the one on show, whatever queue is on
\* show by now; a late answer about limits that were asked for is dropped when the queue
\* has changed (cancelled).
Displayed(desk, r) ==
  CASE r.op \in {"metrics", "control"} -> [desk EXCEPT !.of = r.queue]
    [] r.op \in {"switch", "change"} -> [desk EXCEPT !.queue = r.queue, !.of = r.queue]
    [] r.op = "limits" -> IF desk.queue = r.queue THEN [desk EXCEPT !.known = r.got] ELSE desk
    [] r.op = "setLimits" -> [desk EXCEPT !.known = r.want.limits]

Answer(c) ==
  /\ At(c, "answer")
  /\ desks' = [desks EXCEPT ![requests[c].desk] = Displayed(@, requests[c])]
  /\ Drops(c)
  /\ UNCHANGED <<rooms, audit, saves, done, partial, raced, surprised>>

\* A request goes on.
Proceed(c) ==
  \/ Ask(c) \/ Set(c) \/ Review(c) \/ ReadLog(c) \/ PutLog(c) \/ FailRequest(c) \/ Answer(c)
  \/ SetLimit(c, "setMax", "max") \/ SetLimit(c, "setGrace", "grace")

ControlNext ==
  \E c \in Slots :
    \/ Proceed(c)
    \/ \E d \in Desks :
         \/ Poll(d, c) \/ Choose(d, c) \/ AskLimits(d, c)
         \/ Save(d, c) \/ SaveLimits(d, c)

\* The interval goes on, and what is under way is answered or fails.
ControlFairness ==
  /\ \A d \in Desks : SF_controlVars(\E c \in Slots : Poll(d, c))
  /\ \A c \in Slots : WF_controlVars(Proceed(c))

ControlSpec == ControlInit /\ [][ControlNext]_controlVars /\ ControlFairness

-----------------------------------------------------------------------------
(***************************************************************************)
(* Properties.                                                             *)
(***************************************************************************)
\* The shape of the state.
ControlTypeOK ==
  /\ rooms \in [Queues -> Room] /\ desks \in [Desks -> Desk]
  /\ audit \cup done \subseteq 1..MaxSaves /\ saves \in 0..MaxSaves
  /\ partial \subseteq Queues /\ {raced, surprised} \subseteq BOOLEAN
  /\ \A c \in Slots : requests[c] # NoRequest =>
       requests[c].op \in Asks \cup Changes /\ requests[c].at \in DOMAIN Steps(requests[c].op)

\* The activity log, however its writers overwrite each other, tells of no change that
\* the room has not made (appendAuditEvent after the calls of the room); and a limit that
\* is replaced is the one that its operator reviewed, on whatever queue and however old
\* the panel, unless two changes of one room's limits ran at once
\* (handleAdminQueueLimitsPut, previousMaxWaitingVisitors).
DoneAndReviewed == audit \subseteq done /\ (surprised => raced)

\* A room may close before it opens only when the last schedule it took gave one instant
\* alone: no interleaving of changes that give both, or none, brings that about, and the
\* next one that gives both ends it, in whatever order the updates were sent
\* (handleAdminSchedule, setSchedule).
ScheduleOrdered == \A q \in Queues \ partial : Ordered(rooms[q].plan)

\* A dashboard that shows the numbers of a former queue comes to show those of its own
\* (refreshMetrics, switchQueue).
CatchesUp == \A d \in Desks : desks[d].of # desks[d].queue ~> desks[d].of = desks[d].queue

=============================================================================
