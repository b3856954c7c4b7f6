# TideGuard: a TLA+ verification of the waiting room

TideGuard puts a waiting room in front of a web site. A Cloudflare Worker
answers browsers; one Durable Object per queue, `QueueRoom`, holds the line and
the seats. This directory models that program, model-checks it with TLC, and
proves the central invariants with TLAPS. Line references are to the
repository's files.

## Inventory

| component | state it keeps | operations | what is hard |
|---|---|---|---|
| `QueueRoom` Durable Object (`src/durable-object/queue-room.ts`) | SQLite tables `visitors`, `meta`, `webhook_outbox`, `traffic_buckets`; in memory `depth`, `aheadCache`, `expectedQueue`; one alarm | join, status/heartbeat, enter, leave, metrics, force-admit, a dozen operator settings, the alarm | every path keeps hand-maintained counters; the alarm awaits the network twice and goes on with an old clock reading; evictions lose memory |
| queue engine (`src/queue/engine.ts`) | none | admission budget per tick, check-in slots | carried fractions, residues |
| webhook outbox (`processWebhookOutbox`, `enqueueWebhook`) | rows with attempts and due time | enqueue, deliver, retry, give up | redelivery after a crash, enqueue during a delivery |
| origin health (`src/health/origin-probe.ts`, `health-state.ts`) | level, consecutive fails and successes, last check | probe, advance, override, disable | the state is read before the probe and written after it |
| traffic analytics (`traffic-buckets.ts`) | open bucket in `meta`, closed buckets in a table | record, flush | a stale clock reading reopens an older bucket |
| Worker queue routes (`src/routes/queue.ts`) with tokens and tickets (`src/auth/*`, `packages/verify`) | signed tickets and tokens at the client, a token epoch per queue in KV | join, status, enter, leave, proxy check | a token is a copy of a seat with a lifetime of its own; revocation is an epoch |
| access gates (`src/auth/access-gate.ts`, `src/admin/bypass-store.ts`, `geo-block-store.ts`) | rules in KV, a copy of them in every isolate | allow, block, bypass, save | a visit reads two copies of different age; a save starts from a copy |
| admin accounts (`src/routes/admin/auth.ts`, `team.ts`, `src/admin/store.ts`, `invite-store.ts`) | users, invites and their index in KV, session cookies | claim, login, terms, invite, accept, remove, recover, reset | read-modify-write of whole records, single-use invites, the last administrator |
| webhook dispatch (`src/admin/webhook-dispatch.ts`, `webhook-store.ts`) | settings with alert latches, one record in KV | fire on an edge, debounce, save, test | latches raced by concurrent requests and shared by the queues |
| setup and Cloudflare (`src/routes/admin/setup-cloudflare.ts`, `src/admin/setup-pending-store.ts`, `cloudflare-api.ts`) | a pending setup in KV, what it becomes at Finish | a sequence of remote calls, each between two uses of the record | overlapping wizards, partial failure, secrets sealed with a former key |
| admin traffic controls (`src/routes/admin/traffic.ts`, `state.ts`, `settings.ts`) | the activity log in KV | schedule, limits, pause, rate, mode, metrics | several calls of the room in one request, a review that may be stale |
| admin dashboard (`admin/src/components`) | view, step of the wizard, queue on show | navigate, send, poll, hear an answer | answers that come late, twice, or never |
| browser client (`src/html/waiting-room-client.ts`) | poll, heartbeat and hold timers, the visitor's id | join, poll, confirm, forfeit | several chains of requests at once, a tab that is hidden and closed |
| simulator (`src/queue/simulator.ts`) | a map and a deque | join, leave, tick | stale entries in its deque |
| router, pages, proxy | none of the queue's | dispatch, rendering | the order of the gates |
| configuration, branding, cost estimate, demo page | none | parsing, rendering | none that a model checker reaches |

Interactions. A browser calls the Worker; the Worker checks the gates and the
ticket, and calls one RPC of the queue's object; the object answers with a view
of the visitor, for which the Worker signs a token when the visitor is seated.
The Durable Object's alarm runs sweeps and admissions without any caller. The
platform delivers one event at a time to an object and holds further ones back
while storage is awaited, so an RPC is atomic; only the alarm awaits the
network (`fetch` of webhooks, `fetch` of the origin probe), and other events do
run there. The Worker's isolates share no memory: what an operator saves reaches
them through KV, and every handler that changes a KV record reads the whole of
it and puts the whole of it back, with nothing to keep two requests apart.

What makes each part correct:

* the room: counters equal rows; no more seats than capacity; the line is first
  come first served in Queue Mode; closed gates let nobody in; a seat lasts
  exactly its hold or its token lifetime; the alarm is always armed when there
  is work;
* the outbox: every queued alert is delivered or given up, attempts are bounded;
* health: the level moves one step at a time and only after the configured
  number of consecutive results;
* traffic: what was counted is in a bucket exactly once;
* tokens: only somebody who held a confirmed seat has a token, and a token does
  not outlive its seat by more than the design says;
* gates: settled settings decide a visit, and no isolate goes by a setting that
  was replaced longer ago than its copy may live;
* accounts: an administrator always remains, no two accounts share a name, a
  spent invite is refused, and an open one can be found unless the index was put
  over one that had not been read;
* alerts: nothing is told that the record was told, unless a put went over a
  record that had not been read;
* setup: Finish links a zone that was seen proxied, and guards the login with a
  widget that works as long as the wizard made one only;
* controls: a limit is replaced by whoever reviewed it, a schedule opens before
  it closes unless its last update gave one instant alone, the log tells of
  nothing that did not happen;
* dashboard: a page is shown when its records have earned it, and the numbers on
  show come to be those of the queue on show;
* browser: it goes to the site only when the room let the visitor in; while it is
  shown and has a visitor it is about to ask for its place, unless a challenge was
  overtaken, and without one it is on its way to a new one, unless its join failed
  or was refused; a confirmed visitor gets there;
* simulator: its counters are those of its map, and it serves in order.

`PROJECT.json` lists the components with their status, and under `hazards` each
thing that is hard to test, at its line.

## Modules

| module | models |
|---|---|
| `QueueEngine` | `src/queue/engine.ts`: the arithmetic of budgets and check-in slots |
| `QueueRoom` | the Durable Object: every RPC, the alarm handler in five steps, eviction, time |
| `AdmissionLine` | the abstract promise: numbered arrivals, some in line and some in seats |
| `QueueRoomLine` | the refinement mapping from `QueueRoom` to `AdmissionLine` |
| `MCQueueRoom` | small instances of the above for TLC |
| `QueueRoomProofs` | proofs about the states of `QueueRoom`: types, counters, capacity, memo; and about the arithmetic of `QueueEngine` |
| `QueueRoomLineProofs` | proofs about its steps: order, gates, places, seats, the alarm, and the refinement |
| `AdmissionTokens` | `src/routes/queue.ts`, `src/auth`: requests around the room, tokens, the epoch, the gate |
| `WebhookOutbox` | `enqueueWebhook`, `processWebhookOutbox`, `ensureAlarm`: rows, attempts, delays, crashes |
| `OriginHealth` | `src/health/origin-probe.ts`, `health-state.ts`: counters, level, the probe in flight |
| `TrafficBuckets` | `traffic-buckets.ts`: the open bucket, the table, the stale alarm |
| `RoomServicesProofs` | proofs about the three |
| `AccessRules`, `AccessRulesProofs` | `src/auth/access-gate.ts`, `bypass-store.ts`, `geo-block-store.ts` and the handlers that save them: records, copies, visits; proofs |
| `AdminAccounts` | `src/admin/store.ts`, `invite-store.ts`, `src/routes/admin/auth.ts`, `team.ts`: accounts, invites, their index, sessions |
| `AlertLatches` | `src/admin/webhook-dispatch.ts`, `webhook-store.ts` and the form's handler: settings, latches, deliveries |
| `CloudflareSetup` | `src/routes/admin/setup-cloudflare.ts`, `setup-pending-store.ts`, `turnstile-store.ts`, Finish, rotation, reset |
| `AdminApp` | `admin/src/components/App.tsx`, `SetupWizard.tsx` and `views/setup`: the page of one operator against the worker |
| `ControlRoom` | `admin/src/components/Dashboard.tsx`, its toolbar and panels, with `src/routes/admin/traffic.ts`, `state.ts`, `audit-store.ts` |
| `OperatorsProofs` | proofs about `AdminAccounts`, `AlertLatches` and their composition |
| `AdminProofs` | proofs about `CloudflareSetup`, `AdminApp`, `ControlRoom` and their composition |
| `WaitingRoomClient`, `WaitingRoomClientProofs` | `src/html/waiting-room-client.ts`: timers, chains of requests, the offer, the challenge, the redirect; proofs |
| `QueueSimulator` | `src/queue/simulator.ts`: the map, the deque with its stale entries, the fill |
| `WorkerProofs` | proofs about `AdmissionTokens`, `QueueSimulator` and the composition of the Worker |
| `MCServices` | instances of `WebhookOutbox`, `OriginHealth`, `TrafficBuckets` and of what `ControlRoom` shows |
| `MCOperators` | instances of `AdminAccounts` and `AlertLatches` |
| `MCAdmin` | instances of `CloudflareSetup`, `AdminApp` and the plans and limits of `ControlRoom` |
| `MCWorker` | instances of `AccessRules`, `AdmissionTokens` and `QueueSimulator` |
| `MCWaitingRoomClient`, `MCTrafficBuckets` | instances of `WaitingRoomClient`, and of `TrafficBuckets` for its counterexample |

The four modules `MCServices`, `MCOperators`, `MCAdmin` and `MCWorker` put
components beside each other that share no state. `part` says which of them is
at work in a behaviour, so that TLC explores the union of their state spaces and
not the product: nothing is claimed of their interplay, because there is none.
Where components do share state they are in one module: the room with its
alarm, outbox and probe (`QueueRoom`), the desk with the routes it calls
(`ControlRoom`), the application with the records it leads through (`AdminApp`),
the page with its room (`WaitingRoomClient`).

### How `QueueRoom` corresponds to the code

* `row` is the table `visitors`; a visitor without a row has status `none`.
  A terminal row keeps its `joined_at`, which the purge reads, and its key,
  which the next insert collides with; its other columns are cleared because
  no statement reads them again.
* `nextSeq`, `meta`, `lastSweep`, `remainder`, `level` and `settings` are keys
  of the table `meta`; `depth` and `ahead` are the fields `this.depth` and
  `this.aheadCache`; `alarm` is what `storage.getAlarm()` returns.
* Every RPC is one action. A handler computes on a snapshot record
  `[row, depth, ahead]`, one operator per step of the code (`Sweep`, `CheckIn`,
  `Memoize`, `Admissions`, `InsertVisitor`, `Departed`), and `Commit`s it.
* The alarm handler is `AlarmFire` (reads the clock), `AlarmDelivered`,
  `AlarmSweep`, `AlarmProbed`, `AlarmAdmit`; RPCs are enabled while it is at one
  of its two network awaits (`Interruptible`). It keeps the instant it read.
* `Restart` loses `depth` and `ahead` at any moment; an alarm whose handler was
  cut short is delivered again.
* `Operate` is the operator RPCs. They keep the stored settings inside
  the set `Settings`, and change one field at a time.

Abstractions. Time is whole seconds: the code aligns slots to seconds, and the
250 ms tolerance of `ensureAlarm` disappears below that grain. A rate is a
fraction with denominator `RateDen` where the code has a double; the slowed rate
is exact, because `RateAssumption` asks for a denominator of which every rate with
a probe can be divided (`gates` counts in halves). The row's
`last_heartbeat_at` is left out: it decides only for rows without a
`next_check_at`, which no statement of this version writes. The origin probe's
interval is replaced by a choice (the probe is due or not), and its counters by
the three levels they can lead to. The outbox is one pending row here. Views,
names and the remembered config blob are left out.

`AdmissionLine` is what a visitor is told: an arrival draws the next number, a
number is never used twice, in Queue Mode whoever is called has a smaller number
than whoever stays in line, in Lottery Mode anybody may be called, a seat is left
by its holder or by time, and a newcomer may be seated at once. Its state is two
sets of arrivals, pairs of a visitor and a number. `QueueRoomLine` maps the
waiting rows with their sequences to the line, the admitted rows with theirs to
the seats, `nextSeq` to the next number and the mode to `ordered`.

### How `AdmissionTokens` corresponds to the code

A request is a process with the steps the route has between its awaits: the
room's RPC (`HandleJoin`, `HandleStatus`, `HandleEnter`, `HandleLeave`), the
room's epoch (`ReadEpoch`), the signature (`Issue`); for the protected site,
`Present`, `ReadEpoch`, `Verify` and `Done`. Between them the room acts (`Room`,
a summary of what `QueueRoom` may do to a row: seat, expire, purge), the
operator revokes (`Revoke`), and time passes. The room's alarm handler stamps and
sweeps with the instant it read before its awaits, which lies at most `Lag` back
(`Recent`). `at`, `exp` and `iat` are seconds.
`confirmed` is history: every seat that was confirmed, with the epoch of that
moment. Signatures are ideal, a ticket is the identity of its holder, and the
refusals of a region, of Turnstile and of a full line only end a request early.
Tokens without a seat, an administrator's pass or an allowlisted address, have
the subject `Guest`.

### How the smaller modules correspond to the code

`WebhookOutbox` isolates the outbox and the alarm. A row's `wait` is what is
left until `next_attempt_at`, and `alarm` what is left until the object's alarm;
`handler.elapsed` is the time since `alarm()` read the clock, which shortens the
delays it writes (`Remaining`). `Post` and `Respond` are the two sides of the
`fetch`, between which rows are stored and other calls run. What the rest of the
room wants of the alarm is `pace`, any of the intervals `Pace`, so that the
outbox is checked against every queue, idle ones included. `Crash` ends a
handler anywhere: the platform delivers the alarm again, and a row already
posted is posted again with its attempt uncounted. A row that is gone keeps its
`fate` as history. The 250 ms tolerance disappears below the grain of time.

`OriginHealth` keeps the counters of `OriginHealthState` up to the largest
threshold. `ProbeBegin` takes a copy of configuration and state, `ProbeEnd`
writes what `advanceHealthState` makes of that copy, and the operator's
`SetHealthConfig` may come between, in which case the probe is `stale` and its
result undoes the operator's reset. `age` is the time since `lastCheckedAt`,
which is the instant of the alarm and not of the answer.

`TrafficBuckets` has the open bucket, the table and the running total.
`Record` and `Flush` are functions of the stored state, used by `Join`,
`ForceAdmit`, `GetTraffic` with the present instant and by `AlarmAdmit` with the
one `AlarmFire` has read. `joined`, the buckets of the joins in their order, and
`seated`, the admissions of each bucket, are history. Joins are bounded by the
inflow they count, and admissions by the history, in any order.

`QueueSimulator` mirrors the class. `deque` keeps the entry of whoever leaves
until it comes to the head, `head` counts the entries that were taken, and
`Spliced` is the loop that cuts them off. A visitor that leaves and joins again
is in the deque twice: it regains its old place in Queue Mode and has two
chances in Lottery Mode, unlike in the room, so `ServedInOrder` speaks of the
visitors who waited through (`returned` is the history it needs). The carried
fraction of a tick is abstracted to any budget up to `Budget`.

### How the modules of the Worker correspond to the code

`AccessRules` has the two records a visit is decided by and, for each isolate,
the copy it remembers, with the time it will still be used. A read begins
(`Read`), and ends later with what was stored when it began or with a failure
(`Fetched`); a save ends with a put and with the copy of the isolate that made
it (`Put`, `Stored`). `Verdict` is what the code decides after each read,
`Law` what the documents promise. A copy that stands for a failed read is marked
`failed`: the code treats the setting as empty for a whole `CACHE_TTL_MS`, and
the properties except it. Room rules, the origin's record and its merge, and the
statistics of refusals are left out.

Most reads of the store in this program do not throw: they catch the error and
return what an empty record would give. The models have that outcome wherever the
handler goes on with it: the address lists and countries (`AccessRules`), the
webhook settings (`AlertLatches`), the accounts, invites and their index
(`AdminAccounts`), the pending setup (`CloudflareSetup`), the activity log
(`ControlRoom`). `AdminApp`, where the worker is one step per request, takes its
reads to succeed.

`AdminAccounts`, `AlertLatches` and `CloudflareSetup` model handlers as
processes with one step per use of KV or of a remote service; `Abort`, `Cut`
and `Fail` end one anywhere. KV is idealised: a read returns the last value put.
What the service really guarantees is weaker, and what these modules show to go
wrong goes wrong there as well.

* In `AdminAccounts` a request has read `copy` and will put `Changed(q, copy)`.
  `cookies` are the sessions, which no removal ends. A read of the index that
  fails is an empty index (`ReadIndex`), a read of an invite that fails makes the
  listing forget it (`WriteIndex`), and a read of the accounts that fails is an
  unclaimed worker (`Misjudged`, `Read`). `torn` is history: an index was put over
  one that its request had not read in full, by an overlap or after a failed
  read, or a creation was cut short; an open invite may then be missing from the
  list. The audit log, the hashes and the limit on attempts are left out.
* In `AlertLatches` an observer has seen a condition (`sees`) before it reads
  the record; `Followed` is the put. The latches of depth, of the schedule and of
  the full line are one for all queues (`Latch`, `Full`), those of health one for
  each. Every read gives the record or, when it fails, `Defaults`. `seen` and
  `filled` are what the latches would be had no put been lost, and `undone` those
  that a put took back because its copy was older than the record, or was the
  defaults; a latch leaves `undone` when it is put again. `again` has the kinds
  of alerts that a call set out to send although they were told and not undone.
  A call decides on what it has read: two that have read before either puts both
  send, and neither is held back by what the other one does.
* In `CloudflareSetup` the calls of each handler are the sequence `Path(op)`,
  and `first`, `copy` and `widget` what it has read before, during and from
  them. What the provider says of a zone is any answer; `proxied`, `made`,
  `rotated`, `solved` are history. A read of the pending record that fails is the
  empty record (`Reads`), inside the write functions as well. `misjudged` has the
  widgets that were marked as verified by the challenge of another one
  (`Mistaken`), `crossed` that a second widget is to be expected: a put went over
  a record its request had not read, two were made at a time, or a widget was
  lost with a failed request, a reset or a Finish. `old` says that a secret is
  sealed with the former key, so that opening it puts the record back.

`AdminApp` is one page of the application: `view`, `step`, `phase` and what the
wizard remembers, with at most one request under way whose answer may be lost
after it took effect. `Press` has the buttons, `Navigate` those that send
nothing and are not disabled while a request is under way. `Elsewhere` is
another page at the same setup. The worker is one step per request here, because
`CloudflareSetup` has what comes between. `initialStep` and `initialCfPhase`
decide where a reload resumes.

`ControlRoom` is dashboards (`desks`), the requests they sent, and the rooms. A
request goes through `Steps(op)`, and its answer changes the desk as `Displayed`
says: a metrics answer shows its numbers, a state makes its queue the one on
show. `of` is history, the queue the numbers belong to. A schedule with one
instant only is allowed, as the route allows it, and `partial` has the rooms whose
last schedule was such a one; `raced` records that two changes of one room's
limits ran at once.

`WaitingRoomClient` is the script of the page. A chain is one async function
with the request it awaits; `page` are the variables of the script; `widget` is
the one `turnstileResolve`, which a second challenge takes from the first
(`overtaken`). `stranded` is history: the page has no visitor and its last join
failed or was refused. The room is what the routes may answer, seats a newcomer at
once or puts it in line (`Places`), and drops the seat at any time (`Lapse`). A page
may be loaded with a visitor that has a place, a seat or a confirmation already. The four `Setups` are a room that wants a click, one that does
not and may block the visitor's country, one that asks for a challenge, and one
with fixed intervals.

## Runs

The small instances have two or three visitors, one seat and three or four
seconds. One seat is the smallest capacity at which seats run out; three
visitors give a seated one, a head of the line and somebody behind it; the time
bound is longer than the hold, the check-in grace, and the token lifetime, so
that all expire within it, and the alarm fires several times. In the three-visitor
runs, visitors are interchangeable (same `Hash`), and symmetry is used there.
Safety runs assume no fairness. The clock bound lets the instances end, but
polls always remain possible, so deadlock is checked.

| run | shows |
|---|---|
| `line` | three visitors, a lowered cap, half and whole admissions per tick, both modes: the line's order, cap and memo (`ArrivalOrder`, `LineCapped`, `AheadCoherent`, `TypeOK`), and `QueueRoom` implements `AdmissionLine` (`ImplementsLine`), which includes that the oldest is served first |
| `seats` | click-to-enter with changing hold and grace: `DepthCoherent`, `CapacityHeld`, `EnterInTime`, `SeatKept` |
| `gates` | pause, schedule, probe, override: `AlarmPrompt`, `GateRespected` |
| `services` | the outbox (`OutboxArmed`, `AttemptsExact`, `Settles`), the origin's health (`LevelEarned`, `Gradual`, `FollowsOrigin`), the buckets (`NeverOvercounts`, `LostOnlyToStaleAlarm`), and a desk that changes its queue while answers come (`CatchesUp`) |
| `operators` | accounts and invites (`AccountsSound`, `InvitesSound`), alerts (`AlertsToldOnce`), types |
| `admin` | the setup's records (`LinkProxied`, `WidgetUsable`), the application (`PageEarned`), schedules (`ScheduleOrdered`), limits and log (`DoneAndReviewed`), types |
| `worker` | access rules (`StalenessBounded`, `SettledVerdict`), tokens (`TokenFollowsSeat`, `GateCurrent`), the simulator (`CountsExact`, `ServedInOrder`), types |
| `browser` | the polling page: `RedirectsEntered`, `TimersFollow`, `ConfirmedArrives` |
| `closing`, `barging`, `rejoin`, `traffic_lost` | the disagreements below, each a counterexample of TLC |

Bounds. `services`: three webhooks are one more than a run takes (`Batch` 2), and
three attempts have a first, a middle and a last one; one crash can fall on any
step. Two thresholds are the least for which a configuration changes while
failures count; one probe is lost. Three buckets (two instants each) are the
least for which one is closed, one open and one older than both; three joins and
two admissions fill them unevenly. Two queues and two requests at a time are the
least for which answers about two queues cross.

`operators`: two requests at a time, three in all, so that a third may use what
two left behind; three ids, so that an account may come to each of them; two
names, so that they can clash; one invite, which two requests want. Two
observers, three calls and two queues, which share the latches and may disagree
about them; the window is one unit, so that it ends. About 758,000 states.

`admin`: two wizards at a time, three requests in all, two zones and two widgets,
from an empty setup or from one that is nearly finished, which makes the last
requests the interesting ones. One new version of the terms, one loss. Two saves
are the least that overlap; they come from one desk or from two, with two values
of each limit and one instant, which a schedule can have at both its ends. About
859,000 states.

`worker`: two isolates, two calls at a time and in all, a copy that lives two
units and a call of up to one, so that a slow read straddles a save and the copy
it leaves outlives it; whoever visits meets two of the rules, or none. For the
tokens a lifetime is two seconds, so that a token and a seat expire within the
three instants, and a request may straddle a tick (`Latency`); the room's alarm does not (`Lag` is
0, the theorems hold for every `Lag`). The simulator has
four visitors, two seats and a slack of one, with seven joins: the deque is cut
with stale entries on both sides of the cut.

`browser`: two chains at a time, which is what it takes for an answer to come
between the steps of another function, and one loss; about 887,000 states.

`operators`, `admin`, `worker` and `browser` do not check deadlock: their bounded
requests are used up, or the page has been left.

Fairness. `Settles` assumes that time passes, that a due alarm fires and that a
handler which has begun goes on (weak fairness of `OutboxTick`, `OutboxAlarm` and
`HandlerStep`): the platform delivers alarms at least once, and a post is aborted
after `SendTimeout`. Callers owe nothing. Crashes are bounded in the instance;
with crashes for ever a row need never settle, in the code as in the model.
`FollowsOrigin` assumes that an enabled probe begins and ends (weak fairness of
`ProbeBegin`, `ProbeEnd`, `HealthTick`): `ensureAlarm` keeps the alarm armed
while health is enabled, and the probe has a timeout. Nothing is assumed of the
operator, who may change thresholds for ever, nor of the origin beyond the
premise that it stays as it is. `CatchesUp` assumes that the desk's interval
keeps firing (strong fairness of `Poll`, because the slots for requests may be
taken and freed again and again) and that requests are answered or fail (weak
fairness of `Proceed`). `ConfirmedArrives` assumes that timers fire, requests are
answered, challenges are solved or fail, and a page that was told to go goes;
nobody needs to click, show the tab or be called by the room.

## Where the code and its documents differ

* `closing`: `alarm()` uses the instant it read before its network awaits, so a
  slow webhook lets it seat a waiter after `closesAt`
  (`queue-room.ts:676`; `CHANGELOG.md:66`). The awaits are bounded by their
  timeouts, five seconds per delivery and up to ten deliveries. `SeatsAsDecided`
  proves that nothing else seats anybody late: not a join, a leave or a forced
  admission.
* `barging`: `join()` seats a newcomer whenever a slot is free, while earlier
  arrivals wait for the next tick (`queue-room.ts:144`; `README.md:33`).
  `LineServedInOrder` proves that this is the only way past the line.
* `rejoin`: a visitor whose hold expired cannot rejoin under its ticket, because
  the terminal row still owns the primary key (`queue-room.ts:135`;
  `docs/verifying-admission.md:135`). `LockoutEnds` proves that it is turned away
  no longer than the row is retained, counted from its arrival.
* `traffic_lost`: an alarm held up by its deliveries past a bucket's end records
  its admissions for the older bucket, which takes the place of the open one and
  resets its counters (`traffic-buckets.ts:49`; `docs/analytics.md:7`).
  `LostOnlyToStaleAlarm` says that this is the only way to lose a count.

Remarks without a run of their own.

* `docs/webhooks.md:3` speaks of up to eight retries; the Worker's post counts as
  the first of `WEBHOOK_MAX_ATTEMPTS`, so there are at most seven
  (`AttemptsExact`).
* `docs/verifying-admission.md:42` fixes the lifetime of an admission when its
  token is issued. `/status` and `/enter` give a new token the expiry of the
  seat, and `/join` of a visitor already seated a full lifetime from now
  (`routes/queue.ts:182`); `TokenFollowsSeat` allows for that.
* `CHANGELOG.md:67` lets an operator invalidate every active admission at once.
  Revoking raises the epoch and leaves the seats, so the next status call of a
  visitor confirmed before signs a token that is valid again
  (`routes/queue.ts:220`); `GateCurrent` promises only that the old token is
  refused.
* `docs/admin.md:51` calls the invite a one-time URL. `consumeInvite` reads and
  deletes in two calls (`invite-store.ts:83`), so two requests at the same time
  both get an account from it; `InvitesSound` promises the refusal only to
  requests that begin after the invite was spent.
* An update that has read the accounts before a reset puts them back after it,
  and of two claims at the same time the later put wins (`store.ts`).
* `docs/webhooks.md:30` says that the depth alert is sent "once until it drops
  below". The latch is one for all queues (`webhook-dispatch.ts:184`), so that a
  queue above its threshold and one below it undo each other's latch and are told
  in turn, for as long as both are polled; and two polls that read the record
  before either writes it both send. `AlertsToldOnce` says what is left of the
  promise: nothing is told that the shared record was told.
* The webhook form's save keeps the latches of depth, full line and schedule and
  not those of health (`settings.ts:342`), so a pause that lasts is told again.
  The three observers that one metrics poll starts write over each other
  (`routes/admin/state.ts:188`), which forgets what the others have latched.
* A failing read of the webhook settings gives the defaults
  (`webhook-store.ts:150`), and a delivery that is recorded in them turns webhooks
  off and forgets the URL, the secret and the latches.
* A failing read of the invite index gives an empty one (`invite-store.ts:166`),
  and the next invite is then listed alone: the others stay good for their 72
  hours and can no longer be seen or revoked. A listing that cannot read an
  invite drops it from the index in the same way (`invite-store.ts:156`).
* A failing read of the pending setup gives an empty one
  (`setup-pending-store.ts:48`), and the write that follows stores it without its
  widget; the wizard then makes a second one. With two widgets a challenge may
  mark the wrong one as verified (`setup-pending-store.ts:146`).
* `docs/verifying-admission.md:135` says that whoever loses a hold rejoins. If
  that join fails, the page forgets the visitor and its polls do nothing
  (`waiting-room-client.ts:542`): it stays as it is until it is loaded again.
  `TimersFollow` excepts it (`stranded`).
* A failing read of the address list is remembered as an empty list
  (`bypass-store.ts:66`), and a save that starts from it stores the rest of the
  record empty. A failing read of the activity log makes the next entry the only
  one (`audit-store.ts:22`).
* Finish puts its records one after another (`auth.ts:231`): a failure in between
  leaves a worker that counts as set up, without a challenge at its login.
* The schedule's route compares the two instants only when both are given
  (`routes/admin/traffic.ts:285`); the room keeps the other one, so that two such
  updates make it close before it opens. `ScheduleOrdered` excepts a room only
  until its next schedule with both instants.
* The limits are compared with what the operator reviewed and set in two calls of
  the room (`routes/admin/traffic.ts:475`, `:489`). A change of another desk
  between the two is overwritten although nobody has reviewed it;
  `DoneAndReviewed` excepts two changes of one room at a time (`raced`).

## Proofs

The theorems hold for all constants that the assumptions allow: any number of
visitors, requests, isolates, queues, wizards, any capacity, any interval. The
assumptions say that constants are numbers where the code has numbers, that a
placeholder such as `None` or `Nowhere` is not one of the things it stands in for,
and that the sets that are counted (visitors, webhooks) are finite. Each proof has the same
three facts, `Init => Inv`, `Inv /\ [Next]_vars => Inv'` with one lemma per
action, and `Inv => property`; below is what `Inv` has to say beside the property.

### The room

`QueueRoomProofs` proves the type invariant (`TypeCorrect`), that the counters
equal the rows (`DepthNeverDrifts`), that the capacity holds
(`CapacityNeverExceeded`), and that the memo is right (`MemoNeverStale`), under
`EngineAssumption`, `RoomAssumption` and `SettingsAssumption`.

None of these is inductive alone. `CapacityHeld` needs the counters to be right,
because admission decides on the counter and not on the rows. The counters need
the type of the rows and the finiteness of `Visitor`. The memo needs that a
newcomer's sequence is above every memoized one, hence that `nextSeq` bounds
every sequence in a live row and every key of the memo. The invariant is
`IInv == TableInv /\ ControlInv`: the tables with their caches, and the scalars.
The proof follows the shape of the code: `Sound(s, n)` says of a snapshot what
`TableInv` says of the state, one lemma per operator shows that it keeps
`Sound` (`SweepSound`, `CheckInSound`, `InsertSound`, `AdmissionsSound`,
`DepartedSound`, ...), `CommitSound` turns a sound snapshot into `TableInv'`,
and one lemma per action composes them.

Of the engine's arithmetic it proves, for all arguments, what the three formulas
are for: `BudgetExact` (whole visitors and carried fraction add up to the budget),
`SlotExact` (the slot is the first allowed instant of the visitor's residue class)
and `PeriodExact` (the period is the least one at which the line fits the status
budget). They rest on division with remainder (`Euclid`), on a residue being the
only one of its class in a window of one period (`ProductBound`, `Residue`), and
on rounding up (`RoundUp`).

`QueueRoomLineProofs` is about what a step does. `RowStep` describes any step of
any handler in two parts: some visitors go away (`Thinned`: by leaving, or because
the rule of the sweep has them overdue by now), and then, of what
remains, one thing happens (`Effect`): nothing, a seat is confirmed, a newcomer
is seated or queued, or some of the line are called, who in Queue Mode stand
before the rest of it. Every action is shown to have this form once
(`NextRowStep`), and the properties follow from the form:

* `GatesHold` (`GateRespected`), `ConfirmedInTime` (`EnterInTime`), `SeatsSafe`
  (`SeatKept`), `LineNeverOverCap` (`LineCapped`);
* `SeatsAsDecided`: behind every seat is a decision of `canAdmit`, for a newcomer
  at this instant, for the line at this instant or the one the alarm handler read
  (`GateOpen`). `GatesHold` follows, because between the two nothing can pass but
  `closesAt` and the end of an override;
* `PlacesSafe`: a place, in line or in a seat, is lost by leaving or when it is
  overdue at the clock. The alarm sweeps with an older instant, and whoever is
  overdue stays so (`OverdueLater`);
* `SeatsStampedOnce`: the instant of a seat and its confirmation last as long as
  the seat, which is what `AdmissionTokens` supposes of the room;
* `LineServedInOrder`: in Queue Mode whoever is called stood before all who stay,
  and nobody is called in the step of a newcomer, of which there is one at most;
* `LockoutEnds` and `AlarmsKeepPace`, directly from `IInv`: what a join that fails
  has met, and what an alarm may admit with its budget (`BudgetExact`);
* `ArrivalsOrdered` (`ArrivalOrder`), with `RoomInv == IInv /\ OrderInv`:
  whoever came earlier has the smaller number only if nobody joined in the
  future, and the instant that the handler has kept is never ahead of the clock;
* `RoomImplementsLine` (`ImplementsLine`), the refinement: the initial state is
  an empty line, and a `RowStep` is a `Call`, `Waste`, `QueueUp` or `SitDown` of
  `AdmissionLine` under the mapping, or a change of mode. The arrivals that go
  are those of the visitors in `Thinned`. `CapacityHeld'` gives the bound on
  seats, and `nextSeq` above all numbers in use keeps arrivals apart.

`NeverSleepsOnWork` (`AlarmPrompt`) is inductive on top of `IInv`, but by a
different argument for each kind of action: a handler that ends with
`ensureAlarm` leaves the alarm prompt whatever it was (`EnsuredPrompt`), one that
does not must leave work and gates as they were, and an alarm that is due cannot
be passed by the clock.

### The Worker

`WorkerProofs` proves `TokenFollowsSeat` (`TokensFollowSeats`) and
`GateCurrent` (`GateAlwaysCurrent`) under `TokenAssumption`. The invariant adds
to them that every confirmed seat is in the history, that a request past its
room call carries a confirmed seat of its visitor, not older than a lifetime at
the moment the request began, and that a request takes at most `Latency`; and
for the gate, that the epoch a request has read is not older than the one at its
beginning. The bound on a request's duration is an assumption of the model
(`Tick`), and it appears in the property.

For the simulator it proves `CountsExact` (`CountsAlwaysExact`) and `ServedInOrder`
(`AlwaysServedInOrder`) under `SimulatorAssumption`. The code has no search: it trusts
that whoever waits has an entry at or behind the head, and that the entries of
visitors that never left lie in the order of their sequence. Both are conjuncts of
`SimulatorInv`, with stale entries and double ones allowed anywhere. `Filled` says
what a fill does in terms of visitors: some of the line are taken, as many as there
are seats or all, everybody else keeps an entry that was not read, and in Queue Mode
one behind those of the taken. It counts visitors by their first entries
(`EntriesCounted`), and it needs that the deque is cut behind an entry that was
taken (`SplicedTaken`). `Spliced` is recursive over the entries: that it is defined
and where its values lie follows from the least entry at which either would fail
(`LeastOf`), because the induction theorems cannot be instantiated.

`AccessRulesProofs` proves `StalenessBounded` (`StalenessAlwaysBounded`),
`SettledVerdict` (`VerdictAlwaysSettled`) and the types (`RulesTyped`) under
`RulesAssumption`. What makes the first inductive is that a copy which is out of
date was right when its read began: the time since the record changed and the
time the copy will still be used add up to no more than `Ttl + Slow`
(`CopiesInv`), because a call of the store has taken no more than `Slow` when it
leaves the copy behind (`FlightsInv`). A country block that runs out by itself
makes copies and record equal again, unit by unit. The second uses the first:
a visit that is `steady` has settled records, whose copies are therefore right,
and what it has passed by its step still stands (`Standing`).

`RoomServicesProofs` proves of the outbox, under `OutboxAssumption`, its types
(`OutboxTypes`), `OutboxArmed` (`OutboxAlwaysArmed`) and `AttemptsExact`
(`AttemptsAlwaysExact`). The last is not inductive: the invariant says of a
pending row how its posts relate to its attempts, one way while a post of it is
on its way (`OnItsWay`) and another way otherwise, because a crash turns the one
into the other at the price of one.

Of the origin's health, under `HealthAssumption`, it proves `LevelEarned`
(`LevelAlwaysEarned`) and the action property `Gradual` (`AlwaysGradual`). The
level rests on the failures counted now on top of those that led to it
(`Earned`), and this must hold of the copy a probe carries as well; `Gradual`
needs that a probe which was not overtaken carries the stored state (`Fresh`).

Of the buckets, under `TrafficAssumption`, it proves `NeverOvercounts`
(`NeverAnOvercount`): a flush shows nothing new of any bucket (`FlushWithin`),
and a recorded event adds itself to the bucket of its instant and to no other
(`RecordWithin`), whichever bucket was open; and `LostOnlyToStaleAlarm`
(`OnlyStaleAlarmsLose`): as long as no older bucket was opened, every retained
bucket shows exactly what happened in it (`Keeps`), because closing one moves its
numbers and a recording at an instant not before the open bucket discards none.

### The operators

`OperatorsProofs` proves `AlertsToldOnce` (`AlertsAlwaysToldOnce`) under
`LatchesAssumption`: but for what is `undone`, the stored latches are as the
observers have put them and the record's time of the last full line is no later
than that of any queue (`Remembers`). Whatever a call puts back, it changes in its
copy only what it is about, and what its copy takes back is `undone` from then on
(`PutStep`); a call whose read has failed has webhooks off and sends nothing
(`NotAgain`).

It proves `AccountsSound` (`AccountsAlwaysSound`) and `InvitesSound`
(`InvitesAlwaysSound`) under `AccountsAssumption`. Two overlapping updates lose
one of them, so nothing relates a request's copy to the record; the invariant says
instead that every copy is as sound as the record itself (`Sound`), with ids that
were given out, and that a request which has come to its put may do so on its own
copy (`Checked`). For invites it says what a request knows of the spent ones
(`Careful`), and that an open invite is listed or about to be (`ListedInv`) as long
as no index was put over one that was not read in full.

`AdminProofs` proves of the control room, under `ControlAssumption`,
`ScheduleOrdered` (`SchedulesStayOrdered`) and `DoneAndReviewed`
(`ChangesAsReviewed`). A room that is not `partial` is ordered because an accepted
schedule with both instants is, whatever the room had before, and one with none
leaves the room as it is. `ControlInv` says how far a request has come and what it
has changed by then (`Truthful`); without a race at most one request of a room is
between its review and its last change, and the limit that it has still to
replace is the one that was reviewed (`AloneInv`).

Of the setup, under `SetupAssumption`, it proves `LinkProxied`
(`LinksAreProxied`) and `WidgetUsable` (`GateStaysUsable`). `StoredInv` carries
what the record says of zones and widgets over to every copy a request has read
(`Good`, `Knows`), failed reads included, which give an empty one. A widget that
counts as verified was solved or misjudged (`Credited`), and there is nothing to
misjudge while one widget was made (`Alone`). `SingleInv` says that while nothing was crossed a widget that
was made is on record, on its way there, or behind a finished login, so that who
is about to make one knows that there is none. This proof corrected the model:
`crossed` had left out that a provision past its gate may outlive a Finish that
clears the record, and that a reset cut short between its two deletions leaves a
widget on record that the next claim does not expect. Neither showed in the
bounded runs; both let the wizard make a second widget, and `WidgetUsable` names
them now.

Of the application it proves `PageEarned` (`PagesAreEarned`). `Earned` says of the
page what its step and its phase have the worker do (`Stands`), and of the request
under way what its answer will be taken for (`Finishes`, `Rests`), so that an
answer that comes late finds nothing undone; records that stay as they are until
they are replaced by ones with more in them make this stable.

`WaitingRoomClientProofs` proves `RedirectsEntered` (`OnlyConfirmedPagesGo`) and
`TimersFollow` (`TimersAlwaysFollow`) under `ClientAssumption`. Answers vouch for
the room (`Vouches`: whoever would be sent to the site by an answer has been
confirmed or let pass), and no request can be answered as another kind would be
(`Fit`), which matters because late answers meet a page that has moved on. A page
that asks for its place has a timer or a chain that will set one whatever happens
to the others (`Rearming`); with fixed intervals a tick is not such a chain, the
interval goes on by itself. That a page without a visitor is about to join or was
stranded is an invariant of its own (`JoinsInv`): the visitor is given up only by a
function that joins next, and only the answer to a join ends that.

### The compositions

`OperatorsTyped`, `AdminTyped` and `WorkerTyped` prove the type invariants of
`MCOperators`, `MCAdmin` and `MCWorker` (`OperatorsTypeOK`, `AdminTypeOK`,
`WorkerTypeOK`) for every value of the constants. A step of a composition is a step
of one part beside a stutter of the others, so that the conjunction of the parts'
invariants is inductive when each of them is (`AdminInv`). Two parts needed more
than their other proofs had. `ControlTyped`: that the log names submitted changes
only needs that whoever is about to log has a number, which the steps of its
operation give it in time (`Numbered`, `StepsOfRequest`). `AppTyped`: that releases
and losses stay within their bounds (`Bounded`).

### What is only model-checked

Liveness (`Settles`, `FollowsOrigin`, `CatchesUp`, `ConfirmedArrives`) is out of the
prover's reach: it needs fairness and ENABLED. Every invariant and action property
of the passing runs is proved.

The theorems that no run states as a property (`SeatsAsDecided`, `PlacesSafe`,
`SeatsStampedOnce`, `LineServedInOrder`, `LockoutEnds`, `AlarmsKeepPace`,
`BudgetExact`, `SlotExact`, `PeriodExact`) are in the proof modules beside their proofs.

For the sake of the provers a few definitions have a form they would not need
otherwise: an order of cases is written IF ... ELSE IF where the code has an
order of tests and the conditions overlap (`Law`, `AfterBootstrap`, `AfterState`),
an EXCEPT changes one field at a time where `@` would be nested, and what a zone
leaves of the wizard's progress is a set given by a condition (`Leaves`).


## Not modelled

* Configuration, branding, the cost estimate and the demo page parse and render;
  they keep no state and nothing interleaves with them.
* Markup, wording, styles, sounds and notifications of the pages.
* The matching of addresses and of URL patterns, room rules, and the statistics
  of refusals.
* What an activity entry says, the exports, per-visitor lookups, the update check.
* The provider: Cloudflare's API and Turnstile are what their callers may see.
* Signatures, hashes and seals, which are ideal; the limits on attempts.
* The upgrade of an older schema: `Init` is what a migrated object starts in.

## Plan

1. `QueueEngine`, `QueueRoom`, `AdmissionLine`, `QueueRoomLine` and the proofs
   above: done.
2. `AdmissionTokens`, `WebhookOutbox`, `OriginHealth`, `TrafficBuckets` and their
   proofs: done.
3. `AccessRules` with its proofs, `AdminAccounts`, `AlertLatches`,
   `CloudflareSetup`, `AdminApp`, `ControlRoom`, `WaitingRoomClient`,
   `QueueSimulator`: done.
4. Proofs of all the safety invariants and action properties of the room, its
   services, the Worker, the operators, the setup, the page and the simulator: done.
5. The slot, period and budget arithmetic against what it is for, the extent of
   what the counterexamples of `closing` and `rejoin` show, the stamp of a seat, and
   the types of the compositions: proved.
6. `RoomLiveness`: every waiter is seated or goes away, under the fairness of
   the alarm; and the pacing of a tick that a webhook brought forward, over time.
