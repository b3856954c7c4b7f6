----------------------------- MODULE AdminProofs -----------------------------
(***************************************************************************)
(* Proofs about the operators at their pages: the plans and limits of the  *)
(* rooms and the activity log (ControlRoom), the records behind the setup  *)
(* wizard (CloudflareSetup), and the application that leads through it     *)
(* (AdminApp).                                                             *)
(***************************************************************************)
EXTENDS MCAdmin, TLAPS

-----------------------------------------------------------------------------
(***************************************************************************)
(* The control room.                                                       *)
(***************************************************************************)
\* A request of the dashboard, by what it has to do: its steps are numbered.
LastStep(op) == IF op \in Asks THEN 2 ELSE IF op = "setLimits" THEN 6 ELSE 5

Errand ==
  [op: Asks \cup Changes, sent: SUBSET Instants, desk: Desks, queue: Queues, at: Nat,
   n: 0 .. MaxSaves, want: Room, reviewed: Limits, log: SUBSET (0 .. MaxSaves), got: Limits]

ControlShape ==
  /\ rooms \in [Queues -> Room] /\ desks \in [Desks -> Desk]
  /\ requests \in [Slots -> Errand \cup {NoRequest}]
  /\ saves \in 0 .. MaxSaves
  /\ audit \subseteq 0 .. MaxSaves /\ done \subseteq 0 .. MaxSaves
  /\ partial \subseteq Queues /\ raced \in BOOLEAN /\ surprised \in BOOLEAN

\* What a request still has to change, or has changed.  A change of limits has one of
\* the two left to change until it has changed one.
Truthful(k, of) ==
  /\ k.log \subseteq of
  /\ k.op \in {"change", "control"} /\ k.at \in {2, 3} => k.n \in of
  /\ k.op = "setLimits" =>
       /\ k.at = 2 => \/ k.want.limits.max # k.reviewed.max
                      \/ k.want.limits.grace # k.reviewed.grace
       /\ k.at = 3 => k.n \in of \/ k.want.limits.grace # k.reviewed.grace
       /\ k.at \in {4, 5} => k.n \in of

\* A schedule that gives both instants gives them in order.
Orderly(k) == k.sent = Instants => Ordered(k.want.plan)

Sincere(k, of) == k.at \in 1 .. LastStep(k.op) /\ Truthful(k, of) /\ Orderly(k)

\* A change of limits that has been reviewed and is at work.
Working(k) == k.op = "setLimits" /\ k.at \in {2, 3}

\* A limit that is still to be replaced is the one that was reviewed.
UpToDate(k, room) ==
  /\ k.op = "setLimits" /\ k.at = 2 => room.limits.max = k.reviewed.max
  /\ Working(k) => room.limits.grace = k.reviewed.grace

\* Without a race each room's limits are being changed by one request at most.
AloneInv ==
  /\ \A c \in Slots : requests[c] # NoRequest => UpToDate(requests[c], rooms[Of(c)])
  /\ \A b, c \in Slots :
       Working(requests[b]) /\ Working(requests[c]) /\ Of(b) = Of(c) => b = c

PlansInv ==
  \A q \in Queues \ partial : Ordered(rooms[q].plan)

ControlInv ==
  /\ ControlShape
  /\ \A c \in Slots : requests[c] # NoRequest => Sincere(requests[c], done)
  /\ audit \subseteq done
  /\ PlansInv
  /\ raced \/ (AloneInv /\ ~surprised)

-----------------------------------------------------------------------------
LEMMA FreshRoom ==
  /\ Fresh \in Room /\ Fresh.limits \in Limits
  /\ Ordered(Fresh.plan)
<1>1. Usual \in Bounds
  BY ControlAssumption DEF Usual
<1>2. [max |-> Usual, grace |-> Usual] \in Limits
  BY <1>1 DEF Limits
<1>3. Unplanned \in Plan
  BY DEF Unplanned, Plan
<1>4. Fresh.limits = [max |-> Usual, grace |-> Usual] /\ Fresh.plan = Unplanned
  BY DEF Fresh
<1>5. Fresh \in Room
  BY <1>2, <1>3 DEF Fresh, Room
<1> QED
  BY <1>2, <1>4, <1>5 DEF Ordered, Unplanned, Instants

LEMMA NotARequest ==
  /\ NoRequest.op = "none" /\ NoRequest \notin Errand
  /\ ~Working(NoRequest)
  /\ \A k \in Errand : k # NoRequest
<1>1. NoRequest.op = "none"
  BY DEF NoRequest
<1>2. \A k \in Errand : k.op # "none"
  BY DEF Errand, Asks, Changes
<1> QED
  BY <1>1, <1>2 DEF Working

\* Which step of which request it is.
LEMMA StepOfRequest ==
  ASSUME NEW op \in Asks \cup Changes, NEW at \in 1 .. LastStep(op)
  PROVE  /\ Steps(op)[at] = "ask" =>
              (op \in Asks /\ at = 1) \/ (op \in {"change", "control"} /\ at = 4)
         /\ Steps(op)[at] = "answer" => at = LastStep(op)
         /\ Steps(op)[at] = "review" => op = "setLimits" /\ at = 1
         /\ Steps(op)[at] = "setMax" => op = "setLimits" /\ at = 2
         /\ Steps(op)[at] = "setGrace" => op = "setLimits" /\ at = 3
         /\ Steps(op)[at] = "set" => op \in {"change", "control"} /\ at = 1
         /\ Steps(op)[at] = "readLog" =>
              (op = "setLimits" /\ at = 4) \/ (op \in {"change", "control"} /\ at = 2)
         /\ Steps(op)[at] = "putLog" =>
              (op = "setLimits" /\ at = 5) \/ (op \in {"change", "control"} /\ at = 3)
         /\ op = "setLimits" /\ at = 2 => Steps(op)[at] = "setMax"
         /\ op = "setLimits" /\ at = 3 => Steps(op)[at] = "setGrace"
<1>1. CASE op \in Asks
  <2>1. Steps(op) = <<"ask", "answer">> /\ at \in {1, 2} /\ op # "setLimits"
    BY <1>1 DEF Steps, LastStep, Asks
  <2> QED
    BY <1>1, <2>1 DEF LastStep
<1>2. CASE op = "setLimits"
  <2>1. /\ Steps(op) = <<"review", "setMax", "setGrace", "readLog", "putLog", "answer">>
        /\ at \in {1, 2, 3, 4, 5, 6} /\ LastStep(op) = 6
    BY <1>2 DEF Steps, LastStep, Asks
  <2> QED
    BY <1>2, <2>1
<1>3. CASE op \in {"change", "control"}
  <2>1. /\ Steps(op) = <<"set", "readLog", "putLog", "ask", "answer">>
        /\ at \in {1, 2, 3, 4, 5} /\ LastStep(op) = 5
    BY <1>3 DEF Steps, LastStep, Asks
  <2> QED
    BY <1>3, <2>1
<1> QED
  BY <1>1, <1>2, <1>3 DEF Changes

LEMMA NextStep ==
  ASSUME NEW r \in Errand
  PROVE  /\ Next1(r) \in Errand /\ Next1(r).at = r.at + 1
         /\ Next1(r).op = r.op /\ Next1(r).n = r.n /\ Next1(r).sent = r.sent
         /\ Next1(r).want = r.want /\ Next1(r).log = r.log /\ Next1(r).queue = r.queue
         /\ Next1(r).reviewed = r.reviewed
<1>1. r.at + 1 \in Nat
  BY DEF Errand
<1> QED
  BY <1>1 DEF Errand, Next1

\* Two limits that differ do so in a field.
LEMMA LimitsDiffer ==
  ASSUME NEW l \in Limits, NEW m \in Limits, l # m
  PROVE  l.max # m.max \/ l.grace # m.grace
BY DEF Limits

\* A step of one request: what has to be shown of it, and of the room it changes.
LEMMA OneRequest ==
  ASSUME ControlInv, NEW c \in Slots, NEW k \in Errand \cup {NoRequest},
         requests' = [requests EXCEPT ![c] = k],
         rooms' \in [Queues -> Room], desks' \in [Desks -> Desk], saves' \in 0 .. MaxSaves,
         done \subseteq done', done' \subseteq 0 .. MaxSaves, audit' \subseteq done',
         partial' \subseteq Queues, raced' \in BOOLEAN, surprised' \in BOOLEAN,
         k # NoRequest => Sincere(k, done'),
         raced => raced',
         \A q \in Queues \ partial' : Ordered(rooms'[q].plan),
         ~raced' => /\ ~surprised'
                    /\ \A b \in Slots \ {c} : requests[b] # NoRequest =>
                         UpToDate(requests[b], rooms'[Of(b)])
                    /\ k # NoRequest => UpToDate(k, rooms'[k.queue])
                    /\ Working(k) => \A b \in Slots \ {c} :
                         ~(Working(requests[b]) /\ Of(b) = k.queue)
  PROVE  ControlInv'
<1> USE DEF ControlInv
<1>1. /\ requests'[c] = k
      /\ \A b \in Slots \ {c} : requests'[b] = requests[b]
  BY DEF ControlShape
<1>2. ControlShape'
  BY DEF ControlShape
<1>3. ASSUME NEW b \in Slots, requests'[b] # NoRequest
      PROVE  Sincere(requests'[b], done')
  <2>1. CASE b = c
    BY <1>1, <1>3, <2>1
  <2>2. CASE b # c
    <3>1. Sincere(requests[b], done)
      BY <1>1, <1>3, <2>2
    <3> QED
      BY <1>1, <2>2, <3>1 DEF Sincere, Truthful
  <2> QED
    BY <2>1, <2>2
<1>4. PlansInv'
  BY DEF PlansInv
<1>5. raced' \/ (AloneInv' /\ ~surprised')
  <2>1. SUFFICES ASSUME ~raced' PROVE AloneInv'
    OBVIOUS
  <2>2. AloneInv
    BY <2>1
  <2>3. ASSUME NEW b \in Slots, requests'[b] # NoRequest
        PROVE  UpToDate(requests'[b], rooms'[requests'[b].queue])
    BY <1>1, <2>1, <2>3 DEF Of
  <2>4. ASSUME NEW a \in Slots, NEW b \in Slots,
               Working(requests'[a]), Working(requests'[b]),
               requests'[a].queue = requests'[b].queue
        PROVE  a = b
    <3>1. CASE a # c /\ b # c
      BY <1>1, <2>2, <2>4, <3>1 DEF AloneInv, Of
    <3>2. CASE a = c /\ b # c
      BY <1>1, <2>1, <2>4, <3>2 DEF Of
    <3>3. CASE a # c /\ b = c
      BY <1>1, <2>1, <2>4, <3>3 DEF Of
    <3> QED
      BY <3>1, <3>2, <3>3
  <2> QED
    BY <2>3, <2>4 DEF AloneInv, Of
<1> QED
  BY <1>2, <1>3, <1>4, <1>5

\* A step that changes no room and tells the log nothing that it did not know of.
LEMMA QuietRequest ==
  ASSUME ControlInv, NEW c \in Slots, NEW k \in Errand \cup {NoRequest},
         requests' = [requests EXCEPT ![c] = k],
         UNCHANGED <<rooms, done, partial, raced, surprised>>,
         desks' \in [Desks -> Desk], saves' \in 0 .. MaxSaves, audit' \subseteq done,
         k # NoRequest => Sincere(k, done),
         k # NoRequest => ~Working(k)
  PROVE  ControlInv'
<1>1. rooms \in [Queues -> Room] /\ done \subseteq 0 .. MaxSaves /\ raced \in BOOLEAN
      /\ surprised \in BOOLEAN /\ partial \subseteq Queues
  BY DEF ControlInv, ControlShape
<1>2. \A q \in Queues \ partial' : Ordered(rooms'[q].plan)
  BY DEF ControlInv, PlansInv
<1>3. ~raced' => /\ ~surprised'
                 /\ \A b \in Slots \ {c} : requests[b] # NoRequest =>
                      UpToDate(requests[b], rooms'[Of(b)])
  BY DEF ControlInv, AloneInv
<1>4. k # NoRequest => UpToDate(k, rooms'[k.queue])
  BY DEF UpToDate, Working
<1>5. Working(k) => k # NoRequest
  BY NotARequest
<1> QED
  BY <1>1, <1>2, <1>3, <1>4, <1>5, OneRequest

-----------------------------------------------------------------------------
LEMMA AskedRequest ==
  ASSUME ControlInv, NEW op \in Asks \cup Changes, NEW d \in Desks, NEW q \in Queues,
         NEW n \in 0 .. MaxSaves, NEW want \in Room, NEW sent \in SUBSET Instants,
         sent = Instants => Ordered(want.plan)
  PROVE  LET k == Request(op, d, q, n, want, sent)
         IN  k \in Errand /\ Sincere(k, done) /\ ~Working(k) /\ k.sent = sent
<1> DEFINE k == Request(op, d, q, n, want, sent)
<1>1. desks[d].known \in Limits /\ Fresh.limits \in Limits
  BY FreshRoom DEF ControlInv, ControlShape, Desk
<1>2. k \in Errand
  BY <1>1 DEF Request, Errand
<1>3. k.op = op /\ k.at = 1 /\ k.sent = sent /\ k.want = want /\ k.log = {}
  BY DEF Request
<1> HIDE DEF k
<1>4. Sincere(k, done)
  BY <1>3 DEF Sincere, Truthful, Orderly, LastStep
<1>5. ~Working(k)
  BY <1>3 DEF Working
<1> QED
  BY <1>2, <1>3, <1>4, <1>5 DEF k

LEMMA RequestUnderWay ==
  ASSUME ControlInv, NEW c \in Slots, requests[c] # NoRequest
  PROVE  /\ requests[c] \in Errand /\ Sincere(requests[c], done)
         /\ requests[c].op \in Asks \cup Changes
         /\ requests[c].at \in 1 .. LastStep(requests[c].op)
         /\ Of(c) \in Queues
BY DEF ControlInv, ControlShape, Errand, Sincere, Of

LEMMA PollKeeps ==
  ASSUME ControlInv, NEW d \in Desks, NEW c \in Slots,
         Poll(d, c) \/ Choose(d, c) \/ AskLimits(d, c)
  PROVE  ControlInv'
<1>1. PICK op \in Asks, q \in Queues :
        requests' = [requests EXCEPT ![c] = Request(op, d, q, 0, Fresh, {})]
  <2>1. desks[d].queue \in Queues
    BY DEF ControlInv, ControlShape, Desk
  <2>2. CASE Poll(d, c)
    BY <2>1, <2>2 DEF Poll, Asks
  <2>3. CASE Choose(d, c)
    BY <2>3 DEF Choose, Asks
  <2>4. CASE AskLimits(d, c)
    BY <2>1, <2>4 DEF AskLimits, Asks
  <2> QED
    BY <2>2, <2>3, <2>4
<1>2. UNCHANGED <<rooms, desks, audit, saves, done, partial, raced, surprised>>
  BY DEF Poll, Choose, AskLimits
<1> DEFINE k == Request(op, d, q, 0, Fresh, {})
<1>3. k \in Errand /\ Sincere(k, done) /\ ~Working(k) /\ k.sent = {}
  BY FreshRoom, AskedRequest, ControlAssumption DEF ControlInv, ControlShape
<1> HIDE DEF k
<1>4. requests' = [requests EXCEPT ![c] = k]
  BY <1>1 DEF k
<1>5. /\ desks \in [Desks -> Desk] /\ saves \in 0 .. MaxSaves /\ audit \subseteq done
  BY DEF ControlInv, ControlShape
<1> QED
  BY <1>2, <1>3, <1>4, <1>5, QuietRequest

LEMMA SaveKeeps ==
  ASSUME ControlInv, NEW d \in Desks, NEW c \in Slots, Save(d, c)
  PROVE  ControlInv'
<1>1. PICK plan \in Plan, sent \in SUBSET Instants, op \in {"change", "control"} :
        /\ Accepts(plan, sent)
        /\ Submits(c, op, d, [Fresh EXCEPT !.plan = plan], sent)
  BY DEF Save
<1> DEFINE want == [Fresh EXCEPT !.plan = plan]
           k == Request(op, d, desks[d].queue, saves + 1, want, sent)
<1>2. want \in Room /\ want.plan = plan
  BY FreshRoom DEF Room
<1>3. saves + 1 \in 0 .. MaxSaves /\ desks[d].queue \in Queues /\ op \in Asks \cup Changes
  BY <1>1, ControlAssumption DEF Submits, ControlInv, ControlShape, Changes, Desk
<1>4. sent = Instants => Ordered(want.plan)
  BY <1>1, <1>2 DEF Accepts
<1> HIDE DEF want
<1>5. k \in Errand /\ Sincere(k, done) /\ ~Working(k) /\ k.sent = sent
  BY <1>2, <1>3, <1>4, AskedRequest
<1>6. requests' = [requests EXCEPT ![c] = k] /\ saves' = saves + 1
  BY <1>1 DEF Submits, want
<1> HIDE DEF k
<1>7. UNCHANGED <<rooms, desks, audit, done, partial, raced, surprised>>
  BY <1>1 DEF Submits, Save
<1>8. desks \in [Desks -> Desk] /\ audit \subseteq done
  BY DEF ControlInv, ControlShape
<1> QED
  BY <1>3, <1>5, <1>6, <1>7, <1>8, QuietRequest

LEMMA SaveLimitsKeeps ==
  ASSUME ControlInv, NEW d \in Desks, NEW c \in Slots, SaveLimits(d, c)
  PROVE  ControlInv'
<1>1. PICK limits \in Limits :
        Submits(c, "setLimits", d, [Fresh EXCEPT !.limits = limits], {})
  BY DEF SaveLimits
<1> DEFINE want == [Fresh EXCEPT !.limits = limits]
           k == Request("setLimits", d, desks[d].queue, saves + 1, want, {})
<1>2. want \in Room /\ Ordered(want.plan)
  BY FreshRoom DEF Room
<1>3. /\ saves + 1 \in 0 .. MaxSaves /\ desks[d].queue \in Queues
      /\ "setLimits" \in Asks \cup Changes
  BY <1>1, ControlAssumption DEF Submits, ControlInv, ControlShape, Changes, Desk
<1> HIDE DEF want
<1>4. k \in Errand /\ Sincere(k, done) /\ ~Working(k) /\ k.sent = {}
  BY <1>2, <1>3, AskedRequest
<1>5. requests' = [requests EXCEPT ![c] = k] /\ saves' = saves + 1
  BY <1>1 DEF Submits, want
<1> HIDE DEF k
<1>6. UNCHANGED <<rooms, desks, audit, done, partial, raced, surprised>>
  BY <1>1 DEF Submits, SaveLimits
<1>7. desks \in [Desks -> Desk] /\ audit \subseteq done
  BY DEF ControlInv, ControlShape
<1> QED
  BY <1>3, <1>4, <1>5, <1>6, <1>7, QuietRequest

-----------------------------------------------------------------------------
LEMMA DropKeeps ==
  ASSUME ControlInv, NEW c \in Slots, FailRequest(c) \/ Answer(c)
  PROVE  ControlInv'
<1>1. requests[c] # NoRequest
  BY DEF FailRequest, Answer, At
<1>2. requests[c] \in Errand
  BY <1>1, RequestUnderWay
<1>3. /\ requests' = [requests EXCEPT ![c] = NoRequest]
      /\ UNCHANGED <<rooms, audit, saves, done, partial, raced, surprised>>
  BY DEF FailRequest, Answer, Drops
<1>4. desks' \in [Desks -> Desk]
  <2>1. CASE FailRequest(c)
    BY <2>1 DEF FailRequest, ControlInv, ControlShape
  <2>2. CASE Answer(c)
    <3> DEFINE r == requests[c]
    <3>1. r.desk \in Desks /\ desks[r.desk] \in Desk /\ r.op \in Asks \cup Changes
      BY <1>2 DEF Errand, ControlInv, ControlShape
    <3>2. r.queue \in Queues /\ r.got \in Limits /\ r.want.limits \in Limits
      BY <1>2 DEF Errand, Room
    <3> HIDE DEF r
    <3>3. Displayed(desks[r.desk], r) \in Desk
      BY <3>1, <3>2 DEF Displayed, Desk, Asks, Changes
    <3>4. desks' = [desks EXCEPT ![r.desk] = Displayed(desks[r.desk], r)]
      BY <2>2 DEF Answer, r
    <3> QED
      BY <3>1, <3>3, <3>4 DEF ControlInv, ControlShape
  <2> QED
    BY <2>1, <2>2
<1>5. saves \in 0 .. MaxSaves /\ audit \subseteq done
  BY DEF ControlInv, ControlShape
<1> DEFINE k == NoRequest
<1>6. k \in Errand \cup {NoRequest}
  OBVIOUS
<1> QED
  BY <1>3, <1>4, <1>5, <1>6, QuietRequest

LEMMA AskKeeps ==
  ASSUME ControlInv, NEW c \in Slots, Ask(c)
  PROVE  ControlInv'
<1> DEFINE r == requests[c]
           got == IF r.op = "limits" THEN rooms[Of(c)].limits ELSE r.got
           k == [Next1(r) EXCEPT !.got = got]
<1>1. r # NoRequest /\ Steps(r.op)[r.at] = "ask"
  BY DEF Ask, At, Step
<1>2. /\ r \in Errand /\ Sincere(r, done) /\ r.op \in Asks \cup Changes
      /\ r.at \in 1 .. LastStep(r.op) /\ Of(c) \in Queues
  BY <1>1, RequestUnderWay
<1>3. (r.op \in Asks /\ r.at = 1) \/ (r.op \in {"change", "control"} /\ r.at = 4)
  BY <1>1, <1>2, StepOfRequest
<1>4. got \in Limits
  BY <1>2 DEF Errand, ControlInv, ControlShape, Room
<1>5. requests' = [requests EXCEPT ![c] = k]
  BY DEF Ask, Next1
<1>6. UNCHANGED <<rooms, desks, audit, saves, done, partial, raced, surprised>>
  BY DEF Ask
<1>8. desks \in [Desks -> Desk] /\ saves \in 0 .. MaxSaves /\ audit \subseteq done
  BY DEF ControlInv, ControlShape
<1> HIDE DEF r, got
<1>9. k \in Errand /\ k.op = r.op /\ k.at = r.at + 1 /\ k.sent = r.sent /\ k.want = r.want
      /\ k.log = r.log
  <2> DEFINE m == Next1(r)
  <2>1. m \in Errand /\ m.op = r.op /\ m.at = r.at + 1 /\ m.sent = r.sent /\ m.want = r.want
        /\ m.log = r.log
    BY <1>2, NextStep
  <2> HIDE DEF m
  <2>2. k = [m EXCEPT !.got = got]
    BY DEF m
  <2> QED
    BY <1>4, <2>1, <2>2 DEF Errand
<1> HIDE DEF k
<1>10. Sincere(k, done) /\ ~Working(k)
  BY <1>2, <1>3, <1>9 DEF Sincere, Truthful, Orderly, Working, LastStep, Asks
<1> QED
  BY <1>5, <1>6, <1>8, <1>9, <1>10, QuietRequest

LEMMA LogKeeps ==
  ASSUME ControlInv, NEW c \in Slots, ReadLog(c) \/ PutLog(c)
  PROVE  ControlInv'
<1> DEFINE r == requests[c]
<1>1. r # NoRequest /\ Steps(r.op)[r.at] \in {"readLog", "putLog"}
  BY DEF ReadLog, PutLog, At, Step
<1>2. /\ r \in Errand /\ Sincere(r, done) /\ r.op \in Asks \cup Changes
      /\ r.at \in 1 .. LastStep(r.op)
  BY <1>1, RequestUnderWay
<1>4. /\ desks \in [Desks -> Desk] /\ saves \in 0 .. MaxSaves /\ audit \subseteq done
      /\ done \subseteq 0 .. MaxSaves
  BY DEF ControlInv, ControlShape
<1>5. CASE ReadLog(c)
  <2>1. PICK log \in {audit, {}} :
          requests' = [requests EXCEPT ![c] = [Next1(r) EXCEPT !.log = log]]
    BY <1>5 DEF ReadLog
  <2> DEFINE k == [Next1(r) EXCEPT !.log = log]
  <2>2. (r.op = "setLimits" /\ r.at = 4) \/ (r.op \in {"change", "control"} /\ r.at = 2)
    BY <1>2, <1>5, StepOfRequest DEF ReadLog, At, Step
  <2>3. UNCHANGED <<rooms, desks, audit, saves, done, partial, raced, surprised>>
    BY <1>5 DEF ReadLog
  <2> HIDE DEF r
  <2>4. k \in Errand /\ k.op = r.op /\ k.at = r.at + 1 /\ k.sent = r.sent /\ k.want = r.want
        /\ k.log = log /\ k.n = r.n
    <3> DEFINE m == Next1(r)
    <3>1. m \in Errand /\ m.op = r.op /\ m.at = r.at + 1 /\ m.sent = r.sent /\ m.want = r.want
          /\ m.n = r.n
      BY <1>2, NextStep
    <3>2. log \in SUBSET (0 .. MaxSaves)
      BY <1>4
    <3> HIDE DEF m
    <3>3. [m EXCEPT !.log = log] \in Errand
      BY <3>1, <3>2 DEF Errand
    <3>4. k = [m EXCEPT !.log = log]
      BY DEF m
    <3> QED
      BY <3>1, <3>3, <3>4 DEF Errand
  <2>5. requests' = [requests EXCEPT ![c] = k]
    BY <2>1 DEF k
  <2> HIDE DEF k
  <2>6. Sincere(k, done) /\ ~Working(k)
    BY <1>2, <1>4, <2>2, <2>4 DEF Sincere, Truthful, Orderly, Working, LastStep, Asks
  <2> QED
    BY <1>4, <2>3, <2>4, <2>5, <2>6, QuietRequest
<1>6. CASE PutLog(c)
  <2> DEFINE k == [Next1(r) EXCEPT !.log = {}, !.n = 0]
  <2>1. /\ requests' = [requests EXCEPT ![c] = k]
        /\ audit' = r.log \cup {r.n}
        /\ UNCHANGED <<rooms, desks, saves, done, partial, raced, surprised>>
    BY <1>6 DEF PutLog, Next1
  <2>2. (r.op = "setLimits" /\ r.at = 5) \/ (r.op \in {"change", "control"} /\ r.at = 3)
    BY <1>2, <1>6, StepOfRequest DEF PutLog, At, Step
  <2> HIDE DEF r
  <2>3. k \in Errand /\ k.op = r.op /\ k.at = r.at + 1 /\ k.sent = r.sent /\ k.want = r.want
        /\ k.log = {}
    <3> DEFINE m == Next1(r)
    <3>1. m \in Errand /\ m.op = r.op /\ m.at = r.at + 1 /\ m.sent = r.sent /\ m.want = r.want
      BY <1>2, NextStep
    <3>2. 0 \in 0 .. MaxSaves
      BY ControlAssumption
    <3> HIDE DEF m
    <3>3. k = [m EXCEPT !.log = {}, !.n = 0]
      BY DEF m
    <3> QED
      BY <3>1, <3>2, <3>3 DEF Errand
  <2> HIDE DEF k
  <2>4. Sincere(k, done) /\ ~Working(k)
    BY <1>2, <2>2, <2>3 DEF Sincere, Truthful, Orderly, Working, LastStep, Asks
  <2>5. audit' \subseteq done
    BY <1>2, <2>1, <2>2 DEF Sincere, Truthful
  <2> QED
    BY <1>4, <2>1, <2>3, <2>4, <2>5, QuietRequest
<1> QED
  BY <1>5, <1>6

\* A room takes both instants of a schedule, in order, or none, or it is noted.
LEMMA SetKeeps ==
  ASSUME ControlInv, NEW c \in Slots, Set(c)
  PROVE  ControlInv'
<1> DEFINE r == requests[c]
           q == Of(c)
           plan == [i \in Instants |-> IF i \in r.sent THEN r.want.plan[i] ELSE rooms[q].plan[i]]
           k == [Next1(r) EXCEPT !.want = Fresh, !.sent = {}]
<1>1. r # NoRequest /\ Steps(r.op)[r.at] = "set"
  BY DEF Set, At, Step
<1>2. /\ r \in Errand /\ Sincere(r, done) /\ r.op \in Asks \cup Changes
      /\ r.at \in 1 .. LastStep(r.op) /\ q \in Queues
  BY <1>1, RequestUnderWay
<1>3. r.op \in {"change", "control"} /\ r.at = 1
  BY <1>1, <1>2, StepOfRequest
<1>4. /\ desks \in [Desks -> Desk] /\ saves \in 0 .. MaxSaves /\ audit \subseteq done
      /\ partial \subseteq Queues /\ {raced, surprised} \subseteq BOOLEAN /\ done \subseteq 0 .. MaxSaves
      /\ rooms \in [Queues -> Room] /\ (~raced => ~surprised)
  BY DEF ControlInv, ControlShape
<1>5. /\ requests' = [requests EXCEPT ![c] = k]
      /\ rooms' = [rooms EXCEPT ![q].plan = plan]
      /\ done' = done \cup {r.n}
      /\ UNCHANGED <<desks, audit, saves, raced, surprised>>
  BY DEF Set, Next1
<1>6. plan \in Plan
  BY <1>2, <1>4 DEF Plan, Room, Errand
<1>7. rooms' \in [Queues -> Room]
  BY <1>4, <1>5, <1>6 DEF Room
<1>8. \A a \in Queues : /\ rooms'[a].limits = rooms[a].limits
                        /\ rooms'[a].plan = IF a = q THEN plan ELSE rooms[a].plan
  BY <1>4, <1>5 DEF Room
<1>8a. partial' = CASE r.sent = {} -> partial
                    [] r.sent = Instants -> partial \ {q}
                    [] OTHER -> partial \cup {q}
  BY DEF Set
<1>8b. partial' \subseteq Queues
  BY <1>2, <1>4, <1>8a
<1>9. q \notin partial' => Ordered(plan)
  <2>1. ASSUME q \notin partial'
        PROVE  r.sent = Instants \/ (r.sent = {} /\ Ordered(rooms[q].plan))
    BY <1>2, <1>8a, <2>1 DEF ControlInv, PlansInv
  <2>2. ASSUME r.sent = {}, Ordered(rooms[q].plan) PROVE Ordered(plan)
    BY <2>2 DEF Ordered, Instants
  <2>3. ASSUME r.sent = Instants PROVE Ordered(plan)
    <3>1. Ordered(r.want.plan)
      BY <1>2, <2>3 DEF Sincere, Orderly
    <3> QED
      BY <2>3, <3>1 DEF Ordered, Instants
  <2> QED
    BY <2>1, <2>2, <2>3
<1>10. \A a \in Queues \ partial' : Ordered(rooms'[a].plan)
  <2>1. ASSUME NEW a \in Queues \ partial', a # q PROVE a \notin partial
    BY <1>8a, <2>1
  <2> QED
    BY <1>8, <1>9, <2>1 DEF ControlInv, PlansInv
<1>11. ~raced => \A b \in Slots \ {c} : requests[b] # NoRequest =>
         UpToDate(requests[b], rooms'[Of(b)])
  <2>1. ASSUME ~raced, NEW b \in Slots, requests[b] # NoRequest
        PROVE  UpToDate(requests[b], rooms'[Of(b)])
    <3>1. UpToDate(requests[b], rooms[Of(b)]) /\ Of(b) \in Queues
      BY <2>1, RequestUnderWay DEF ControlInv, AloneInv
    <3> QED
      BY <1>8, <3>1 DEF UpToDate
  <2> QED
    BY <2>1
<1> HIDE DEF r, plan
<1>12. k \in Errand /\ k.op = r.op /\ k.at = 2 /\ k.sent = {} /\ k.log = r.log /\ k.n = r.n
  <2> DEFINE m == Next1(r)
  <2>1. m \in Errand /\ m.op = r.op /\ m.at = 2 /\ m.log = r.log /\ m.n = r.n
    BY <1>2, <1>3, NextStep
  <2> HIDE DEF m
  <2>2. k = [m EXCEPT !.want = Fresh, !.sent = {}]
    BY DEF m
  <2> QED
    BY <2>1, <2>2, FreshRoom DEF Errand
<1> HIDE DEF k
<1>13. done' \subseteq 0 .. MaxSaves /\ done \subseteq done' /\ r.n \in done'
  BY <1>2, <1>4, <1>5 DEF Errand
<1>14. Sincere(k, done')
  <2>1. Instants # {}
    BY DEF Instants
  <2>2. r.log \subseteq done'
    BY <1>2, <1>13 DEF Sincere, Truthful
  <2>3. Truthful(k, done')
    BY <1>3, <1>12, <1>13, <2>2 DEF Truthful
  <2>4. Orderly(k)
    BY <1>12, <2>1 DEF Orderly
  <2>5. k.at \in 1 .. LastStep(k.op)
    BY <1>3, <1>12 DEF LastStep, Asks
  <2> QED
    BY <2>3, <2>4, <2>5 DEF Sincere
<1>15. ~Working(k) /\ UpToDate(k, rooms'[k.queue])
  BY <1>3, <1>12 DEF Working, UpToDate
<1> QED
  BY <1>4, <1>5, <1>7, <1>10, <1>11, <1>12, <1>13, <1>14, <1>15, <1>8b, OneRequest

\* What was reviewed is what the room has, and another change of its limits that is
\* already at work makes a race.
LEMMA ReviewKeeps ==
  ASSUME ControlInv, NEW c \in Slots, Review(c)
  PROVE  ControlInv'
<1> DEFINE r == requests[c]
           limits == rooms[Of(c)].limits
           k == Next1(r)
<1>1. r # NoRequest /\ Steps(r.op)[r.at] = "review"
  BY DEF Review, At, Step
<1>2. /\ r \in Errand /\ Sincere(r, done) /\ r.op \in Asks \cup Changes
      /\ r.at \in 1 .. LastStep(r.op) /\ Of(c) \in Queues /\ r.queue = Of(c)
  BY <1>1, RequestUnderWay DEF Of
<1>3. r.op = "setLimits" /\ r.at = 1
  BY <1>1, <1>2, StepOfRequest
<1>4. /\ desks \in [Desks -> Desk] /\ saves \in 0 .. MaxSaves /\ audit \subseteq done
      /\ partial \subseteq Queues /\ {raced, surprised} \subseteq BOOLEAN /\ done \subseteq 0 .. MaxSaves
      /\ rooms \in [Queues -> Room]
  BY DEF ControlInv, ControlShape
<1>5. UNCHANGED <<rooms, desks, audit, saves, done, partial, surprised>>
  BY DEF Review
<1>6. CASE ~Same(r.reviewed, limits) \/ r.want.limits = limits
  <2>1. requests' = [requests EXCEPT ![c] = NoRequest] /\ UNCHANGED raced
    BY <1>6 DEF Review, Drops
  <2> DEFINE m == NoRequest
  <2>2. m \in Errand \cup {NoRequest}
    OBVIOUS
  <2> QED
    BY <1>4, <1>5, <2>1, <2>2, QuietRequest
<1>7. CASE Same(r.reviewed, limits) /\ r.want.limits # limits
  <2>1. /\ requests' = [requests EXCEPT ![c] = k]
        /\ raced' = (raced \/ \E b \in Slots \ {c} :
                         (At(b, "setMax") \/ At(b, "setGrace")) /\ Of(b) = Of(c))
    BY <1>7 DEF Review, Goes
  <2>2. /\ k \in Errand /\ k.op = "setLimits" /\ k.at = 2 /\ k.sent = r.sent /\ k.log = r.log
        /\ k.want = r.want /\ k.reviewed = r.reviewed /\ k.queue = Of(c)
    BY <1>2, <1>3, NextStep
  <2>3. limits \in Limits /\ r.want.limits \in Limits
    BY <1>2, <1>4 DEF Room, Errand
  <2>4. r.reviewed.max = limits.max /\ r.reviewed.grace = limits.grace
    BY <1>7 DEF Same
  <2>5. \/ r.want.limits.max # r.reviewed.max
        \/ r.want.limits.grace # r.reviewed.grace
    BY <1>7, <2>3, <2>4, LimitsDiffer
  <2>6. Sincere(k, done)
    <3>1. k.at \in 1 .. LastStep(k.op)
      BY <2>2 DEF LastStep, Asks
    <3>2. Truthful(k, done)
      BY <1>2, <2>2, <2>5 DEF Sincere, Truthful
    <3> QED
      BY <1>2, <2>2, <3>1, <3>2 DEF Sincere, Orderly
  <2>7. UpToDate(k, rooms[Of(c)])
    BY <2>2, <2>4 DEF UpToDate
  <2>8. \A q \in Queues \ partial : Ordered(rooms[q].plan)
    BY DEF ControlInv, PlansInv
  <2>9. ~raced => /\ ~surprised
                  /\ \A b \in Slots \ {c} : requests[b] # NoRequest =>
                       UpToDate(requests[b], rooms[Of(b)])
    BY DEF ControlInv, AloneInv
  <2>10. ASSUME NEW b \in Slots \ {c}, Working(requests[b]), Of(b) = Of(c)
         PROVE  raced'
    <3>1. requests[b] # NoRequest
      BY <2>10, NotARequest
    <3>2. requests[b].op = "setLimits" /\ requests[b].at \in {2, 3}
      BY <2>10 DEF Working
    <3>3. Steps(requests[b].op)[requests[b].at] \in {"setMax", "setGrace"}
      BY <3>1, <3>2, RequestUnderWay, StepOfRequest
    <3>4. At(b, "setMax") \/ At(b, "setGrace")
      BY <3>1, <3>3 DEF At, Step
    <3> QED
      BY <2>1, <2>10, <3>4
  <2>11. raced' \in BOOLEAN /\ (raced => raced')
    BY <2>1
  <2> HIDE DEF r, k
  <2>12. ~raced' => ~raced
    BY <2>11
  <2> QED
    BY <1>4, <1>5, <2>1, <2>2, <2>6, <2>7, <2>8, <2>9, <2>10, <2>11, <2>12, OneRequest
<1> QED
  BY <1>6, <1>7

\* The limits of a room that is not raced for are changed by the one request at work.
LEMMA SetLimitKeeps ==
  ASSUME ControlInv, NEW c \in Slots, NEW step, NEW field,
         (step = "setMax" /\ field = "max") \/ (step = "setGrace" /\ field = "grace"),
         SetLimit(c, step, field)
  PROVE  ControlInv'
<1> DEFINE r == requests[c]
           q == Of(c)
           limits == rooms[q].limits
           reviewed == IF step = "setGrace" THEN Fresh.limits ELSE r.reviewed
           k == [Next1(r) EXCEPT !.reviewed = reviewed]
<1>1. r # NoRequest /\ Steps(r.op)[r.at] = step
  BY DEF SetLimit, At, Step
<1>2. /\ r \in Errand /\ Sincere(r, done) /\ r.op \in Asks \cup Changes
      /\ r.at \in 1 .. LastStep(r.op) /\ q \in Queues /\ r.queue = q
  BY <1>1, RequestUnderWay DEF Of
<1>3. /\ r.op = "setLimits"
      /\ r.at = IF step = "setMax" THEN 2 ELSE 3
  BY <1>1, <1>2, StepOfRequest
<1>4. /\ desks \in [Desks -> Desk] /\ saves \in 0 .. MaxSaves /\ audit \subseteq done
      /\ partial \subseteq Queues /\ {raced, surprised} \subseteq BOOLEAN /\ done \subseteq 0 .. MaxSaves
      /\ rooms \in [Queues -> Room]
  BY DEF ControlInv, ControlShape
<1>5. requests' = [requests EXCEPT ![c] = k]
  BY DEF SetLimit
<1>6. UNCHANGED <<desks, audit, saves, partial, raced>>
  BY DEF SetLimit
<1>7. /\ k \in Errand /\ k.op = "setLimits" /\ k.at = r.at + 1 /\ k.sent = r.sent
      /\ k.log = r.log /\ k.n = r.n /\ k.want = r.want /\ k.queue = q /\ k.reviewed = reviewed
  <2> DEFINE m == Next1(r)
  <2>1. /\ m \in Errand /\ m.op = "setLimits" /\ m.at = r.at + 1 /\ m.sent = r.sent
        /\ m.log = r.log /\ m.n = r.n /\ m.want = r.want /\ m.queue = q
    BY <1>2, <1>3, NextStep
  <2>2. reviewed \in Limits
    BY <1>2, FreshRoom DEF Errand
  <2> HIDE DEF m, reviewed
  <2>3. k = [m EXCEPT !.reviewed = reviewed]
    BY DEF m, reviewed
  <2> QED
    BY <2>1, <2>2, <2>3 DEF Errand
<1>8. Orderly(k) /\ k.at \in 1 .. LastStep(k.op)
  BY <1>2, <1>3, <1>7 DEF Sincere, Orderly, LastStep, Asks
<1>10. ~raced => UpToDate(r, rooms[q])
  BY <1>1 DEF ControlInv, AloneInv
<1>11. ~raced => \A b \in Slots \ {c} : ~(Working(requests[b]) /\ Of(b) = q)
  BY <1>3 DEF ControlInv, AloneInv, Working
<1>12. r.want.limits[field] \in Bounds
  BY <1>2 DEF Errand, Room, Limits
<1> HIDE DEF r, k, reviewed
<1>13. CASE r.want.limits[field] = r.reviewed[field]
  <2>1. UNCHANGED <<rooms, done, surprised>>
    BY <1>13 DEF SetLimit, r
  <2>2. Truthful(k, done)
    BY <1>2, <1>3, <1>7, <1>13 DEF Sincere, Truthful, reviewed
  <2>3. ~raced => UpToDate(k, rooms[q])
    BY <1>3, <1>7, <1>10 DEF UpToDate, Working, reviewed
  <2>4. \A a \in Queues \ partial : Ordered(rooms[a].plan)
    BY DEF ControlInv, PlansInv
  <2>5. ~raced => /\ ~surprised
                  /\ \A b \in Slots \ {c} : requests[b] # NoRequest =>
                       UpToDate(requests[b], rooms[Of(b)])
    BY DEF ControlInv, AloneInv
  <2>6. Sincere(k, done)
    BY <1>8, <2>2 DEF Sincere
  <2> QED
    BY <1>4, <1>5, <1>6, <1>7, <1>11, <2>1, <2>3, <2>4, <2>5, <2>6, OneRequest
<1>14. CASE r.want.limits[field] # r.reviewed[field]
  <2>1. /\ rooms' = [rooms EXCEPT ![q].limits[field] = r.want.limits[field]]
        /\ done' = done \cup {r.n}
        /\ surprised' = (surprised \/ limits[field] # r.reviewed[field])
    BY <1>14 DEF SetLimit, r
  <2>2. done' \subseteq 0 .. MaxSaves /\ done \subseteq done' /\ r.n \in done'
    BY <1>2, <1>4, <2>1 DEF Errand
  <2>3. Truthful(k, done')
    <3>1. r.log \subseteq done'
      BY <1>2, <2>2 DEF Sincere, Truthful
    <3> QED
      BY <1>3, <1>7, <2>2, <3>1 DEF Truthful
  <2>4. rooms' \in [Queues -> Room]
    BY <1>2, <1>4, <1>12, <2>1 DEF Room, Limits
  <2>5. \A a \in Queues : /\ rooms'[a].plan = rooms[a].plan
                          /\ a # q => rooms'[a] = rooms[a]
    BY <1>2, <1>4, <2>1 DEF Room
  <2>6. step = "setMax" => rooms'[q].limits.grace = rooms[q].limits.grace
    BY <1>2, <1>4, <2>1 DEF Room, Limits
  <2>7. ~raced => UpToDate(k, rooms'[q])
    BY <1>3, <1>7, <1>10, <2>6 DEF UpToDate, Working, reviewed
  <2>8. \A a \in Queues \ partial : Ordered(rooms'[a].plan)
    BY <2>5 DEF ControlInv, PlansInv
  <2>9. ~raced => ~surprised'
    <3>1. ~raced => limits[field] = r.reviewed[field]
      BY <1>3, <1>10 DEF UpToDate, Working
    <3> QED
      BY <2>1, <3>1 DEF ControlInv
  <2>10. ~raced => \A b \in Slots \ {c} : requests[b] # NoRequest =>
           UpToDate(requests[b], rooms'[Of(b)])
    <3>1. ASSUME ~raced, NEW b \in Slots \ {c}, requests[b] # NoRequest
          PROVE  UpToDate(requests[b], rooms'[Of(b)])
      <4>1. UpToDate(requests[b], rooms[Of(b)]) /\ Of(b) \in Queues
        BY <3>1, RequestUnderWay DEF ControlInv, AloneInv
      <4>2. CASE Of(b) # q
        BY <2>5, <4>1, <4>2
      <4>3. CASE Of(b) = q
        BY <1>11, <3>1, <4>3 DEF UpToDate, Working
      <4> QED
        BY <4>2, <4>3
    <3> QED
      BY <3>1
  <2>11. Sincere(k, done')
    BY <1>8, <2>3 DEF Sincere
  <2>12. surprised' \in BOOLEAN /\ audit \subseteq done'
    BY <1>4, <2>1, <2>2
  <2> QED
    BY <1>4, <1>5, <1>6, <1>7, <1>11, <2>2, <2>4, <2>7, <2>8, <2>9, <2>10, <2>11,
       <2>12, OneRequest
<1> QED
  BY <1>13, <1>14

-----------------------------------------------------------------------------
LEMMA ControlStarts == ControlInit => ControlInv
<1>1. SUFFICES ASSUME ControlInit PROVE ControlInv
  OBVIOUS
<1>2. /\ rooms = [q \in Queues |-> Fresh] /\ requests = [c \in Slots |-> NoRequest]
      /\ audit = {} /\ saves = 0 /\ done = {}
      /\ partial = {} /\ raced = FALSE /\ surprised = FALSE
  BY <1>1 DEF ControlInit
<1>3. desks \in [Desks -> Desk]
  BY <1>1, FreshRoom, ControlAssumption DEF ControlInit, Desk
<1>4. ControlShape
  <2>1. rooms \in [Queues -> Room]
    BY <1>2, FreshRoom
  <2>2. requests \in [Slots -> Errand \cup {NoRequest}]
    BY <1>2
  <2>3. 0 \in 0 .. MaxSaves
    BY ControlAssumption
  <2> QED
    BY <1>2, <1>3, <2>1, <2>2, <2>3 DEF ControlShape
<1>5. PlansInv
  BY <1>2, FreshRoom DEF PlansInv
<1>6. AloneInv
  BY <1>2, NotARequest DEF AloneInv
<1> QED
  BY <1>2, <1>4, <1>5, <1>6 DEF ControlInv

LEMMA ControlInductive == ControlInv /\ [ControlNext]_controlVars => ControlInv'
<1>1. SUFFICES ASSUME ControlInv, [ControlNext]_controlVars PROVE ControlInv'
  OBVIOUS
<1>2. CASE UNCHANGED controlVars
  <2>1. UNCHANGED <<rooms, desks, requests, audit, saves, done, partial, raced, surprised>>
    BY <1>2 DEF controlVars
  <2>2. ControlShape' /\ (PlansInv <=> PlansInv') /\ (AloneInv <=> AloneInv')
    BY <1>1, <2>1 DEF ControlInv, ControlShape, PlansInv, AloneInv, Of
  <2> QED
    BY <1>1, <2>1, <2>2 DEF ControlInv
<1>3. ASSUME NEW c \in Slots, Proceed(c) PROVE ControlInv'
  <2>1. CASE Ask(c)
    BY <1>1, <2>1, AskKeeps
  <2>2. CASE Set(c)
    BY <1>1, <2>2, SetKeeps
  <2>3. CASE Review(c)
    BY <1>1, <2>3, ReviewKeeps
  <2>4. CASE ReadLog(c) \/ PutLog(c)
    BY <1>1, <2>4, LogKeeps
  <2>5. CASE FailRequest(c) \/ Answer(c)
    BY <1>1, <2>5, DropKeeps
  <2>6. CASE SetLimit(c, "setMax", "max") \/ SetLimit(c, "setGrace", "grace")
    BY <1>1, <2>6, SetLimitKeeps
  <2> QED
    BY <1>3, <2>1, <2>2, <2>3, <2>4, <2>5, <2>6 DEF Proceed
<1>4. ASSUME NEW c \in Slots, NEW d \in Desks,
             \/ Poll(d, c) \/ Choose(d, c) \/ AskLimits(d, c)
             \/ Save(d, c) \/ SaveLimits(d, c)
      PROVE  ControlInv'
  BY <1>1, <1>4, PollKeeps, SaveKeeps, SaveLimitsKeeps
<1> QED
  BY <1>1, <1>2, <1>3, <1>4 DEF ControlNext

\* However the changes of a room interleave, it closes before it opens only while the last
\* schedule it took is one that gave one instant alone (handleAdminSchedule, setSchedule).
THEOREM SchedulesStayOrdered == ControlSpec => []ScheduleOrdered
<1>1. ControlInv => ScheduleOrdered
  BY DEF ControlInv, PlansInv, ScheduleOrdered
<1> QED
  BY <1>1, ControlStarts, ControlInductive, PTL DEF ControlSpec

\* The activity log tells only of changes that the room has made, and without a race of
\* two changes a limit is replaced only if it is the one that was reviewed
\* (appendAuditEvent, handleAdminQueueLimitsPut).
THEOREM ChangesAsReviewed == ControlSpec => []DoneAndReviewed
<1>1. ControlInv => DoneAndReviewed
  BY DEF ControlInv, DoneAndReviewed
<1> QED
  BY <1>1, ControlStarts, ControlInductive, PTL DEF ControlSpec

-----------------------------------------------------------------------------
\* A change that has not done with the room yet, and the number that it goes by: it is on
\* record that a change was made only by a request that has one.
Due(k) ==
  \/ k.op \in {"change", "control"} /\ k.at = 1
  \/ k.op = "setLimits" /\ k.at \in 1 .. 3

Numbered ==
  /\ 0 \notin done
  /\ \A c \in Slots : Due(requests[c]) => requests[c].n # 0

LEMMA StepsOfRequest ==
  ASSUME NEW op \in Asks \cup Changes
  PROVE  DOMAIN Steps(op) = 1 .. LastStep(op)
<1>1. CASE op \in Asks
  <2>1. op # "setLimits"
    BY <1>1 DEF Asks
  <2>2. Steps(op) = <<"ask", "answer">> /\ LastStep(op) = 2
    BY <1>1, <2>1 DEF Steps, LastStep
  <2> QED
    BY <2>2
<1>2. CASE op = "setLimits"
  <2>1. /\ Steps(op) = <<"review", "setMax", "setGrace", "readLog", "putLog", "answer">>
        /\ LastStep(op) = 6
    BY <1>2 DEF Steps, LastStep, Asks
  <2> QED
    BY <2>1
<1>3. CASE op \in {"change", "control"}
  <2>1. Steps(op) = <<"set", "readLog", "putLog", "ask", "answer">> /\ LastStep(op) = 5
    BY <1>3 DEF Steps, LastStep, Asks
  <2> QED
    BY <2>1
<1> QED
  BY <1>1, <1>2, <1>3 DEF Changes

LEMMA OneNumbered ==
  ASSUME ControlInv, Numbered, NEW c \in Slots, NEW k,
         requests' = [requests EXCEPT ![c] = k],
         0 \notin done', Due(k) => k.n # 0
  PROVE  Numbered'
<1>1. /\ requests'[c] = k
      /\ \A b \in Slots \ {c} : requests'[b] = requests[b]
  BY DEF ControlInv, ControlShape
<1> QED
  BY <1>1 DEF Numbered

LEMMA SubmitsNumbered ==
  ASSUME ControlInv, Numbered, NEW d \in Desks, NEW c \in Slots,
         \/ Poll(d, c) \/ Choose(d, c) \/ AskLimits(d, c)
         \/ Save(d, c) \/ SaveLimits(d, c)
  PROVE  Numbered'
<1>1. CASE Poll(d, c) \/ Choose(d, c) \/ AskLimits(d, c)
  <2>1. PICK op, q :
          /\ op \in Asks
          /\ requests' = [requests EXCEPT ![c] = Request(op, d, q, 0, Fresh, {})]
    BY <1>1 DEF Poll, Choose, AskLimits, Asks
  <2>2. ~Due(Request(op, d, q, 0, Fresh, {}))
    BY <2>1 DEF Due, Request, Asks
  <2>3. done' = done
    BY <1>1 DEF Poll, Choose, AskLimits
  <2> QED
    BY <2>1, <2>2, <2>3, OneNumbered DEF Numbered
<1>2. CASE Save(d, c) \/ SaveLimits(d, c)
  <2>1. PICK op, want, sent : Submits(c, op, d, want, sent)
    BY <1>2 DEF Save, SaveLimits
  <2> DEFINE k == Request(op, d, desks[d].queue, saves + 1, want, sent)
  <2>2. requests' = [requests EXCEPT ![c] = k] /\ done' = done
    BY <2>1 DEF Submits
  <2>3. k.n = saves + 1 /\ saves \in Nat
    BY DEF Request, ControlInv, ControlShape
  <2> HIDE DEF k
  <2>4. k.n # 0
    BY <2>3
  <2> QED
    BY <2>2, <2>4, OneNumbered DEF Numbered
<1> QED
  BY <1>1, <1>2

LEMMA ProceedNumbered ==
  ASSUME ControlInv, Numbered, NEW c \in Slots, Proceed(c)
  PROVE  Numbered'
<1> DEFINE r == requests[c]
<1>1. r # NoRequest
  BY DEF Proceed, Ask, Set, Review, ReadLog, PutLog, FailRequest, Answer, SetLimit, At
<1>2. /\ r \in Errand /\ r.op \in Asks \cup Changes /\ r.at \in 1 .. LastStep(r.op)
      /\ r.at \in Nat \ {0}
  BY <1>1, RequestUnderWay DEF Errand
<1>3. Due(r) => r.n # 0
  BY DEF Numbered
<1>4. ASSUME NEW k, requests' = [requests EXCEPT ![c] = k], done' = done,
             Due(k) => k.n # 0
      PROVE  Numbered'
  BY <1>4, OneNumbered DEF Numbered
<1> DEFINE m == Next1(r)
<1>5. m \in Errand /\ m.op = r.op /\ m.at = r.at + 1 /\ m.n = r.n
  BY <1>2, NextStep
<1>6. Due(m) => Due(r)
  BY <1>2, <1>5 DEF Due
<1>7. ~Due(NoRequest)
  BY DEF Due, NoRequest
<1>8. CASE FailRequest(c) \/ Answer(c)
  BY <1>4, <1>7, <1>8 DEF FailRequest, Answer, Drops
<1>9. CASE Review(c)
  <2>1. done' = done /\ (\/ requests' = [requests EXCEPT ![c] = NoRequest]
                         \/ requests' = [requests EXCEPT ![c] = m])
    BY <1>9 DEF Review, Drops, Goes
  <2> QED
    BY <1>3, <1>4, <1>5, <1>6, <1>7, <2>1
<1>10. CASE Ask(c) \/ ReadLog(c)
  <2>1. PICK k : /\ requests' = [requests EXCEPT ![c] = k]
                 /\ (\E got : k = [m EXCEPT !.got = got]) \/ (\E log : k = [m EXCEPT !.log = log])
    BY <1>10 DEF Ask, ReadLog
  <2>2. k.op = m.op /\ k.at = m.at /\ k.n = m.n
    BY <1>5, <2>1 DEF Errand
  <2>3. done' = done
    BY <1>10 DEF Ask, ReadLog
  <2> QED
    BY <1>3, <1>4, <1>5, <1>6, <2>1, <2>2, <2>3 DEF Due
<1>11. CASE PutLog(c)
  <2>1. Steps(r.op)[r.at] = "putLog"
    BY <1>11 DEF PutLog, At, Step
  <2>2. (r.op = "setLimits" /\ r.at = 5) \/ (r.op \in {"change", "control"} /\ r.at = 3)
    BY <1>2, <2>1, StepOfRequest
  <2> DEFINE k == [m EXCEPT !.log = {}, !.n = 0]
  <2>3. requests' = [requests EXCEPT ![c] = k] /\ done' = done
    BY <1>11 DEF PutLog
  <2>4. k.op = m.op /\ k.at = m.at
    BY <1>5 DEF Errand
  <2> HIDE DEF k
  <2>5. ~Due(k)
    BY <1>5, <2>2, <2>4 DEF Due
  <2> QED
    BY <1>4, <2>3, <2>5
<1>12. CASE Set(c)
  <2>1. Steps(r.op)[r.at] = "set"
    BY <1>12 DEF Set, At, Step
  <2>2. r.op \in {"change", "control"} /\ r.at = 1
    BY <1>2, <2>1, StepOfRequest
  <2> DEFINE k == [m EXCEPT !.want = Fresh, !.sent = {}]
  <2>3. requests' = [requests EXCEPT ![c] = k] /\ done' = done \cup {r.n}
    BY <1>12 DEF Set
  <2>4. k.op = m.op /\ k.at = m.at
    BY <1>5 DEF Errand
  <2> HIDE DEF k
  <2>5. ~Due(k) /\ r.n # 0
    BY <1>3, <1>5, <2>2, <2>4 DEF Due
  <2> QED
    BY <2>3, <2>5, OneNumbered DEF Numbered
<1>13. ASSUME NEW step, NEW field,
              (step = "setMax" /\ field = "max") \/ (step = "setGrace" /\ field = "grace"),
              SetLimit(c, step, field)
       PROVE  Numbered'
  <2>1. Steps(r.op)[r.at] = step
    BY <1>13 DEF SetLimit, At, Step
  <2>2. r.op = "setLimits" /\ r.at \in {2, 3}
    BY <1>2, <1>13, <2>1, StepOfRequest
  <2>3. r.n # 0
    BY <1>3, <2>2 DEF Due
  <2>4. PICK k : /\ requests' = [requests EXCEPT ![c] = k]
                 /\ \E reviewed : k = [m EXCEPT !.reviewed = reviewed]
    BY <1>13 DEF SetLimit
  <2>5. k.n = m.n
    BY <1>5, <2>4 DEF Errand
  <2>6. done' = done \/ done' = done \cup {r.n}
    BY <1>13 DEF SetLimit
  <2> QED
    BY <1>5, <2>3, <2>4, <2>5, <2>6, OneNumbered DEF Numbered
<1> QED
  BY <1>8, <1>9, <1>10, <1>11, <1>12, <1>13 DEF Proceed

LEMMA NumbersKept == ControlInv /\ Numbered /\ [ControlNext]_controlVars => Numbered'
<1>1. SUFFICES ASSUME ControlInv, Numbered, [ControlNext]_controlVars PROVE Numbered'
  OBVIOUS
<1>2. CASE UNCHANGED controlVars
  BY <1>1, <1>2 DEF controlVars, Numbered
<1>3. ASSUME NEW c \in Slots, NEW d \in Desks,
             \/ Poll(d, c) \/ Choose(d, c) \/ AskLimits(d, c)
             \/ Save(d, c) \/ SaveLimits(d, c)
      PROVE  Numbered'
  BY <1>1, <1>3, SubmitsNumbered
<1>4. ASSUME NEW c \in Slots, Proceed(c) PROVE Numbered'
  BY <1>1, <1>4, ProceedNumbered
<1> QED
  BY <1>1, <1>2, <1>3, <1>4 DEF ControlNext

LEMMA NumbersStart == ControlInit => Numbered
BY NotARequest DEF ControlInit, Numbered, Due, NoRequest

LEMMA ControlShaped ==
  ASSUME ControlInv, Numbered
  PROVE  ControlTypeOK
<1>1. /\ rooms \in [Queues -> Room] /\ desks \in [Desks -> Desk] /\ saves \in 0 .. MaxSaves
      /\ partial \subseteq Queues /\ {raced, surprised} \subseteq BOOLEAN
  BY DEF ControlInv, ControlShape
<1>2. audit \cup done \subseteq 1 .. MaxSaves
  <2>1. \A n \in 0 .. MaxSaves : n # 0 => n \in 1 .. MaxSaves
    BY ControlAssumption
  <2> QED
    BY <2>1 DEF ControlInv, ControlShape, Numbered
<1>3. ASSUME NEW c \in Slots, requests[c] # NoRequest
      PROVE  /\ requests[c].op \in Asks \cup Changes
             /\ requests[c].at \in DOMAIN Steps(requests[c].op)
  BY <1>3, RequestUnderWay, StepsOfRequest
<1> QED
  BY <1>1, <1>2, <1>3 DEF ControlTypeOK

\* The rooms, the desks and the log keep their shape, no request is ever past its last await,
\* and the log and what was done tell of changes that were sent.
THEOREM ControlTyped == ControlSpec => []ControlTypeOK
<1>1. ControlSpec => [](ControlInv /\ Numbered)
  BY ControlStarts, ControlInductive, NumbersStart, NumbersKept, PTL DEF ControlSpec
<1> QED
  BY <1>1, ControlShaped, PTL

-----------------------------------------------------------------------------
(***************************************************************************)
(* The records behind the wizard.  What a request has read is old; what it *)
(* rests on is kept by the histories, which only grow.                     *)
(***************************************************************************)
LastCall(op) ==
  CASE op \in {"token", "reset"} -> 4
    [] op = "zone" -> 5
    [] op \in {"fix", "option", "provision", "solve"} -> 6
    [] op = "finish" -> 8
    [] op = "rotate" -> 3

Alone(mk) == \A v, w \in mk : v = w

\* The widgets that may be marked as verified: by their own challenge or by another's.
Credited == solved \cup misjudged

\* A record names only proxied zones as verified, and only widgets that were made.
GoodZone(p, px) == p.cf # None /\ p.cf.ok => p.cf.zone # None /\ p.cf.zone \in px
GoodWidget(p, mk, sv) ==
  p.ts # None => /\ p.ts.widget \in mk
                 /\ p.ts.verified => p.ts.widget \in sv

\* What a request knows by the call `at' it has come to.
Sealing(q) ==
  q.sealing => IF q.op = "solve" \/ (q.op = "finish" /\ q.at = 4)
               THEN q.copy.ts # None ELSE q.copy.cf # None
KnowsZone(q, at, px) ==
  /\ GoodZone(q.first, px) /\ GoodZone(q.copy, px)
  /\ q.op = "zone" => q.zone # None /\ (q.ok => q.zone \in px)
  /\ q.op \in {"fix", "option"} /\ q.ok => /\ at > 4
                                          /\ q.first.cf # None /\ q.first.cf.zone # None
                                          /\ q.first.cf.zone \in px
  /\ q.op \in {"fix", "option", "provision"} /\ at > 3 => q.first.cf # None
  /\ q.op = "finish" /\ at > 2 => Ready(q.first)
KnowsWidget(q, at, mk, rt, sv) ==
  /\ GoodWidget(q.first, mk, sv) /\ GoodWidget(q.copy, mk, sv)
  /\ q.op = "provision" => /\ at > 3 => q.first.ts = None
                           /\ at > 4 => q.widget \in mk
                           /\ at <= 4 => q.widget = None
  /\ q.op = "solve" => /\ at > 2 => q.widget \in mk
                       /\ at > 4 => q.widget \in sv
                       /\ at = 6 => q.copy.ts # None
  /\ q.op = "finish" /\ at > 4 => q.widget \in mk
  /\ q.op = "rotate" /\ at > 2 => q.widget \in rt
Knows(q, px, mk, rt, sv) ==
  /\ q.at \in 1 .. LastCall(q.op) /\ Sealing(q)
  /\ KnowsZone(q, q.at, px) /\ KnowsWidget(q, q.at, mk, rt, sv)

Good(p, px, mk, sv) == GoodZone(p, px) /\ GoodWidget(p, mk, sv)

\* A gate has a sitekey that was passed, with its own secret if only one widget was made.
Opens(g, mk, rt, sv) ==
  g # None => g.key \in sv \cup rt /\ (Alone(mk) => g.secret = g.key)

StoredInv ==
  /\ SetupTypeOK
  /\ Good(pending, proxied, made, Credited)
  /\ \A r \in Wizards : wizards[r] # Idle => Knows(wizards[r], proxied, made, rotated, Credited)
  /\ link # None => link \in proxied
  /\ Opens(gate, made, rotated, Credited)
  /\ Alone(made) => misjudged = {}

\* A provision that is past its gate.
Provides(r) == wizards[r].op = "provision" /\ wizards[r].at > 1

\* Nothing was crossed: whoever is about to make a widget knows that there is none, for
\* one that was made is on record, on its way there, or guards the login by now.
Single ==
  /\ Alone(made) /\ config # "none"
  /\ \A r \in Wizards :
       /\ wizards[r].op = "reset" => wizards[r].at = 1
       /\ wizards[r].op = "finish" /\ wizards[r].at > 5 => config = "done"
       /\ Provides(r) /\ wizards[r].at > 2 /\ wizards[r].widget = None
          /\ wizards[r].first.cf # None /\ wizards[r].first.ts = None => made = {}
  /\ \A a, b \in Wizards :
       wizards[a].op = "provision" /\ wizards[b].op = "provision" => a = b
  /\ made # {} => \/ pending.ts # None
                  \/ \E r \in Wizards : Provides(r) /\ wizards[r].widget # None
                  \/ config = "done" /\ \A r \in Wizards : ~Provides(r)

SingleInv == crossed \/ Single

\* What is left of a request by its next call.
Moved(k, q) ==
  /\ k.at = q.at + 1 /\ k.sealing = FALSE
  /\ k.op = q.op /\ k.zone = q.zone /\ k.first = q.first /\ k.copy = q.copy
  /\ k.ok = q.ok /\ k.widget = q.widget

-----------------------------------------------------------------------------
LEMMA NotAWizard ==
  Idle.op = "none" /\ \A q \in Wizard : q # Idle /\ q.op \in Ops /\ q.op # "none"
<1>1. Idle.op = "none"
  BY DEF Idle
<1>2. \A q \in Wizard : q.op \in Ops
  BY DEF Wizard
<1>3. "none" \notin Ops
  BY DEF Ops
<1> QED
  BY <1>1, <1>2, <1>3

\* Which call of which request it is.
LEMMA CallOfRequest ==
  ASSUME NEW op \in Ops, NEW at \in 1 .. LastCall(op)
  PROVE  /\ Len(Path(op)) = LastCall(op)
         /\ Path(op)[at] = "gate" => at = 1 /\ op # "reset"
         /\ Path(op)[at] = "remote" => op \notin {"finish", "reset"} /\
              at = IF op \in {"token", "rotate"} THEN 2 ELSE IF op = "zone" THEN 3 ELSE 4
         /\ Path(op)[at] = "read" => op \notin {"finish", "rotate", "reset"} /\ at = LastCall(op) - 1
         /\ Path(op)[at] = "put" => op \notin {"finish", "rotate", "reset"} /\ at = LastCall(op)
         /\ Path(op)[at] = "token" => op \in {"zone", "fix", "option", "provision", "finish"} /\
              at = IF op = "zone" THEN 2 ELSE 3
         /\ Path(op)[at] = "secret" => op \in {"solve", "finish"} /\
              at = IF op = "solve" THEN 2 ELSE 4
         /\ Path(op)[at] = "first" => op \in {"fix", "option", "provision", "solve", "finish"} /\
              at = IF op = "solve" THEN 3 ELSE 2
         /\ Path(op)[at] = "done" => op \in {"finish", "reset"} /\ at = IF op = "reset" THEN 1 ELSE 5
         /\ Path(op)[at] = "link" => op \in {"finish", "reset"} /\ at = IF op = "reset" THEN 2 ELSE 6
         /\ Path(op)[at] = "widget" => op \in {"finish", "rotate", "reset"} /\
              at = IF op = "finish" THEN 7 ELSE 3
         /\ Path(op)[at] = "clear" => op \in {"finish", "reset"} /\ at = LastCall(op)
<1>1. CASE op \in {"token"}
  <2>1. LastCall(op) = 4 /\ Path(op) = <<"gate", "remote", "read", "put">>
    BY <1>1 DEF LastCall, Path
  <2>2. at \in {1, 2, 3, 4}
    BY <2>1
  <2> QED
    BY <1>1, <2>1, <2>2
<1>2. CASE op \in {"zone"}
  <2>1. LastCall(op) = 5 /\ Path(op) = <<"gate", "token", "remote", "read", "put">>
    BY <1>2 DEF LastCall, Path
  <2>2. at \in {1, 2, 3, 4, 5}
    BY <2>1
  <2> QED
    BY <1>2, <2>1, <2>2
<1>3. CASE op \in {"fix", "option", "provision"}
  <2>1. LastCall(op) = 6 /\ Path(op) = <<"gate", "first", "token", "remote", "read", "put">>
    BY <1>3 DEF LastCall, Path
  <2>2. at \in {1, 2, 3, 4, 5, 6}
    BY <2>1
  <2> QED
    BY <1>3, <2>1, <2>2
<1>4. CASE op \in {"solve"}
  <2>1. LastCall(op) = 6 /\ Path(op) = <<"gate", "secret", "first", "remote", "read", "put">>
    BY <1>4 DEF LastCall, Path
  <2>2. at \in {1, 2, 3, 4, 5, 6}
    BY <2>1
  <2> QED
    BY <1>4, <2>1, <2>2
<1>5. CASE op \in {"finish"}
  <2>1. /\ LastCall(op) = 8
        /\ Path(op) = <<"gate", "first", "token", "secret", "done", "link", "widget", "clear">>
    BY <1>5 DEF LastCall, Path
  <2>2. at \in {1, 2, 3, 4, 5, 6, 7, 8}
    BY <2>1
  <2> QED
    BY <1>5, <2>1, <2>2
<1>6. CASE op \in {"rotate"}
  <2>1. LastCall(op) = 3 /\ Path(op) = <<"gate", "remote", "widget">>
    BY <1>6 DEF LastCall, Path
  <2>2. at \in {1, 2, 3}
    BY <2>1
  <2> QED
    BY <1>6, <2>1, <2>2
<1>7. CASE op \in {"reset"}
  <2>1. LastCall(op) = 4 /\ Path(op) = <<"done", "link", "widget", "clear">>
    BY <1>7 DEF LastCall, Path
  <2>2. at \in {1, 2, 3, 4}
    BY <2>1
  <2> QED
    BY <1>7, <2>1, <2>2
<1> QED
  BY <1>1, <1>2, <1>3, <1>4, <1>5, <1>6, <1>7 DEF Ops

LEMMA LastCallSmall == \A op \in Ops : LastCall(op) \in 3 .. 8
BY DEF Ops, LastCall

\* A request goes on with what it has, or is done.
LEMMA Advances ==
  ASSUME NEW r \in Wizards, NEW q \in Wizard, q.at \in 1 .. LastCall(q.op), Onward(r, q)
  PROVE  \E k \in Wizard \cup {Idle} :
           /\ wizards' = [wizards EXCEPT ![r] = k]
           /\ \/ k = Idle /\ q.at = LastCall(q.op)
              \/ k \in Wizard /\ Moved(k, q) /\ k.at \in 1 .. LastCall(k.op)
<1>1. q.op \in Ops /\ Len(Path(q.op)) = LastCall(q.op) /\ LastCall(q.op) \in 3 .. 8
  BY CallOfRequest, LastCallSmall, NotAWizard
<1>2. CASE q.at = LastCall(q.op)
  BY <1>1, <1>2 DEF Onward
<1>3. CASE q.at # LastCall(q.op)
  <2> DEFINE k == [q EXCEPT !.at = q.at + 1, !.sealing = FALSE]
  <2>1. wizards' = [wizards EXCEPT ![r] = k]
    BY <1>1, <1>3 DEF Onward
  <2>2. q.at + 1 \in 1 .. LastCall(q.op) /\ q.at + 1 \in 1 .. 8
    BY <1>1, <1>3
  <2>3. k \in Wizard /\ Moved(k, q)
    BY <2>2 DEF Wizard, Moved
  <2> HIDE DEF k
  <2>4. k.at \in 1 .. LastCall(k.op)
    BY <2>2, <2>3 DEF Moved
  <2> QED
    BY <2>1, <2>3, <2>4
<1> QED
  BY <1>2, <1>3

\* What is known stays true.
LEMMA KnowledgeLasts ==
  ASSUME NEW px, NEW mk, NEW rt, NEW sv, NEW px2, NEW mk2, NEW rt2, NEW sv2,
         px \subseteq px2, mk \subseteq mk2, rt \subseteq rt2, sv \subseteq sv2
  PROVE  /\ \A p : Good(p, px, mk, sv) => Good(p, px2, mk2, sv2)
         /\ \A q : Knows(q, px, mk, rt, sv) => Knows(q, px2, mk2, rt2, sv2)
<1>1. Alone(mk2) => Alone(mk)
  BY DEF Alone
<1>2. ASSUME NEW p PROVE /\ GoodZone(p, px) => GoodZone(p, px2)
                         /\ GoodWidget(p, mk, sv) => GoodWidget(p, mk2, sv2)
  BY <1>1 DEF GoodZone, GoodWidget
<1>3. ASSUME NEW q, NEW at PROVE /\ KnowsZone(q, at, px) => KnowsZone(q, at, px2)
                                 /\ KnowsWidget(q, at, mk, rt, sv) => KnowsWidget(q, at, mk2, rt2, sv2)
  BY <1>2 DEF KnowsZone, KnowsWidget
<1> QED
  BY <1>2, <1>3 DEF Good, Knows

LEMMA GateLasts ==
  ASSUME NEW g, NEW mk, NEW rt, NEW sv, NEW mk2, NEW rt2, NEW sv2,
         mk \subseteq mk2, rt \subseteq rt2, sv \subseteq sv2, Opens(g, mk, rt, sv)
  PROVE  Opens(g, mk2, rt2, sv2)
BY DEF Opens, Alone

LEMMA WizardUnderWay ==
  ASSUME StoredInv, NEW r \in Wizards, wizards[r] # Idle
  PROVE  /\ wizards[r] \in Wizard /\ wizards[r].op \in Ops
         /\ wizards[r].at \in 1 .. LastCall(wizards[r].op)
         /\ Knows(wizards[r], proxied, made, rotated, Credited)
BY NotAWizard DEF StoredInv, SetupTypeOK, Knows

\* A step of one request.
LEMMA OneWizard ==
  ASSUME StoredInv, NEW r \in Wizards, NEW k \in Wizard \cup {Idle},
         wizards' = [wizards EXCEPT ![r] = k],
         config' \in {"none", "claimed", "done"}, pending' \in Pending,
         link' \in Zones \cup {None}, gate' \in [key: Widgets, secret: Widgets] \cup {None},
         steps' \in 0 .. MaxWizards, crossed' \in BOOLEAN,
         proxied' \in SUBSET Zones, made' \in SUBSET Widgets, rotated' \in SUBSET Widgets,
         solved' \in SUBSET Widgets, misjudged' \in SUBSET Widgets,
         proxied \subseteq proxied', made \subseteq made', rotated \subseteq rotated',
         solved \subseteq solved', misjudged \subseteq misjudged',
         Alone(made') => misjudged' = {},
         Good(pending', proxied', made', Credited'),
         k # Idle => Knows(k, proxied', made', rotated', Credited'),
         link' # None => link' \in proxied',
         Opens(gate', made', rotated', Credited')
  PROVE  StoredInv'
<1>1. wizards \in [Wizards -> Wizard \cup {Idle}]
  BY DEF StoredInv, SetupTypeOK
<1>2. SetupTypeOK'
  BY <1>1 DEF SetupTypeOK
<1>3. Credited \subseteq Credited'
  BY DEF Credited
<1>4. ASSUME NEW o \in Wizards, wizards'[o] # Idle
      PROVE  Knows(wizards'[o], proxied', made', rotated', Credited')
  <2>1. CASE o = r
    BY <1>1, <1>4, <2>1
  <2>2. CASE o # r
    <3>1. wizards'[o] = wizards[o]
      BY <1>1, <2>2
    <3>2. Knows(wizards[o], proxied, made, rotated, Credited)
      BY <1>4, <3>1 DEF StoredInv
    <3> QED
      BY <1>3, <3>1, <3>2, KnowledgeLasts
  <2> QED
    BY <2>1, <2>2
<1> QED
  BY <1>2, <1>4 DEF StoredInv

\* A step that promotes nothing.
LEMMA StoresOnly ==
  ASSUME StoredInv, NEW r \in Wizards, NEW k \in Wizard \cup {Idle},
         wizards' = [wizards EXCEPT ![r] = k],
         UNCHANGED <<link, gate, proxied, made, rotated, solved, misjudged>>,
         config' \in {"none", "claimed", "done"}, steps' \in 0 .. MaxWizards,
         crossed' \in BOOLEAN, pending' \in Pending, Good(pending', proxied, made, Credited),
         k # Idle => Knows(k, proxied, made, rotated, Credited)
  PROVE  StoredInv'
<1>1. /\ link \in Zones \cup {None} /\ gate \in [key: Widgets, secret: Widgets] \cup {None}
      /\ proxied \in SUBSET Zones /\ made \in SUBSET Widgets
      /\ rotated \in SUBSET Widgets /\ solved \in SUBSET Widgets /\ misjudged \in SUBSET Widgets
      /\ Alone(made) => misjudged = {}
      /\ link # None => link \in proxied
      /\ Opens(gate, made, rotated, Credited)
  BY DEF StoredInv, SetupTypeOK
<1>2. Credited' = Credited
  BY DEF Credited
<1> QED
  BY <1>1, <1>2, OneWizard

\* The same of a request that goes on, as q, or that is done.
LEMMA GoesOn ==
  ASSUME NEW r \in Wizards, NEW q \in Wizard, q.at \in 1 .. LastCall(q.op), Onward(r, q),
         NEW px, NEW mk, NEW rt, NEW sv,
         q.at < LastCall(q.op) => KnowsZone(q, q.at + 1, px) /\ KnowsWidget(q, q.at + 1, mk, rt, sv)
  PROVE  \E k \in Wizard \cup {Idle} :
           /\ wizards' = [wizards EXCEPT ![r] = k]
           /\ k # Idle => Knows(k, px, mk, rt, sv)
<1>1. PICK k \in Wizard \cup {Idle} :
        /\ wizards' = [wizards EXCEPT ![r] = k]
        /\ \/ k = Idle /\ q.at = LastCall(q.op)
           \/ k \in Wizard /\ Moved(k, q) /\ k.at \in 1 .. LastCall(k.op)
  BY Advances
<1>2. ASSUME k # Idle PROVE Knows(k, px, mk, rt, sv)
  <2>1. Moved(k, q) /\ k.at \in 1 .. LastCall(k.op)
    BY <1>1, <1>2
  <2>2. LastCall(q.op) \in 3 .. 8
    BY NotAWizard, LastCallSmall
  <2>3. q.at < LastCall(q.op)
    BY <2>1, <2>2 DEF Moved
  <2>4. KnowsZone(k, k.at, px)
    BY <2>1, <2>3 DEF Moved, KnowsZone
  <2>5. KnowsWidget(k, k.at, mk, rt, sv)
    BY <2>1, <2>3 DEF Moved, KnowsWidget
  <2> QED
    BY <2>1, <2>4, <2>5 DEF Knows, Moved, Sealing
<1> QED
  BY <1>1, <1>2

LEMMA StoredShape ==
  ASSUME StoredInv
  PROVE  /\ config \in {"none", "claimed", "done"} /\ steps \in 0 .. MaxWizards
         /\ crossed \in BOOLEAN /\ pending \in Pending
         /\ Good(pending, proxied, made, Credited)
         /\ pending.cf \in Access \cup {None} /\ pending.ts \in Widget \cup {None}
         /\ made \in SUBSET Widgets /\ rotated \in SUBSET Widgets /\ proxied \in SUBSET Zones
         /\ solved \in SUBSET Widgets /\ misjudged \in SUBSET Widgets
         /\ Alone(made) => misjudged = {}
BY DEF StoredInv, SetupTypeOK, Pending

LEMMA EmptyRecord ==
  /\ Empty \in Pending
  /\ \A px, mk, sv : Good(Empty, px, mk, sv)
<1>1. Empty \in Pending /\ Empty.cf = None /\ Empty.ts = None
  BY DEF Empty, Pending
<1> QED
  BY <1>1 DEF Good, GoodZone, GoodWidget

\* What a read returns rests on the same knowledge, the empty record too.
LEMMA ReadsGood ==
  ASSUME StoredInv, NEW read \in Reads
  PROVE  read \in Pending /\ Good(read, proxied, made, Credited)
BY StoredShape, EmptyRecord DEF Reads

LEMMA StoredBegin ==
  ASSUME StoredInv, NEW r \in Wizards, NEW op \in Ops, NEW z \in Zones \cup {None},
         Begin(r, op, z)
  PROVE  StoredInv'
<1> DEFINE k == [op |-> op, zone |-> z, at |-> 1, sealing |-> FALSE, first |-> Empty,
                 copy |-> Empty, ok |-> FALSE, widget |-> None]
<1>1. wizards' = [wizards EXCEPT ![r] = k]
  BY DEF Begin
<1>2. k \in Wizard
  BY EmptyRecord DEF Wizard
<1>3. /\ k.op = op /\ k.zone = z /\ k.at = 1 /\ k.sealing = FALSE /\ k.first = Empty
      /\ k.copy = Empty /\ k.ok = FALSE /\ k.widget = None
  OBVIOUS
<1> HIDE DEF k
<1>4. k.at \in 1 .. LastCall(k.op)
  BY <1>3, LastCallSmall
<1>5. KnowsZone(k, 1, proxied)
  BY <1>3, EmptyRecord DEF KnowsZone, Begin, Good
<1>6. KnowsWidget(k, 1, made, rotated, Credited)
  BY <1>3, EmptyRecord DEF KnowsWidget, Good
<1>7. Knows(k, proxied, made, rotated, Credited)
  BY <1>3, <1>4, <1>5, <1>6 DEF Knows, Sealing
<1>8. steps' \in 0 .. MaxWizards /\ crossed' \in BOOLEAN
  BY StoredShape, SetupAssumption DEF Begin
<1>9. UNCHANGED <<config, pending, link, gate, proxied, made, rotated, solved, misjudged>>
  BY DEF Begin
<1> QED
  BY <1>1, <1>2, <1>7, <1>8, <1>9, StoredShape, StoresOnly

LEMMA StoredFail ==
  ASSUME StoredInv, NEW r \in Wizards, Quit(r),
         UNCHANGED <<config, pending, link, gate, steps, proxied, made, rotated, solved,
                     misjudged>>,
         crossed' \in BOOLEAN
  PROVE  StoredInv'
<1> DEFINE k == Idle
<1>1. k \in Wizard \cup {Idle} /\ wizards' = [wizards EXCEPT ![r] = k]
  BY DEF Quit
<1> QED
  BY <1>1, StoredShape, StoresOnly

\* A request that only goes on.
LEMMA StoredOnward ==
  ASSUME StoredInv, NEW r \in Wizards, NEW q \in Wizard, q.at \in 1 .. LastCall(q.op),
         Onward(r, q),
         q.at < LastCall(q.op) => /\ KnowsZone(q, q.at + 1, proxied)
                                  /\ KnowsWidget(q, q.at + 1, made, rotated, Credited),
         UNCHANGED <<link, gate, steps, proxied, made, rotated, solved, misjudged>>,
         config' \in {"none", "claimed", "done"}, crossed' \in BOOLEAN,
         pending' \in Pending, Good(pending', proxied, made, Credited)
  PROVE  StoredInv'
<1>1. PICK k \in Wizard \cup {Idle} :
        /\ wizards' = [wizards EXCEPT ![r] = k]
        /\ k # Idle => Knows(k, proxied, made, rotated, Credited)
  BY GoesOn
<1> QED
  BY <1>1, StoredShape, StoresOnly

LEMMA StoredGate ==
  ASSUME StoredInv, NEW r \in Wizards, SetupGate(r)
  PROVE  StoredInv'
<1> DEFINE w == wizards[r]
<1>1. w # Idle /\ Path(w.op)[w.at] = "gate"
  BY DEF SetupGate, SetupAt
<1>2. /\ w \in Wizard /\ w.op \in Ops /\ w.at \in 1 .. LastCall(w.op)
      /\ Knows(w, proxied, made, rotated, Credited)
  BY <1>1, WizardUnderWay
<1>3. w.at = 1 /\ w.at + 1 = 2
  BY <1>1, <1>2, CallOfRequest
<1>4. Onward(r, w) \/ Quit(r)
  BY DEF SetupGate
<1>5. /\ UNCHANGED <<config, pending, link, gate, steps, proxied, made, rotated, solved, misjudged>>
      /\ crossed' \in BOOLEAN
  BY StoredShape DEF SetupGate
<1> HIDE DEF w
<1>6. KnowsZone(w, 2, proxied) /\ KnowsWidget(w, 2, made, rotated, Credited)
  BY <1>2, <1>3 DEF Knows, KnowsZone, KnowsWidget
<1> QED
  BY <1>2, <1>3, <1>4, <1>5, <1>6, StoredShape, StoredOnward, StoredFail

LEMMA StoredReadFirst ==
  ASSUME StoredInv, NEW r \in Wizards, ReadFirst(r)
  PROVE  StoredInv'
<1> DEFINE w == wizards[r]
<1>1. w # Idle /\ Path(w.op)[w.at] = "first"
  BY DEF ReadFirst, SetupAt
<1>2. /\ w \in Wizard /\ w.op \in Ops /\ w.at \in 1 .. LastCall(w.op)
      /\ Knows(w, proxied, made, rotated, Credited)
  BY <1>1, WizardUnderWay
<1>3. w.op \in {"fix", "option", "provision", "solve", "finish"}
      /\ w.at = IF w.op = "solve" THEN 3 ELSE 2
  BY <1>1, <1>2, CallOfRequest
<1>4. UNCHANGED <<config, pending, link, gate, steps, proxied, made, rotated, solved,
                  misjudged, crossed>>
  BY DEF ReadFirst
<1>5. PICK read \in Reads :
        \/ Quit(r)
        \/ Onward(r, [w EXCEPT !.first = read]) /\ (w.op = "finish" => Ready(read))
  BY <1>2 DEF ReadFirst, Wizard
<1>6. read \in Pending /\ Good(read, proxied, made, Credited)
  BY ReadsGood
<1> DEFINE q == [w EXCEPT !.first = read]
<1> HIDE DEF w
<1>7. /\ q \in Wizard /\ q.op = w.op /\ q.at = w.at /\ q.zone = w.zone /\ q.first = read
      /\ q.copy = w.copy /\ q.ok = w.ok /\ q.widget = w.widget
  BY <1>2, <1>6 DEF Wizard
<1> HIDE DEF q
<1>8. CASE Quit(r)
  BY <1>4, <1>8, StoredShape, StoredFail
<1>9. CASE Onward(r, q) /\ (w.op = "finish" => Ready(read))
  <2>1. KnowsZone(q, q.at + 1, proxied)
    BY <1>2, <1>3, <1>6, <1>7, <1>9 DEF Knows, KnowsZone, Good
  <2>2. KnowsWidget(q, q.at + 1, made, rotated, Credited)
    BY <1>2, <1>3, <1>6, <1>7, <1>9 DEF Knows, KnowsWidget, Good
  <2> QED
    BY <1>2, <1>4, <1>7, <1>9, <2>1, <2>2, StoredShape, StoredOnward
<1> QED
  BY <1>5, <1>8, <1>9 DEF q

\* A token sealed anew is put back with the record that it was read from.
LEMMA StoredToken ==
  ASSUME StoredInv, NEW r \in Wizards, OpenToken(r)
  PROVE  StoredInv'
<1> DEFINE w == wizards[r]
<1>1. w # Idle /\ Path(w.op)[w.at] = "token"
  BY DEF OpenToken, SetupAt
<1>2. /\ w \in Wizard /\ w.op \in Ops /\ w.at \in 1 .. LastCall(w.op)
      /\ Knows(w, proxied, made, rotated, Credited)
  BY <1>1, WizardUnderWay
<1>3. /\ w.op \in {"zone", "fix", "option", "provision", "finish"}
      /\ w.at = IF w.op = "zone" THEN 2 ELSE 3
  BY <1>1, <1>2, CallOfRequest
<1>4. UNCHANGED <<config, link, gate, steps, proxied, made, rotated, solved, misjudged>>
  BY DEF OpenToken
<1>5. ASSUME NEW q \in Wizard, q.op = w.op, q.at = w.at, q.zone = w.zone, q.first = w.first,
             q.ok = w.ok, q.widget = w.widget, q.copy \in {w.copy, Empty},
             Continues(q) \/ w.op = "zone"
      PROVE  /\ KnowsZone(q, q.at + 1, proxied)
             /\ KnowsWidget(q, q.at + 1, made, rotated, Credited)
  <2>1. Good(q.copy, proxied, made, Credited) /\ Good(q.first, proxied, made, Credited)
    BY <1>2, <1>5, EmptyRecord DEF Knows, KnowsZone, KnowsWidget, Good
  <2>2. KnowsZone(q, q.at + 1, proxied)
    BY <1>2, <1>3, <1>5, <2>1 DEF Knows, KnowsZone, Good, Continues
  <2>3. KnowsWidget(q, q.at + 1, made, rotated, Credited)
    BY <1>2, <1>3, <1>5, <2>1 DEF Knows, KnowsWidget, Good, Continues
  <2> QED
    BY <2>2, <2>3
<1>6. CASE w.sealing
  <2> DEFINE q == [w EXCEPT !.copy = Empty]
             p == [w.copy EXCEPT !.cf.old = FALSE]
  <2>1. w.copy.cf # None /\ w.copy \in Pending
    BY <1>2, <1>3, <1>6 DEF Knows, Sealing, Wizard
  <2>2. w.copy.cf \in Access
    BY <2>1 DEF Pending
  <2>3. /\ p \in Pending /\ p.ts = w.copy.ts /\ p.cf \in Access
        /\ p.cf.zone = w.copy.cf.zone /\ p.cf.ok = w.copy.cf.ok
    BY <2>1, <2>2 DEF Pending, Access
  <2>4. pending' = p /\ crossed' = (crossed \/ pending # w.copy)
    BY <1>6 DEF OpenToken
  <2>5. Quit(r) \/ (Continues(w) /\ Onward(r, q))
    BY <1>6 DEF OpenToken
  <2> HIDE DEF p, w
  <2>6. Good(p, proxied, made, Credited)
    BY <1>2, <2>1, <2>3 DEF Good, GoodZone, GoodWidget, Knows, KnowsZone, KnowsWidget
  <2>7. /\ q \in Wizard /\ q.op = w.op /\ q.at = w.at /\ q.zone = w.zone /\ q.first = w.first
        /\ q.ok = w.ok /\ q.widget = w.widget /\ q.copy = Empty
    BY <1>2, EmptyRecord DEF Wizard
  <2> HIDE DEF q
  <2>8. CASE Quit(r)
    <3> DEFINE k == Idle
    <3>1. k \in Wizard \cup {Idle} /\ wizards' = [wizards EXCEPT ![r] = k]
      BY <2>8 DEF Quit
    <3>2. crossed' \in BOOLEAN
      BY <2>4, StoredShape
    <3> QED
      BY <1>4, <2>3, <2>4, <2>6, <3>1, <3>2, StoredShape, StoresOnly
  <2>9. CASE Continues(w) /\ Onward(r, q)
    <3>1. Continues(q)
      BY <2>7, <2>9 DEF Continues
    <3>2. crossed' \in BOOLEAN
      BY <2>4, StoredShape
    <3> QED
      BY <1>2, <1>4, <1>5, <2>3, <2>4, <2>6, <2>7, <2>9, <3>1, <3>2, StoredShape, StoredOnward
  <2> QED
    BY <2>5, <2>8, <2>9
<1>7. CASE ~w.sealing
  <2>1. UNCHANGED <<pending, crossed>>
    BY <1>7 DEF OpenToken
  <2> DEFINE k == [w EXCEPT !.sealing = TRUE, !.copy = pending]
  <2>2. \/ Quit(r)
        \/ Onward(r, w) /\ (Continues(w) \/ w.op = "zone")
        \/ pending.cf # None /\ wizards' = [wizards EXCEPT ![r] = k]
    BY <1>7, StoredShape DEF OpenToken, Quit
  <2> HIDE DEF w
  <2>3. CASE Quit(r)
    BY <1>4, <2>1, <2>3, StoredShape, StoredFail
  <2>4. CASE Onward(r, w) /\ (Continues(w) \/ w.op = "zone")
    BY <1>2, <1>4, <1>5, <2>1, <2>4, StoredShape, StoredOnward
  <2>5. CASE pending.cf # None /\ wizards' = [wizards EXCEPT ![r] = k]
    <3>1. /\ k \in Wizard /\ k.op = w.op /\ k.at = w.at /\ k.zone = w.zone /\ k.first = w.first
          /\ k.ok = w.ok /\ k.widget = w.widget /\ k.copy = pending
      BY <1>2, StoredShape DEF Wizard
    <3> HIDE DEF k
    <3>2. Sealing(k)
      BY <1>3, <2>5, <3>1 DEF Sealing
    <3>3. KnowsZone(k, k.at, proxied) /\ KnowsWidget(k, k.at, made, rotated, Credited)
      <4>1. KnowsZone(k, k.at, proxied)
        BY <1>2, <3>1, StoredShape DEF Knows, KnowsZone, Good
      <4>2. KnowsWidget(k, k.at, made, rotated, Credited)
        BY <1>2, <1>3, <3>1, StoredShape DEF Knows, KnowsWidget, Good
      <4> QED
        BY <4>1, <4>2
    <3>4. Knows(k, proxied, made, rotated, Credited)
      BY <1>2, <3>1, <3>2, <3>3 DEF Knows
    <3> QED
      BY <1>4, <2>1, <2>5, <3>1, <3>4, StoredShape, StoresOnly
  <2> QED
    BY <2>2, <2>3, <2>4, <2>5
<1> QED
  BY <1>6, <1>7

LEMMA StoredSecret ==
  ASSUME StoredInv, NEW r \in Wizards, OpenSecret(r)
  PROVE  StoredInv'
<1> DEFINE w == wizards[r]
<1>1. w # Idle /\ Path(w.op)[w.at] = "secret"
  BY DEF OpenSecret, SetupAt
<1>2. /\ w \in Wizard /\ w.op \in Ops /\ w.at \in 1 .. LastCall(w.op)
      /\ Knows(w, proxied, made, rotated, Credited)
  BY <1>1, WizardUnderWay
<1>3. w.op \in {"solve", "finish"} /\ w.at = IF w.op = "solve" THEN 2 ELSE 4
  BY <1>1, <1>2, CallOfRequest
<1>4. UNCHANGED <<config, link, gate, steps, proxied, made, rotated, solved, misjudged>>
  BY DEF OpenSecret
<1>5. ASSUME NEW q \in Wizard, q.op = w.op, q.at = w.at, q.zone = w.zone, q.first = w.first,
             q.ok = w.ok, q.widget \in made, q.copy \in {w.copy, Empty}
      PROVE  /\ KnowsZone(q, q.at + 1, proxied)
             /\ KnowsWidget(q, q.at + 1, made, rotated, Credited)
  <2>1. Good(q.copy, proxied, made, Credited) /\ Good(q.first, proxied, made, Credited)
    BY <1>2, <1>5, EmptyRecord DEF Knows, KnowsZone, KnowsWidget, Good
  <2>2. KnowsZone(q, q.at + 1, proxied)
    BY <1>2, <1>3, <1>5, <2>1 DEF Knows, KnowsZone, Good
  <2>3. KnowsWidget(q, q.at + 1, made, rotated, Credited)
    BY <1>2, <1>3, <1>5, <2>1 DEF Knows, KnowsWidget, Good
  <2> QED
    BY <2>2, <2>3
<1>6. CASE w.sealing
  <2> DEFINE q == [w EXCEPT !.widget = w.copy.ts.widget, !.copy = Empty]
             p == [w.copy EXCEPT !.ts.old = FALSE]
  <2>1. w.copy.ts # None /\ w.copy \in Pending
    BY <1>2, <1>3, <1>6 DEF Knows, Sealing, Wizard
  <2>2. w.copy.ts \in Widget
    BY <2>1 DEF Pending
  <2>3. /\ p \in Pending /\ p.cf = w.copy.cf /\ p.ts \in Widget
        /\ p.ts.widget = w.copy.ts.widget /\ p.ts.verified = w.copy.ts.verified
    BY <2>1, <2>2 DEF Pending, Widget
  <2>4. pending' = p /\ crossed' = (crossed \/ pending # w.copy) /\ Onward(r, q)
    BY <1>6 DEF OpenSecret
  <2> HIDE DEF p, w
  <2>5. Good(w.copy, proxied, made, Credited)
    BY <1>2 DEF Good, Knows, KnowsZone, KnowsWidget
  <2>6. Good(p, proxied, made, Credited) /\ w.copy.ts.widget \in made
    BY <2>1, <2>3, <2>5 DEF Good, GoodZone, GoodWidget
  <2>7. /\ q \in Wizard /\ q.op = w.op /\ q.at = w.at /\ q.zone = w.zone /\ q.first = w.first
        /\ q.ok = w.ok /\ q.widget = w.copy.ts.widget /\ q.copy = Empty
    BY <1>2, <2>2, EmptyRecord DEF Wizard, Widget
  <2> HIDE DEF q
  <2>8. crossed' \in BOOLEAN
    BY <2>4, StoredShape
  <2> QED
    BY <1>2, <1>4, <1>5, <2>3, <2>4, <2>6, <2>7, <2>8, StoredShape, StoredOnward
<1>7. CASE ~w.sealing
  <2>1. UNCHANGED <<pending, crossed>>
    BY <1>7 DEF OpenSecret
  <2> DEFINE k == [w EXCEPT !.sealing = TRUE, !.copy = pending]
             q == [w EXCEPT !.widget = pending.ts.widget]
  <2>2. \/ Quit(r)
        \/ pending.ts # None /\ Onward(r, q)
        \/ pending.ts # None /\ wizards' = [wizards EXCEPT ![r] = k]
    BY <1>7 DEF OpenSecret, Quit
  <2> HIDE DEF w
  <2>3. CASE Quit(r)
    BY <1>4, <2>1, <2>3, StoredShape, StoredFail
  <2>4. CASE pending.ts # None /\ Onward(r, q)
    <3>1. pending.ts.widget \in made /\ pending.ts.widget \in Widgets
      BY <2>4, StoredShape DEF Good, GoodWidget, Widget
    <3>2. /\ q \in Wizard /\ q.op = w.op /\ q.at = w.at /\ q.zone = w.zone /\ q.first = w.first
          /\ q.ok = w.ok /\ q.widget = pending.ts.widget /\ q.copy = w.copy
      BY <1>2, <3>1 DEF Wizard
    <3> HIDE DEF q
    <3> QED
      BY <1>2, <1>4, <1>5, <2>1, <2>4, <3>1, <3>2, StoredShape, StoredOnward
  <2>5. CASE pending.ts # None /\ wizards' = [wizards EXCEPT ![r] = k]
    <3>1. /\ k \in Wizard /\ k.op = w.op /\ k.at = w.at /\ k.zone = w.zone /\ k.first = w.first
          /\ k.ok = w.ok /\ k.widget = w.widget /\ k.copy = pending
      BY <1>2, StoredShape DEF Wizard
    <3> HIDE DEF k
    <3>2. Sealing(k)
      BY <1>3, <2>5, <3>1 DEF Sealing
    <3>3. KnowsZone(k, k.at, proxied)
      BY <1>2, <3>1, StoredShape DEF Knows, KnowsZone, Good
    <3>4. KnowsWidget(k, k.at, made, rotated, Credited)
      BY <1>2, <1>3, <3>1, StoredShape DEF Knows, KnowsWidget, Good
    <3>5. Knows(k, proxied, made, rotated, Credited)
      BY <1>2, <3>1, <3>2, <3>3, <3>4 DEF Knows
    <3> QED
      BY <1>4, <2>1, <2>5, <3>1, <3>5, StoredShape, StoresOnly
  <2> QED
    BY <2>2, <2>3, <2>4, <2>5
<1> QED
  BY <1>6, <1>7

\* A request whose call at the provider adds to what is known.
LEMMA StoredRemote ==
  ASSUME StoredInv, NEW r \in Wizards, NEW q \in Wizard, q.at \in 1 .. LastCall(q.op),
         Onward(r, q),
         UNCHANGED <<config, pending, link, gate, steps, misjudged, crossed>>,
         proxied' \in SUBSET Zones, made' \in SUBSET Widgets, rotated' \in SUBSET Widgets,
         solved' \in SUBSET Widgets,
         proxied \subseteq proxied', made \subseteq made', rotated \subseteq rotated',
         solved \subseteq solved',
         KnowsZone(q, q.at + 1, proxied'), KnowsWidget(q, q.at + 1, made', rotated', Credited')
  PROVE  StoredInv'
<1>1. PICK k \in Wizard \cup {Idle} :
        /\ wizards' = [wizards EXCEPT ![r] = k]
        /\ k # Idle => Knows(k, proxied', made', rotated', Credited')
  BY GoesOn
<1>2. Credited \subseteq Credited' /\ (Alone(made') => misjudged' = {})
  BY StoredShape DEF Credited, Alone
<1>3. Good(pending', proxied', made', Credited') /\ Opens(gate', made', rotated', Credited')
  <2>1. Good(pending, proxied, made, Credited) /\ Opens(gate, made, rotated, Credited)
    BY DEF StoredInv
  <2>2. Good(pending, proxied', made', Credited')
    BY <1>2, <2>1, KnowledgeLasts
  <2>3. Opens(gate, made', rotated', Credited')
    BY <1>2, <2>1, GateLasts
  <2>4. pending' = pending /\ gate' = gate
    OBVIOUS
  <2> QED
    BY <2>2, <2>3, <2>4
<1>4. /\ link \in Zones \cup {None} /\ gate \in [key: Widgets, secret: Widgets] \cup {None}
      /\ link # None => link \in proxied
  BY DEF StoredInv, SetupTypeOK
<1> QED
  BY <1>1, <1>2, <1>3, <1>4, StoredShape, OneWizard

LEMMA StoredCallZone ==
  ASSUME StoredInv, NEW r \in Wizards, CallZone(r)
  PROVE  StoredInv'
<1> DEFINE w == wizards[r]
           z == IF w.op = "zone" THEN w.zone ELSE w.first.cf.zone
<1>1. w # Idle /\ Path(w.op)[w.at] = "remote" /\ w.op \in {"zone", "fix"}
  BY DEF CallZone, SetupAt
<1>2. /\ w \in Wizard /\ w.op \in Ops /\ w.at \in 1 .. LastCall(w.op)
      /\ Knows(w, proxied, made, rotated, Credited)
  BY <1>1, WizardUnderWay
<1>3. w.at = IF w.op = "zone" THEN 3 ELSE 4
  BY <1>1, <1>2, CallOfRequest
<1>4. w.op = "fix" => w.first.cf # None /\ w.first.cf \in Access
  BY <1>2, <1>3 DEF Knows, KnowsZone, Wizard, Pending
<1>5. z # None /\ z \in Zones
  BY <1>1, <1>2, <1>4 DEF CallZone, Access, Wizard
<1>6. PICK ok \in BOOLEAN :
        /\ proxied' = IF ok THEN proxied \cup {z} ELSE proxied
        /\ Onward(r, [w EXCEPT !.ok = ok])
  BY DEF CallZone
<1>7. UNCHANGED <<config, pending, link, gate, steps, made, rotated, solved, misjudged, crossed>>
  BY DEF CallZone
<1> DEFINE q == [w EXCEPT !.ok = ok]
<1>8. proxied' \in SUBSET Zones /\ proxied \subseteq proxied'
      /\ (ok => z \in proxied')
  BY <1>5, <1>6 DEF StoredInv, SetupTypeOK
<1>9. Knows(w, proxied', made, rotated, Credited)
  BY <1>2, <1>8, KnowledgeLasts
<1>10. /\ q \in Wizard /\ q.op = w.op /\ q.at = w.at /\ q.zone = w.zone /\ q.first = w.first
       /\ q.copy = w.copy /\ q.ok = ok /\ q.widget = w.widget
  <2> HIDE DEF w
  <2> QED
    BY <1>2, <1>6 DEF Wizard
<1>11. z = IF w.op = "zone" THEN w.zone ELSE w.first.cf.zone
  OBVIOUS
<1>12. Onward(r, q) /\ made' = made /\ rotated' = rotated /\ Credited' = Credited
  BY <1>6, <1>7 DEF Credited
<1> HIDE DEF q, w, z
<1>13. KnowsZone(q, q.at + 1, proxied')
  BY <1>1, <1>3, <1>4, <1>5, <1>8, <1>9, <1>10, <1>11 DEF Knows, KnowsZone
<1>14. KnowsWidget(q, q.at + 1, made', rotated', Credited')
  BY <1>1, <1>9, <1>10, <1>12 DEF Knows, KnowsWidget
<1>15. made' \in SUBSET Widgets /\ rotated' \in SUBSET Widgets /\ solved' \in SUBSET Widgets
  BY <1>7, StoredShape
<1> QED
  BY <1>2, <1>7, <1>8, <1>10, <1>12, <1>13, <1>14, <1>15, StoredRemote

LEMMA StoredCallOption ==
  ASSUME StoredInv, NEW r \in Wizards, CallOption(r)
  PROVE  StoredInv'
<1> DEFINE w == wizards[r]
           q == IF w.op = "option" THEN [w EXCEPT !.ok = w.first.cf.ok] ELSE w
<1>1. w # Idle /\ Path(w.op)[w.at] = "remote" /\ w.op \in {"token", "option"}
  BY DEF CallOption, SetupAt
<1>2. /\ w \in Wizard /\ w.op \in Ops /\ w.at \in 1 .. LastCall(w.op)
      /\ Knows(w, proxied, made, rotated, Credited)
  BY <1>1, WizardUnderWay
<1>3. w.at = IF w.op = "token" THEN 2 ELSE 4
  BY <1>1, <1>2, CallOfRequest
<1>4. w.op = "option" => w.first.cf # None /\ w.first.cf \in Access /\ w.first.cf.ok \in BOOLEAN
  BY <1>2, <1>3 DEF Knows, KnowsZone, Wizard, Pending, Access
<1>5. /\ w.op = "option" => w.first.cf.zone # None
      /\ Onward(r, q)
      /\ UNCHANGED <<config, pending, link, gate, steps, proxied, made, rotated, solved,
                     misjudged, crossed>>
  BY DEF CallOption
<1> HIDE DEF w
<1>6. /\ q \in Wizard /\ q.op = w.op /\ q.at = w.at /\ q.zone = w.zone /\ q.first = w.first
      /\ q.copy = w.copy /\ q.widget = w.widget
      /\ q.ok = IF w.op = "option" THEN w.first.cf.ok ELSE w.ok
  BY <1>2, <1>4 DEF Wizard
<1> HIDE DEF q
<1>7. GoodZone(w.first, proxied)
  BY <1>2 DEF Knows, KnowsZone
<1>8. KnowsZone(q, q.at + 1, proxied)
  BY <1>1, <1>2, <1>3, <1>4, <1>5, <1>6, <1>7 DEF Knows, KnowsZone, GoodZone
<1>9. KnowsWidget(q, q.at + 1, made, rotated, Credited)
  BY <1>1, <1>2, <1>6 DEF Knows, KnowsWidget
<1> QED
  BY <1>2, <1>5, <1>6, <1>8, <1>9, StoredShape, StoredOnward

LEMMA StoredCallWidget ==
  ASSUME StoredInv, NEW r \in Wizards, NEW v \in Widgets, CallWidget(r, v)
  PROVE  StoredInv'
<1> DEFINE w == wizards[r]
           q == [w EXCEPT !.widget = v]
<1>1. w # Idle /\ Path(w.op)[w.at] = "remote" /\ w.op \in {"provision", "rotate"}
  BY DEF CallWidget, SetupAt
<1>2. /\ w \in Wizard /\ w.op \in Ops /\ w.at \in 1 .. LastCall(w.op)
      /\ Knows(w, proxied, made, rotated, Credited)
  BY <1>1, WizardUnderWay
<1>3. w.at = IF w.op = "rotate" THEN 2 ELSE 4
  BY <1>1, <1>2, CallOfRequest
<1>4. /\ IF w.op = "provision" THEN made' = made \cup {v} /\ UNCHANGED rotated
                               ELSE rotated' = rotated \cup {v} /\ UNCHANGED made
      /\ Onward(r, q)
      /\ UNCHANGED <<config, pending, link, gate, steps, proxied, solved, misjudged, crossed>>
  BY DEF CallWidget
<1>5. Credited' = Credited
  BY <1>4 DEF Credited
<1> HIDE DEF w
<1>6. /\ made' \in SUBSET Widgets /\ rotated' \in SUBSET Widgets /\ solved' \in SUBSET Widgets
      /\ proxied' \in SUBSET Zones
      /\ made \subseteq made' /\ rotated \subseteq rotated'
      /\ proxied \subseteq proxied' /\ solved \subseteq solved'
  BY <1>4, StoredShape DEF StoredInv, SetupTypeOK
<1>7. Knows(w, proxied, made', rotated', Credited)
  BY <1>2, <1>6, KnowledgeLasts
<1>8. /\ q \in Wizard /\ q.op = w.op /\ q.at = w.at /\ q.zone = w.zone /\ q.first = w.first
      /\ q.copy = w.copy /\ q.ok = w.ok /\ q.widget = v
  BY <1>2 DEF Wizard
<1>9. w.op = "provision" => w.first.ts = None
  <2>1. SUFFICES ASSUME w.op = "provision" PROVE w.first.ts = None
    OBVIOUS
  <2> QED
    BY <1>2, <1>3, <2>1 DEF Knows, KnowsWidget
<1> HIDE DEF q
<1>10. KnowsZone(q, q.at + 1, proxied)
  BY <1>1, <1>2, <1>3, <1>8 DEF Knows, KnowsZone
<1>11. KnowsWidget(q, q.at + 1, made', rotated', Credited)
  BY <1>1, <1>3, <1>4, <1>7, <1>8, <1>9 DEF Knows, KnowsWidget
<1> QED
  BY <1>2, <1>4, <1>5, <1>6, <1>8, <1>10, <1>11, StoredRemote

LEMMA StoredChallenge ==
  ASSUME StoredInv, NEW r \in Wizards, CallChallenge(r)
  PROVE  StoredInv'
<1> DEFINE w == wizards[r]
<1>1. w # Idle /\ Path(w.op)[w.at] = "remote" /\ w.op = "solve"
  BY DEF CallChallenge, SetupAt
<1>2. /\ w \in Wizard /\ w.op \in Ops /\ w.at \in 1 .. LastCall(w.op)
      /\ Knows(w, proxied, made, rotated, Credited)
  BY <1>1, WizardUnderWay
<1>3. w.at = 4
  BY <1>1, <1>2, CallOfRequest
<1>4. w.widget \in made
  BY <1>1, <1>2, <1>3 DEF Knows, KnowsWidget
<1>5. /\ solved' = solved \cup {w.widget} /\ Onward(r, w)
      /\ UNCHANGED <<config, pending, link, gate, steps, proxied, made, rotated,
                    misjudged, crossed>>
  BY DEF CallChallenge
<1> HIDE DEF w
<1>6. /\ made' \in SUBSET Widgets /\ rotated' \in SUBSET Widgets /\ solved' \in SUBSET Widgets
      /\ proxied' \in SUBSET Zones
      /\ made \subseteq made' /\ rotated \subseteq rotated'
      /\ proxied \subseteq proxied' /\ solved \subseteq solved'
  BY <1>4, <1>5, StoredShape DEF StoredInv, SetupTypeOK
<1>7. Credited \subseteq Credited' /\ w.widget \in Credited'
  BY <1>5 DEF Credited
<1>8. Knows(w, proxied, made, rotated, Credited')
  BY <1>2, <1>7, KnowledgeLasts
<1>9. KnowsZone(w, w.at + 1, proxied)
  BY <1>1, <1>8 DEF Knows, KnowsZone
<1>10. KnowsWidget(w, w.at + 1, made, rotated, Credited')
  BY <1>1, <1>3, <1>4, <1>5, <1>7, <1>8 DEF Knows, KnowsWidget
<1> QED
  BY <1>2, <1>5, <1>6, <1>9, <1>10, StoredRemote

LEMMA StoredReadAgain ==
  ASSUME StoredInv, NEW r \in Wizards, ReadAgain(r)
  PROVE  StoredInv'
<1> DEFINE w == wizards[r]
<1>1. w # Idle /\ Path(w.op)[w.at] = "read"
  BY DEF ReadAgain, SetupAt
<1>2. /\ w \in Wizard /\ w.op \in Ops /\ w.at \in 1 .. LastCall(w.op)
      /\ Knows(w, proxied, made, rotated, Credited)
  BY <1>1, WizardUnderWay
<1>3. w.op \notin {"finish", "rotate", "reset"} /\ w.at = LastCall(w.op) - 1
  BY <1>1, <1>2, CallOfRequest
<1>4. /\ w.op = "zone" => w.at = 4
      /\ w.op = "token" => w.at = 3
      /\ w.op \in {"fix", "option", "provision", "solve"} => w.at = 5
  BY <1>3 DEF LastCall
<1>5. /\ UNCHANGED <<config, pending, link, gate, steps, proxied, made, rotated, solved, misjudged>>
      /\ crossed' \in BOOLEAN
  BY StoredShape DEF ReadAgain
<1>6. PICK read \in Reads :
        \/ Quit(r)
        \/ Onward(r, [w EXCEPT !.copy = read]) /\ (w.op = "solve" => read.ts # None)
  BY DEF ReadAgain
<1>7. read \in Pending /\ Good(read, proxied, made, Credited)
  BY ReadsGood
<1> DEFINE q == [w EXCEPT !.copy = read]
<1> HIDE DEF w
<1>8. /\ q \in Wizard /\ q.op = w.op /\ q.at = w.at /\ q.zone = w.zone /\ q.first = w.first
      /\ q.copy = read /\ q.ok = w.ok /\ q.widget = w.widget
  BY <1>2, <1>7 DEF Wizard
<1> HIDE DEF q
<1>9. CASE Quit(r)
  BY <1>5, <1>9, StoredFail
<1>10. CASE Onward(r, q) /\ (w.op = "solve" => read.ts # None)
  <2>1. KnowsZone(q, q.at + 1, proxied)
    BY <1>2, <1>3, <1>4, <1>7, <1>8 DEF Knows, KnowsZone, Good
  <2>2. KnowsWidget(q, q.at + 1, made, rotated, Credited)
    BY <1>2, <1>3, <1>4, <1>7, <1>8, <1>10 DEF Knows, KnowsWidget, Good
  <2> QED
    BY <1>2, <1>5, <1>8, <1>10, <2>1, <2>2, StoredShape, StoredOnward
<1> QED
  BY <1>6, <1>9, <1>10 DEF q

\* What is put back rests on what the request knows.
LEMMA WrittenGood ==
  ASSUME NEW q \in Wizard, NEW px, NEW mk, NEW rt, NEW sv, Knows(q, px, mk, rt, sv),
         Mistaken(q) \subseteq sv, q.op \notin {"finish", "rotate", "reset"},
         q.at = LastCall(q.op), mk \subseteq Widgets
  PROVE  Written(q) \in Pending /\ Good(Written(q), px, mk, sv)
<1>1. /\ q.copy \in Pending /\ q.first \in Pending
      /\ q.zone \in Zones \cup {None} /\ q.ok \in BOOLEAN
      /\ q.widget \in Widgets \cup {None} /\ q.op \in Ops
  BY DEF Wizard
<1>2. /\ q.copy.cf \in Access \cup {None} /\ q.copy.ts \in Widget \cup {None}
      /\ q.first.cf \in Access \cup {None}
  BY <1>1 DEF Pending
<1>3. GoodZone(q.copy, px) /\ GoodWidget(q.copy, mk, sv) /\ GoodZone(q.first, px)
  BY DEF Knows, KnowsZone, KnowsWidget
<1>4. ASSUME NEW a \in Access, a.ok => a.zone # None /\ a.zone \in px
      PROVE  /\ [q.copy EXCEPT !.cf = a] \in Pending
             /\ Good([q.copy EXCEPT !.cf = a], px, mk, sv)
  <2> DEFINE p == [q.copy EXCEPT !.cf = a]
  <2>1. p \in Pending /\ p.cf = a /\ p.ts = q.copy.ts
    BY <1>1, <1>4 DEF Pending
  <2> HIDE DEF p
  <2>2. Good(p, px, mk, sv)
    BY <1>3, <1>4, <2>1 DEF Good, GoodZone, GoodWidget
  <2> QED
    BY <2>1, <2>2 DEF p
<1>5. ASSUME NEW t \in Widget, t.widget \in mk, t.verified => t.widget \in sv
      PROVE  /\ [q.copy EXCEPT !.ts = t] \in Pending
             /\ Good([q.copy EXCEPT !.ts = t], px, mk, sv)
  <2> DEFINE p == [q.copy EXCEPT !.ts = t]
  <2>1. p \in Pending /\ p.ts = t /\ p.cf = q.copy.cf
    BY <1>1, <1>5 DEF Pending
  <2> HIDE DEF p
  <2>2. Good(p, px, mk, sv)
    BY <1>3, <1>5, <2>1 DEF Good, GoodZone, GoodWidget
  <2> QED
    BY <2>1, <2>2 DEF p
<1>6. CASE q.op = "token"
  <2>1. CASE q.copy.cf = None
    <3> DEFINE a == [zone |-> None, ok |-> FALSE, old |-> FALSE]
    <3>1. a \in Access /\ ~a.ok
      BY DEF Access
    <3>2. Written(q) = [q.copy EXCEPT !.cf = a]
      BY <1>6, <2>1 DEF Written
    <3> HIDE DEF a
    <3> QED
      BY <1>4, <3>1, <3>2
  <2>2. CASE q.copy.cf # None
    <3> DEFINE a == [q.copy.cf EXCEPT !.old = FALSE]
    <3>1. a \in Access /\ a.ok = q.copy.cf.ok /\ a.zone = q.copy.cf.zone
      BY <1>2, <2>2 DEF Access
    <3>2. Written(q) = [q.copy EXCEPT !.cf = a]
      BY <1>6, <2>2 DEF Written
    <3> HIDE DEF a
    <3>3. a.ok => a.zone # None /\ a.zone \in px
      BY <1>3, <2>2, <3>1 DEF GoodZone
    <3> QED
      BY <1>4, <3>1, <3>2, <3>3
  <2> QED
    BY <2>1, <2>2
<1>7. CASE q.op = "zone"
  <2> DEFINE a == [zone |-> q.zone, ok |-> q.ok, old |-> FALSE]
  <2>1. a \in Access /\ a.ok = q.ok /\ a.zone = q.zone
    BY <1>1 DEF Access
  <2>2. Written(q) = [q.copy EXCEPT !.cf = a]
    BY <1>7 DEF Written
  <2> HIDE DEF a
  <2>3. a.ok => a.zone # None /\ a.zone \in px
    BY <1>7, <2>1 DEF Knows, KnowsZone
  <2> QED
    BY <1>4, <2>1, <2>2, <2>3
<1>8. CASE q.op \in {"fix", "option"}
  <2> DEFINE a == [zone |-> q.first.cf.zone, ok |-> q.ok, old |-> FALSE]
  <2>1. q.at = 6
    BY <1>8 DEF LastCall
  <2>2. q.first.cf # None /\ (q.ok => q.first.cf.zone # None /\ q.first.cf.zone \in px)
    BY <1>8, <2>1 DEF Knows, KnowsZone
  <2>3. a \in Access /\ a.ok = q.ok /\ a.zone = q.first.cf.zone
    BY <1>1, <1>2, <2>2 DEF Access
  <2>4. Written(q) = [q.copy EXCEPT !.cf = a]
    BY <1>8 DEF Written, Back
  <2> HIDE DEF a
  <2> QED
    BY <1>4, <2>2, <2>3, <2>4
<1>9. CASE q.op = "provision"
  <2> DEFINE t == [widget |-> q.widget, verified |-> FALSE, old |-> FALSE]
  <2>1. q.at = 6
    BY <1>9 DEF LastCall
  <2>2. q.widget \in mk
    BY <1>9, <2>1 DEF Knows, KnowsWidget
  <2>3. t \in Widget /\ t.widget = q.widget /\ ~t.verified
    BY <2>2 DEF Widget
  <2>4. Written(q) = [q.copy EXCEPT !.ts = t]
    BY <1>9 DEF Written
  <2> HIDE DEF t
  <2> QED
    BY <1>5, <2>2, <2>3, <2>4
<1>10. CASE q.op = "solve"
  <2> DEFINE t == [q.copy.ts EXCEPT !.verified = TRUE]
  <2>1. q.at = 6
    BY <1>10 DEF LastCall
  <2>2. q.copy.ts # None /\ q.widget \in mk /\ q.widget \in sv
    BY <1>10, <2>1 DEF Knows, KnowsWidget
  <2>3. t \in Widget /\ t.widget = q.copy.ts.widget
    BY <1>2, <2>2 DEF Widget
  <2>4. Written(q) = [q.copy EXCEPT !.ts = t]
    BY <1>10 DEF Written
  <2> HIDE DEF t
  <2>5. t.widget \in mk /\ t.widget \in sv
    BY <1>3, <1>10, <2>2, <2>3 DEF GoodWidget, Mistaken
  <2> QED
    BY <1>5, <2>3, <2>4, <2>5
<1> QED
  BY <1>1, <1>6, <1>7, <1>8, <1>9, <1>10 DEF Ops

LEMMA StoredPut ==
  ASSUME StoredInv, NEW r \in Wizards, PutPending(r)
  PROVE  StoredInv'
<1> DEFINE w == wizards[r]
<1>1. w # Idle /\ Path(w.op)[w.at] = "put"
  BY DEF PutPending, SetupAt
<1>2. /\ w \in Wizard /\ w.op \in Ops /\ w.at \in 1 .. LastCall(w.op)
      /\ Knows(w, proxied, made, rotated, Credited)
  BY <1>1, WizardUnderWay
<1>3. w.op \notin {"finish", "rotate", "reset"} /\ w.at = LastCall(w.op)
  BY <1>1, <1>2, CallOfRequest
<1>4. /\ pending' = Written(w) /\ Onward(r, w)
      /\ UNCHANGED <<config, link, gate, steps, proxied, made, rotated, solved>>
      /\ misjudged' = misjudged \cup Mistaken(w)
      /\ crossed' \in BOOLEAN
  BY StoredShape DEF PutPending
<1> HIDE DEF w
<1>5. Mistaken(w) \subseteq Widgets /\ (Alone(made) => Mistaken(w) = {})
  <2>1. CASE w.op # "solve"
    BY <2>1 DEF Mistaken
  <2>2. CASE w.op = "solve"
    <3>1. w.at = 6
      BY <1>3, <2>2 DEF LastCall
    <3>2. w.copy.ts # None /\ w.copy.ts.widget \in made /\ w.widget \in made
      BY <1>2, <2>2, <3>1 DEF Knows, KnowsWidget, GoodWidget
    <3> QED
      BY <3>2, StoredShape DEF Mistaken, Alone
  <2> QED
    BY <2>1, <2>2
<1>6. /\ Credited \subseteq Credited' /\ Mistaken(w) \subseteq Credited'
      /\ misjudged' \in SUBSET Widgets /\ (Alone(made) => misjudged' = {})
  BY <1>4, <1>5, StoredShape DEF Credited
<1>7. Knows(w, proxied, made, rotated, Credited')
  BY <1>2, <1>6, KnowledgeLasts
<1>8. pending' \in Pending /\ Good(pending', proxied, made, Credited')
  BY <1>2, <1>3, <1>4, <1>6, <1>7, WrittenGood, StoredShape
<1>9. ~(w.at < LastCall(w.op))
  BY <1>2, <1>3, LastCallSmall
<1>10. PICK k \in Wizard \cup {Idle} :
         /\ wizards' = [wizards EXCEPT ![r] = k]
         /\ k # Idle => Knows(k, proxied, made, rotated, Credited')
  BY <1>2, <1>4, <1>9, GoesOn
<1>11. /\ link \in Zones \cup {None} /\ gate \in [key: Widgets, secret: Widgets] \cup {None}
       /\ link # None => link \in proxied
       /\ Opens(gate, made, rotated, Credited')
  BY <1>6, GateLasts DEF StoredInv, SetupTypeOK
<1> QED
  BY <1>4, <1>6, <1>8, <1>10, <1>11, StoredShape, OneWizard

-----------------------------------------------------------------------------
\* What Finish, a rotation and a reset promote.
LEMMA StoredPromotes ==
  ASSUME StoredInv, NEW r \in Wizards,
         SetConfig(r) \/ SetLink(r) \/ SetWidget(r) \/ ClearPending(r)
  PROVE  StoredInv'
<1> DEFINE w == wizards[r]
<1>1. w # Idle
  BY DEF SetConfig, SetLink, SetWidget, ClearPending, SetupAt
<1>2. /\ w \in Wizard /\ w.op \in Ops /\ w.at \in 1 .. LastCall(w.op)
      /\ Knows(w, proxied, made, rotated, Credited)
  BY <1>1, WizardUnderWay
<1>3. /\ w.op \in {"finish", "rotate", "reset"}
      /\ w.op = "finish" => w.at >= 5
      /\ w.op = "rotate" => w.at = 3
      /\ SetLink(r) => w.op # "rotate"
  <2>1. Path(w.op)[w.at] \in {"done", "link", "widget", "clear"}
        /\ (SetLink(r) => Path(w.op)[w.at] = "link")
    BY DEF SetConfig, SetLink, SetWidget, ClearPending, SetupAt
  <2>2. LastCall("finish") = 8
    BY DEF LastCall
  <2> QED
    BY <1>2, <2>1, <2>2, CallOfRequest
<1>4. Onward(r, w)
  BY DEF SetConfig, SetLink, SetWidget, ClearPending
<1>5. UNCHANGED <<steps, proxied, made, rotated, solved, misjudged>>
  BY DEF SetConfig, SetLink, SetWidget, ClearPending
<1>6. KnowsZone(w, w.at + 1, proxied) /\ KnowsWidget(w, w.at + 1, made, rotated, Credited)
  <2> HIDE DEF w
  <2>1. KnowsZone(w, w.at + 1, proxied)
    BY <1>2, <1>3 DEF Knows, KnowsZone
  <2>2. KnowsWidget(w, w.at + 1, made, rotated, Credited)
    BY <1>2, <1>3 DEF Knows, KnowsWidget
  <2> QED
    BY <2>1, <2>2
<1>7. w.op = "finish" => /\ w.first.cf # None /\ w.first.cf.zone # None /\ w.first.cf.ok
                         /\ w.first.ts # None /\ w.first.ts.verified
                         /\ w.first.cf \in Access /\ w.first.ts \in Widget
                         /\ w.widget \in made
  BY <1>2, <1>3 DEF Knows, KnowsZone, KnowsWidget, Ready, Wizard, Pending
<1>8. link' \in Zones \cup {None} /\ (link' # None => link' \in proxied)
  <2>1. CASE SetLink(r) /\ w.op = "finish"
    <3>1. link' = w.first.cf.zone
      BY <2>1 DEF SetLink
    <3>2. w.first.cf.zone \in proxied /\ w.first.cf.zone \in Zones
      BY <1>2, <1>7, <2>1 DEF Knows, KnowsZone, GoodZone, Access
    <3> QED
      BY <3>1, <3>2
  <2>2. CASE SetLink(r) /\ w.op # "finish"
    BY <2>2 DEF SetLink
  <2>3. CASE ~SetLink(r)
    <3>1. link' = link
      BY <2>3 DEF SetConfig, SetWidget, ClearPending
    <3> QED
      BY <3>1 DEF StoredInv, SetupTypeOK
  <2> QED
    BY <2>1, <2>2, <2>3
<1>9. /\ gate' \in [key: Widgets, secret: Widgets] \cup {None}
      /\ Opens(gate', made, rotated, Credited)
  <2>1. CASE SetWidget(r) /\ w.op = "finish"
    <3>1. gate' = [key |-> w.first.ts.widget, secret |-> w.widget]
      BY <2>1 DEF SetWidget
    <3>2. w.first.ts.widget \in made /\ w.first.ts.widget \in Credited
      BY <1>2, <1>7, <2>1 DEF Knows, KnowsWidget, GoodWidget
    <3>3. Alone(made) => w.first.ts.widget = w.widget
      BY <1>7, <2>1, <3>2 DEF Alone
    <3> QED
      BY <1>7, <2>1, <3>1, <3>2, <3>3, StoredShape DEF Opens
  <2>2. CASE SetWidget(r) /\ w.op = "rotate"
    <3>1. gate' = [key |-> w.widget, secret |-> w.widget]
      BY <2>2 DEF SetWidget
    <3>2. w.widget \in rotated
      BY <1>2, <1>3, <2>2 DEF Knows, KnowsWidget
    <3> QED
      BY <3>1, <3>2, StoredShape DEF Opens
  <2>3. CASE SetWidget(r) /\ w.op = "reset"
    BY <2>3 DEF SetWidget, Opens
  <2>4. CASE ~SetWidget(r)
    <3>1. gate' = gate
      BY <2>4 DEF SetConfig, SetLink, ClearPending
    <3> QED
      BY <3>1 DEF StoredInv, SetupTypeOK
  <2> QED
    BY <1>3, <2>1, <2>2, <2>3, <2>4
<1>10. pending' \in Pending /\ Good(pending', proxied, made, Credited)
  BY StoredShape, EmptyRecord DEF SetConfig, SetLink, SetWidget, ClearPending
<1>11. config' \in {"none", "claimed", "done"} /\ crossed' \in BOOLEAN
  BY StoredShape DEF SetConfig, SetLink, SetWidget, ClearPending
<1> HIDE DEF w
<1>12. PICK k \in Wizard \cup {Idle} :
         /\ wizards' = [wizards EXCEPT ![r] = k]
         /\ k # Idle => Knows(k, proxied, made, rotated, Credited)
  BY <1>2, <1>4, <1>6, GoesOn
<1>13. Credited' = Credited
  BY <1>5 DEF Credited
<1> QED
  BY <1>5, <1>8, <1>9, <1>10, <1>11, <1>12, <1>13, StoredShape, OneWizard

LEMMA StoredElsewhere ==
  ASSUME StoredInv, ClaimAgain \/ Redeploy
  PROVE  StoredInv'
<1>1. UNCHANGED <<link, gate, wizards, steps, proxied, made, rotated, solved, misjudged>>
  BY DEF ClaimAgain, Redeploy
<1>2. config' \in {"none", "claimed", "done"} /\ crossed' \in BOOLEAN
  BY DEF ClaimAgain, Redeploy, StoredInv, SetupTypeOK
<1>3. pending' \in Pending /\ Good(pending', proxied, made, Credited)
  <2>1. CASE ~Redeploy
    <3>1. pending' = pending
      BY <2>1 DEF ClaimAgain
    <3> QED
      BY <3>1, StoredShape
  <2>2. CASE Redeploy
    <3> DEFINE a == IF pending.cf = None THEN None ELSE [pending.cf EXCEPT !.old = TRUE]
               t == IF pending.ts = None THEN None ELSE [pending.ts EXCEPT !.old = TRUE]
    <3>1. pending' = [cf |-> a, ts |-> t]
      BY <2>2 DEF Redeploy
    <3>2. /\ a \in Access \cup {None}
          /\ a # None => /\ pending.cf # None
                         /\ a.ok = pending.cf.ok /\ a.zone = pending.cf.zone
      BY StoredShape DEF Access
    <3>3. /\ t \in Widget \cup {None}
          /\ t # None => /\ pending.ts # None
                         /\ t.widget = pending.ts.widget /\ t.verified = pending.ts.verified
      BY StoredShape DEF Widget
    <3> HIDE DEF a, t
    <3>4. pending' \in Pending /\ pending'.cf = a /\ pending'.ts = t
      BY <3>1, <3>2, <3>3 DEF Pending
    <3> QED
      BY <3>2, <3>3, <3>4, StoredShape DEF Good, GoodZone, GoodWidget
  <2> QED
    BY <2>1, <2>2
<1>4. Credited' = Credited
  BY <1>1 DEF Credited
<1> QED
  BY <1>1, <1>2, <1>3, <1>4 DEF StoredInv, SetupTypeOK

LEMMA StoredStarts == SetupInit => StoredInv
<1>1. SUFFICES ASSUME SetupInit PROVE StoredInv
  OBVIOUS
<1>2. /\ config = "claimed" /\ link = None /\ gate = None
      /\ wizards = [r \in Wizards |-> Idle] /\ steps = 0 /\ rotated = {} /\ misjudged = {}
      /\ crossed = FALSE
  BY <1>1 DEF SetupInit
<1>3. /\ pending \in Pending /\ Good(pending, proxied, made, Credited)
      /\ proxied \in SUBSET Zones /\ made \in SUBSET Widgets /\ solved \in SUBSET Widgets
  <2>1. CASE pending = Empty /\ proxied = {} /\ made = {} /\ solved = {}
    BY <2>1, EmptyRecord
  <2>2. ASSUME NEW z \in Zones, NEW w \in Widgets, NEW verified \in BOOLEAN,
               pending = [cf |-> [zone |-> z, ok |-> TRUE, old |-> FALSE],
                          ts |-> [widget |-> w, verified |-> verified, old |-> FALSE]],
               proxied = {z}, made = {w}, solved = IF verified THEN {w} ELSE {}
        PROVE  /\ pending \in Pending /\ Good(pending, proxied, made, Credited)
               /\ proxied \in SUBSET Zones /\ made \in SUBSET Widgets
               /\ solved \in SUBSET Widgets
    <3>1. /\ pending.cf = [zone |-> z, ok |-> TRUE, old |-> FALSE]
          /\ pending.ts = [widget |-> w, verified |-> verified, old |-> FALSE]
      BY <2>2
    <3>2. pending.cf \in Access /\ pending.cf.zone = z
      BY <3>1 DEF Access
    <3>3. pending.ts \in Widget /\ pending.ts.widget = w /\ pending.ts.verified = verified
      BY <3>1 DEF Widget
    <3>4. pending \in Pending
      BY <2>2, <3>1, <3>2, <3>3 DEF Pending
    <3>5. GoodZone(pending, proxied)
      BY <2>2, <3>2, SetupAssumption DEF GoodZone
    <3>6. GoodWidget(pending, made, Credited)
      BY <2>2, <3>3 DEF GoodWidget, Credited
    <3> QED
      BY <2>2, <3>4, <3>5, <3>6 DEF Good
  <2> QED
    BY <1>1, <2>1, <2>2 DEF SetupInit
<1>4. SetupTypeOK
  <2>1. 0 \in 0 .. MaxWizards
    BY SetupAssumption
  <2> QED
    BY <1>2, <1>3, <2>1 DEF SetupTypeOK
<1>5. Opens(gate, made, rotated, Credited)
  BY <1>2 DEF Opens
<1> QED
  BY <1>2, <1>3, <1>4, <1>5 DEF StoredInv

LEMMA StoredInductive == StoredInv /\ [SetupNext]_setupVars => StoredInv'
<1>1. SUFFICES ASSUME StoredInv, [SetupNext]_setupVars PROVE StoredInv'
  OBVIOUS
<1>2. CASE UNCHANGED setupVars
  <2>1. UNCHANGED <<config, pending, link, gate, wizards, steps, proxied, made, rotated,
                    solved, misjudged, crossed>>
    BY <1>2 DEF setupVars
  <2> QED
    BY <1>1, <2>1 DEF StoredInv, SetupTypeOK, Credited
<1>3. ASSUME NEW r \in Wizards,
             \/ \E op \in Ops, z \in Zones \cup {None} : Begin(r, op, z)
             \/ SetupGate(r) \/ ReadFirst(r) \/ OpenToken(r) \/ OpenSecret(r)
             \/ CallZone(r) \/ CallOption(r) \/ \E w \in Widgets : CallWidget(r, w)
             \/ CallChallenge(r) \/ ReadAgain(r) \/ PutPending(r)
             \/ SetConfig(r) \/ SetLink(r) \/ SetWidget(r) \/ ClearPending(r)
             \/ Fail(r)
      PROVE  StoredInv'
  <2>1. CASE Fail(r)
    <3>1. /\ Quit(r) /\ crossed' \in BOOLEAN
          /\ UNCHANGED <<config, pending, link, gate, steps, proxied, made, rotated, solved,
                         misjudged>>
      BY <1>1, <2>1, StoredShape DEF Fail
    <3> QED
      BY <1>1, <3>1, StoredFail
  <2>2. CASE \E op \in Ops, z \in Zones \cup {None} : Begin(r, op, z)
    BY <1>1, <2>2, StoredBegin
  <2>3. CASE SetupGate(r) \/ ReadFirst(r) \/ OpenToken(r) \/ OpenSecret(r)
    BY <1>1, <2>3, StoredGate, StoredReadFirst, StoredToken, StoredSecret
  <2>4. CASE \/ CallZone(r) \/ CallOption(r) \/ CallChallenge(r)
             \/ \E w \in Widgets : CallWidget(r, w)
    BY <1>1, <2>4, StoredCallZone, StoredCallOption, StoredCallWidget, StoredChallenge
  <2>5. CASE ReadAgain(r) \/ PutPending(r)
    BY <1>1, <2>5, StoredReadAgain, StoredPut
  <2>6. CASE SetConfig(r) \/ SetLink(r) \/ SetWidget(r) \/ ClearPending(r)
    BY <1>1, <2>6, StoredPromotes
  <2> QED
    BY <1>3, <2>1, <2>2, <2>3, <2>4, <2>5, <2>6
<1>4. CASE ClaimAgain \/ Redeploy
  BY <1>1, <1>4, StoredElsewhere
<1> QED
  BY <1>1, <1>2, <1>3, <1>4 DEF SetupNext

\* The records behind the wizard, the zones and the requests keep their shape.
THEOREM SetupTyped == SetupSpec => []SetupTypeOK
<1>1. StoredInv => SetupTypeOK
  BY DEF StoredInv
<1> QED
  BY <1>1, StoredStarts, StoredInductive, PTL DEF SetupSpec

\* However the requests of the wizard overlap, are cut short or undo each other's
\* records, the zone that is linked is one whose hostname was seen proxied
\* (isSetupPendingReady, writeSetupPendingCloudflare).
THEOREM LinksAreProxied == SetupSpec => []LinkProxied
<1>1. StoredInv => LinkProxied
  BY DEF StoredInv, LinkProxied
<1> QED
  BY <1>1, StoredStarts, StoredInductive, PTL DEF SetupSpec

-----------------------------------------------------------------------------
(***************************************************************************)
(* One widget.                                                             *)
(***************************************************************************)
\* What a step of one request must leave as it was, when it makes no widget.
LEMMA SingleStep ==
  ASSUME StoredInv, Single, NEW r \in Wizards, NEW k \in Wizard \cup {Idle},
         wizards' = [wizards EXCEPT ![r] = k],
         UNCHANGED <<config, made>>,
         pending.ts # None => pending'.ts # None,
         k # Idle => k.op = wizards[r].op \/
                     (k.op = "provision" => \A o \in Wizards : wizards[o].op # "provision"),
         k.op = "reset" => k.at = 1,
         k.op = "finish" /\ k.at > 5 => config = "done",
         k.op = "provision" /\ k.at > 1 => Provides(r) \/ config # "done",
         k.op = "provision" /\ k.at > 2 /\ k.widget = None /\ k.first.cf # None
           /\ k.first.ts = None => made = {},
         Provides(r) /\ wizards[r].widget # None =>
           \/ k.op = "provision" /\ k.at > 1 /\ k.widget # None
           \/ pending'.ts # None
  PROVE  Single'
<1>1. wizards \in [Wizards -> Wizard \cup {Idle}]
  BY DEF StoredInv, SetupTypeOK
<1>2. wizards'[r] = k /\ \A o \in Wizards \ {r} : wizards'[o] = wizards[o]
  BY <1>1
<1>3. Alone(made') /\ config' # "none"
  BY DEF Single
<1>4. ASSUME NEW o \in Wizards
      PROVE  /\ wizards'[o].op = "reset" => wizards'[o].at = 1
             /\ wizards'[o].op = "finish" /\ wizards'[o].at > 5 => config' = "done"
             /\ Provides(o)' /\ wizards'[o].at > 2 /\ wizards'[o].widget = None
                /\ wizards'[o].first.cf # None /\ wizards'[o].first.ts = None
                => made' = {}
  <2>1. CASE o = r
    BY <1>2, <2>1 DEF Provides
  <2>2. CASE o # r
    BY <1>2, <2>2 DEF Provides, Single
  <2> QED
    BY <2>1, <2>2
<1>5. ASSUME NEW a \in Wizards, NEW b \in Wizards,
             wizards'[a].op = "provision", wizards'[b].op = "provision"
      PROVE  a = b
  <2>1. Idle.op # "provision"
    BY NotAWizard
  <2> QED
    BY <1>2, <1>5, <2>1 DEF Single
<1>6. ASSUME made' # {}
      PROVE  \/ pending'.ts # None
             \/ \E o \in Wizards : Provides(o)' /\ wizards'[o].widget # None
             \/ config' = "done" /\ \A o \in Wizards : ~Provides(o)'
  <2>1. CASE pending.ts # None
    BY <2>1
  <2>2. ASSUME NEW o \in Wizards, Provides(o), wizards[o].widget # None
        PROVE  \/ pending'.ts # None
               \/ Provides(o)' /\ wizards'[o].widget # None
    BY <1>2, <2>2 DEF Provides
  <2>3. CASE config = "done" /\ \A o \in Wizards : ~Provides(o)
    BY <1>2, <2>3 DEF Provides
  <2> QED
    BY <1>6, <2>1, <2>2, <2>3 DEF Single
<1> QED
  BY <1>3, <1>4, <1>5, <1>6 DEF Single

LEMMA SingleOnward ==
  ASSUME StoredInv, Single, NEW r \in Wizards, NEW q \in Wizard,
         q.at \in 1 .. LastCall(q.op), q.op = wizards[r].op, q.at = wizards[r].at,
         Onward(r, q), UNCHANGED <<config, made>>,
         pending.ts # None => pending'.ts # None,
         q.op # "reset",
         q.op = "finish" /\ q.at >= 5 => config = "done",
         q.op = "provision" /\ q.at = 1 => config # "done",
         q.op = "provision" /\ q.at >= 2 /\ q.widget = None /\ q.first.cf # None
           /\ q.first.ts = None => made = {},
         q.op = "provision" /\ wizards[r].widget # None => q.widget # None,
         q.op = "provision" /\ q.at = LastCall(q.op) => pending'.ts # None
  PROVE  Single'
<1>1. PICK k \in Wizard \cup {Idle} :
        /\ wizards' = [wizards EXCEPT ![r] = k]
        /\ \/ k = Idle /\ q.at = LastCall(q.op)
           \/ k \in Wizard /\ Moved(k, q) /\ k.at \in 1 .. LastCall(k.op)
  BY Advances
<1>2. LastCall(q.op) \in 3 .. 8
  BY LastCallSmall, NotAWizard
<1>3. k = Idle \/ (k.op = q.op /\ k.at = q.at + 1 /\ k.widget = q.widget /\ k.first = q.first)
  BY <1>1 DEF Moved
<1>4. k.op = "reset" => k.at = 1
  BY <1>3, NotAWizard
<1>5. k.op = "finish" /\ k.at > 5 => config = "done"
  BY <1>2, <1>3, NotAWizard
<1>6. k.op = "provision" /\ k.at > 1 => Provides(r) \/ config # "done"
  BY <1>2, <1>3, NotAWizard DEF Provides
<1>7. k.op = "provision" /\ k.at > 2 /\ k.widget = None /\ k.first.cf # None
           /\ k.first.ts = None => made = {}
  BY <1>2, <1>3, NotAWizard
<1>8. Provides(r) /\ wizards[r].widget # None =>
        \/ k.op = "provision" /\ k.at > 1 /\ k.widget # None
        \/ pending'.ts # None
  <2>1. SUFFICES ASSUME Provides(r), wizards[r].widget # None
                 PROVE  \/ k.op = "provision" /\ k.at > 1 /\ k.widget # None
                        \/ pending'.ts # None
    OBVIOUS
  <2>2. q.op = "provision" /\ q.widget # None /\ q.at > 1
    BY <2>1 DEF Provides
  <2>3. CASE q.at = LastCall(q.op)
    BY <2>2, <2>3
  <2>4. CASE k \in Wizard /\ Moved(k, q)
    BY <1>2, <2>2, <2>4 DEF Moved
  <2> QED
    BY <1>1, <2>3, <2>4
<1>9. k # Idle => k.op = wizards[r].op \/
                  (k.op = "provision" => \A o \in Wizards : wizards[o].op # "provision")
  BY <1>3
<1> QED
  BY <1>1, <1>4, <1>5, <1>6, <1>7, <1>8, <1>9, SingleStep

\* A request that ends: one that made a widget has put it on record.
LEMMA SingleQuit ==
  ASSUME StoredInv, Single, NEW r \in Wizards, Quit(r), UNCHANGED <<config, made, pending>>,
         ~(wizards[r].op = "provision" /\ wizards[r].widget # None)
  PROVE  Single'
<1> DEFINE k == Idle
<1>1. k \in Wizard \cup {Idle} /\ wizards' = [wizards EXCEPT ![r] = k] /\ k = Idle
  BY DEF Quit
<1>2. k.op = "none"
  BY NotAWizard
<1>3. ~(Provides(r) /\ wizards[r].widget # None)
  BY DEF Provides
<1>4. pending.ts # None => pending'.ts # None
  OBVIOUS
<1> HIDE DEF k
<1> QED
  BY <1>1, <1>2, <1>3, <1>4, SingleStep

LEMMA SingleBegin ==
  ASSUME StoredInv, Single, ~crossed', NEW r \in Wizards, NEW op \in Ops,
         NEW z \in Zones \cup {None}, Begin(r, op, z)
  PROVE  Single'
<1> DEFINE k == [op |-> op, zone |-> z, at |-> 1, sealing |-> FALSE, first |-> Empty,
                 copy |-> Empty, ok |-> FALSE, widget |-> None]
<1>1. /\ wizards' = [wizards EXCEPT ![r] = k] /\ UNCHANGED <<config, made>>
      /\ pending.ts # None => pending'.ts # None
  BY DEF Begin
<1>2. k \in Wizard
  BY EmptyRecord DEF Wizard
<1>3. k.op = op /\ k.at = 1
  OBVIOUS
<1>4. op = "provision" => \A o \in Wizards : wizards[o].op # "provision"
  BY DEF Begin
<1>5. ~Provides(r)
  BY NotAWizard DEF Begin, Provides
<1> HIDE DEF k
<1>6. k.op = "provision" => \A o \in Wizards : wizards[o].op # "provision"
  BY <1>3, <1>4
<1>7. /\ k.op = "reset" => k.at = 1
      /\ ~(k.op = "finish" /\ k.at > 5)
      /\ ~(k.op = "provision" /\ k.at > 1) /\ ~(k.op = "provision" /\ k.at > 2)
  BY <1>3
<1> QED
  BY <1>1, <1>2, <1>5, <1>6, <1>7, SingleStep

LEMMA SingleGate ==
  ASSUME StoredInv, Single, ~crossed', NEW r \in Wizards, SetupGate(r)
  PROVE  Single'
<1> DEFINE w == wizards[r]
<1>1. w # Idle /\ Path(w.op)[w.at] = "gate"
  BY DEF SetupGate, SetupAt
<1>2. /\ w \in Wizard /\ w.op \in Ops /\ w.at \in 1 .. LastCall(w.op)
      /\ Knows(w, proxied, made, rotated, Credited)
  BY <1>1, WizardUnderWay
<1>3. w.at = 1 /\ w.op # "reset" /\ w.at # LastCall(w.op)
  BY <1>1, <1>2, CallOfRequest, LastCallSmall
<1>4. w.op = "provision" => w.widget = None
  BY <1>2, <1>3 DEF Knows, KnowsWidget
<1>5. Quit(r) \/ (Onward(r, w) /\ (w.op = "provision" => config # "done"))
  BY DEF SetupGate, Admits
<1>6. UNCHANGED <<config, made, pending>>
  BY DEF SetupGate
<1>7. CASE Quit(r)
  BY <1>4, <1>6, <1>7, SingleQuit
<1>8. CASE Onward(r, w) /\ (w.op = "provision" => config # "done")
  BY <1>2, <1>3, <1>4, <1>6, <1>8, SingleOnward
<1> QED
  BY <1>5, <1>7, <1>8

\* A provision that finds no widget on record is the only one, and none was made.
LEMMA SingleReadFirst ==
  ASSUME StoredInv, Single, NEW r \in Wizards, ReadFirst(r)
  PROVE  Single'
<1> DEFINE w == wizards[r]
<1>1. w # Idle /\ Path(w.op)[w.at] = "first"
  BY DEF ReadFirst, SetupAt
<1>2. /\ w \in Wizard /\ w.op \in Ops /\ w.at \in 1 .. LastCall(w.op)
      /\ Knows(w, proxied, made, rotated, Credited)
  BY <1>1, WizardUnderWay
<1>3. w.op \in {"fix", "option", "provision", "solve", "finish"}
      /\ w.at = IF w.op = "solve" THEN 3 ELSE 2
  BY <1>1, <1>2, CallOfRequest
<1>4. w.op = "provision" => w.widget = None
  BY <1>2, <1>3 DEF Knows, KnowsWidget
<1>5. PICK read \in Reads : Quit(r) \/ Onward(r, [w EXCEPT !.first = read])
  BY DEF ReadFirst
<1> DEFINE q == [w EXCEPT !.first = read]
<1>6. w.op = "provision" /\ read.cf # None /\ read.ts = None => made = {}
  <2>1. Empty.cf = None
    BY DEF Empty
  <2>2. read = pending \/ read = Empty
    BY DEF Reads
  <2>3. w.op = "provision" /\ pending.ts = None => made = {}
    BY <1>3, <1>4 DEF Single, Provides
  <2> QED
    BY <2>1, <2>2, <2>3
<1>7. /\ q \in Wizard /\ q.op = w.op /\ q.at = w.at /\ q.first = read /\ q.widget = w.widget
  BY <1>2, ReadsGood DEF Wizard
<1>8. UNCHANGED <<config, made, pending>>
  BY DEF ReadFirst
<1>9. w.at # LastCall(w.op) /\ (w.op = "finish" => w.at < 5)
  BY <1>3 DEF LastCall
<1>10. CASE Quit(r)
  BY <1>4, <1>8, <1>10, SingleQuit
<1>11. CASE Onward(r, q)
  <2> HIDE DEF q
  <2> QED
    BY <1>2, <1>3, <1>4, <1>6, <1>7, <1>8, <1>9, <1>11, SingleOnward
<1> QED
  BY <1>5, <1>10, <1>11 DEF q

\* The secrets are sealed again in a copy that is still the record.
LEMMA SingleToken ==
  ASSUME StoredInv, Single, ~crossed', NEW r \in Wizards, OpenToken(r)
  PROVE  Single'
<1> DEFINE w == wizards[r]
           q == [w EXCEPT !.copy = Empty]
           k == [w EXCEPT !.sealing = TRUE, !.copy = pending]
<1>1. w # Idle /\ Path(w.op)[w.at] = "token"
  BY DEF OpenToken, SetupAt
<1>2. /\ w \in Wizard /\ w.op \in Ops /\ w.at \in 1 .. LastCall(w.op)
      /\ Knows(w, proxied, made, rotated, Credited)
  BY <1>1, WizardUnderWay
<1>3. /\ w.op \in {"zone", "fix", "option", "provision", "finish"}
      /\ w.at = IF w.op = "zone" THEN 2 ELSE 3
  BY <1>1, <1>2, CallOfRequest
<1>4. w.op = "provision" => w.widget = None
  BY <1>2, <1>3 DEF Knows, KnowsWidget
<1>5. UNCHANGED <<config, made>>
  BY DEF OpenToken
<1>6. w.op = "provision" /\ w.first.cf # None /\ w.first.ts = None => made = {}
  BY <1>3, <1>4 DEF Single, Provides
<1>7. pending'.ts = pending.ts
  <2>1. CASE w.sealing
    <3>1. pending = w.copy /\ pending' = [pending EXCEPT !.cf.old = FALSE]
      BY <2>1 DEF OpenToken
    <3> QED
      BY <3>1, StoredShape DEF Pending
  <2>2. CASE ~w.sealing
    BY <2>2 DEF OpenToken
  <2> QED
    BY <2>1, <2>2
<1>8. w.at # LastCall(w.op) /\ (w.op = "finish" => w.at < 5)
  BY <1>3 DEF LastCall
<1>9. Quit(r) \/ Onward(r, w) \/ Onward(r, q) \/ wizards' = [wizards EXCEPT ![r] = k]
  BY StoredShape DEF OpenToken, Quit
<1>10. /\ q \in Wizard /\ q.op = w.op /\ q.at = w.at /\ q.first = w.first /\ q.widget = w.widget
       /\ k \in Wizard /\ k.op = w.op /\ k.at = w.at /\ k.first = w.first /\ k.widget = w.widget
  BY <1>2, StoredShape, EmptyRecord DEF Wizard
<1> HIDE DEF q, k
<1>11. CASE Quit(r)
  <2> DEFINE m == Idle
  <2>1. m \in Wizard \cup {Idle} /\ wizards' = [wizards EXCEPT ![r] = m] /\ m = Idle
    BY <1>11 DEF Quit
  <2>2. m.op = "none"
    BY NotAWizard
  <2>3. ~(Provides(r) /\ wizards[r].widget # None)
    BY <1>4 DEF Provides
  <2> HIDE DEF m
  <2> QED
    BY <1>5, <1>7, <2>1, <2>2, <2>3, SingleStep
<1>12. CASE Onward(r, w)
  BY <1>2, <1>3, <1>4, <1>5, <1>6, <1>7, <1>8, <1>12, SingleOnward
<1>13. CASE Onward(r, q)
  BY <1>2, <1>3, <1>4, <1>5, <1>6, <1>7, <1>8, <1>10, <1>13, SingleOnward
<1>14. CASE wizards' = [wizards EXCEPT ![r] = k]
  <2>1. /\ k.op # "reset" /\ ~(k.op = "finish" /\ k.at > 5)
        /\ (k.op = "provision" => Provides(r) /\ wizards[r].widget = None)
    BY <1>3, <1>4, <1>10 DEF Provides
  <2>2. ~(Provides(r) /\ wizards[r].widget # None)
    BY <1>4 DEF Provides
  <2>3. k.op = wizards[r].op
    BY <1>10
  <2>4. k.op = "provision" /\ k.at > 2 /\ k.widget = None /\ k.first.cf # None
        /\ k.first.ts = None => made = {}
    BY <1>6, <1>10
  <2> QED
    BY <1>5, <1>7, <1>10, <1>14, <2>1, <2>2, <2>3, <2>4, SingleStep
<1> QED
  BY <1>9, <1>11, <1>12, <1>13, <1>14

LEMMA SingleSecret ==
  ASSUME StoredInv, Single, ~crossed', NEW r \in Wizards, OpenSecret(r)
  PROVE  Single'
<1> DEFINE w == wizards[r]
           q == [w EXCEPT !.widget = w.copy.ts.widget, !.copy = Empty]
           m == [w EXCEPT !.widget = pending.ts.widget]
           k == [w EXCEPT !.sealing = TRUE, !.copy = pending]
<1>1. w # Idle /\ Path(w.op)[w.at] = "secret"
  BY DEF OpenSecret, SetupAt
<1>2. /\ w \in Wizard /\ w.op \in Ops /\ w.at \in 1 .. LastCall(w.op)
      /\ Knows(w, proxied, made, rotated, Credited)
  BY <1>1, WizardUnderWay
<1>3. w.op \in {"solve", "finish"} /\ w.at = IF w.op = "solve" THEN 2 ELSE 4
  BY <1>1, <1>2, CallOfRequest
<1>4. UNCHANGED <<config, made>>
  BY DEF OpenSecret
<1>5. CASE w.sealing
  <2>1. w.copy.ts # None /\ w.copy \in Pending /\ w.copy.ts \in Widget
    BY <1>2, <1>3, <1>5 DEF Knows, Sealing, Wizard, Pending
  <2>2. pending' = [w.copy EXCEPT !.ts.old = FALSE] /\ Onward(r, q)
    BY <1>5 DEF OpenSecret
  <2>3. pending'.ts # None
    <3>1. pending'.ts = [w.copy.ts EXCEPT !.old = FALSE]
      BY <2>1, <2>2 DEF Pending
    <3>2. pending'.ts \in Widget
      BY <2>1, <3>1 DEF Widget
    <3> QED
      BY <3>2, SetupAssumption
  <2>4. q \in Wizard /\ q.op = w.op /\ q.at = w.at
    BY <1>2, <2>1, EmptyRecord DEF Wizard, Widget
  <2> HIDE DEF q
  <2> QED
    BY <1>2, <1>3, <1>4, <2>2, <2>3, <2>4, SingleOnward
<1>6. CASE ~w.sealing
  <2>1. pending' = pending
    BY <1>6 DEF OpenSecret
  <2>2. \/ Quit(r)
        \/ pending.ts # None /\ Onward(r, m)
        \/ wizards' = [wizards EXCEPT ![r] = k]
    BY <1>6 DEF OpenSecret, Quit
  <2>3. CASE Quit(r)
    BY <1>3, <1>4, <2>1, <2>3, SingleQuit
  <2>4. CASE pending.ts # None /\ Onward(r, m)
    <3>1. pending.ts.widget \in Widgets
      BY <2>4, StoredShape DEF Widget
    <3>2. m \in Wizard /\ m.op = w.op /\ m.at = w.at
      BY <1>2, <3>1 DEF Wizard
    <3> HIDE DEF m
    <3> QED
      BY <1>2, <1>3, <1>4, <2>1, <2>4, <3>2, SingleOnward
  <2>5. CASE wizards' = [wizards EXCEPT ![r] = k]
    <3>1. k \in Wizard /\ k.op = wizards[r].op /\ k.at = w.at
      BY <1>2, StoredShape DEF Wizard
    <3> HIDE DEF k
    <3>2. k.op # "provision" /\ k.op # "reset" /\ ~(k.op = "finish" /\ k.at > 5) /\ ~Provides(r)
      BY <1>3, <3>1 DEF Provides
    <3> QED
      BY <1>4, <2>1, <2>5, <3>1, <3>2, SingleStep
  <2> QED
    BY <2>2, <2>3, <2>4, <2>5
<1> QED
  BY <1>5, <1>6

LEMMA SingleRemote ==
  ASSUME StoredInv, Single, NEW r \in Wizards,
         CallZone(r) \/ CallOption(r) \/ CallChallenge(r)
  PROVE  Single'
<1> DEFINE w == wizards[r]
<1>1. /\ w # Idle /\ Path(w.op)[w.at] = "remote"
      /\ w.op \in {"zone", "fix", "token", "option", "solve"}
  BY DEF CallZone, CallOption, CallChallenge, SetupAt
<1>2. w \in Wizard /\ w.op \in Ops /\ w.at \in 1 .. LastCall(w.op)
  BY <1>1, WizardUnderWay
<1>3. PICK q \in Wizard : Onward(r, q) /\ q.op = w.op /\ q.at = w.at
  <2>1. CASE CallZone(r)
    <3>1. PICK ok \in BOOLEAN : Onward(r, [w EXCEPT !.ok = ok])
      BY <2>1 DEF CallZone
    <3> DEFINE q == [w EXCEPT !.ok = ok]
    <3>2. q \in Wizard /\ q.op = w.op /\ q.at = w.at
      BY <1>2 DEF Wizard
    <3> QED
      BY <3>1, <3>2
  <2>2. CASE CallOption(r) /\ w.op = "token"
    BY <1>2, <2>2 DEF CallOption
  <2>3. CASE CallOption(r) /\ w.op = "option"
    <3> DEFINE q == [w EXCEPT !.ok = w.first.cf.ok]
    <3>1. Onward(r, q) /\ w.first \in Pending
      BY <1>2, <2>3 DEF CallOption, Wizard
    <3>2. w.at = 4
      BY <1>1, <1>2, <2>3, CallOfRequest
    <3>3. w.first.cf # None
      BY <1>1, <2>3, <3>2, WizardUnderWay DEF Knows, KnowsZone
    <3>4. w.first.cf.ok \in BOOLEAN
      BY <3>1, <3>3 DEF Pending, Access
    <3>5. q \in Wizard /\ q.op = w.op /\ q.at = w.at
      BY <1>2, <3>4 DEF Wizard
    <3> QED
      BY <3>1, <3>5
  <2>4. CASE CallChallenge(r)
    BY <1>2, <2>4 DEF CallChallenge
  <2> QED
    BY <1>1, <2>1, <2>2, <2>3, <2>4 DEF CallOption
<1>4. UNCHANGED <<config, made, pending>>
  BY DEF CallZone, CallOption, CallChallenge
<1> QED
  BY <1>1, <1>2, <1>3, <1>4, SingleOnward

LEMMA SingleReadAgain ==
  ASSUME StoredInv, Single, ~crossed', NEW r \in Wizards, ReadAgain(r)
  PROVE  Single'
<1> DEFINE w == wizards[r]
<1>1. w # Idle /\ Path(w.op)[w.at] = "read"
  BY DEF ReadAgain, SetupAt
<1>2. /\ w \in Wizard /\ w.op \in Ops /\ w.at \in 1 .. LastCall(w.op)
      /\ Knows(w, proxied, made, rotated, Credited)
  BY <1>1, WizardUnderWay
<1>3. /\ w.op \notin {"finish", "rotate", "reset"} /\ w.at = LastCall(w.op) - 1
      /\ LastCall(w.op) \in 3 .. 8
  BY <1>1, <1>2, CallOfRequest, LastCallSmall
<1>4. w.op = "provision" => w.at = 5 /\ w.widget # None
  <2>1. w.op = "provision" => w.at = 5
    BY <1>3 DEF LastCall
  <2>2. w.op = "provision" => w.widget \in Widgets
    BY <1>2, <2>1, StoredShape DEF Knows, KnowsWidget
  <2> QED
    BY <2>1, <2>2, SetupAssumption
<1>5. PICK read \in Reads :
        \/ Quit(r) /\ w.op # "provision"
        \/ Onward(r, [w EXCEPT !.copy = read])
  BY DEF ReadAgain
<1> DEFINE q == [w EXCEPT !.copy = read]
<1>6. q \in Wizard /\ q.op = w.op /\ q.at = w.at /\ q.widget = w.widget
  BY <1>2, ReadsGood DEF Wizard
<1>7. UNCHANGED <<config, made, pending>>
  BY DEF ReadAgain
<1> HIDE DEF q
<1>8. CASE Quit(r) /\ w.op # "provision"
  BY <1>7, <1>8, SingleQuit
<1>9. CASE Onward(r, q)
  BY <1>2, <1>3, <1>4, <1>6, <1>7, <1>9, SingleOnward
<1> QED
  BY <1>5, <1>8, <1>9 DEF q

\* What is put back is put over the record it was read from.
LEMMA SinglePut ==
  ASSUME StoredInv, Single, ~crossed', NEW r \in Wizards, PutPending(r)
  PROVE  Single'
<1> DEFINE w == wizards[r]
<1>1. w # Idle /\ Path(w.op)[w.at] = "put"
  BY DEF PutPending, SetupAt
<1>2. /\ w \in Wizard /\ w.op \in Ops /\ w.at \in 1 .. LastCall(w.op)
      /\ Knows(w, proxied, made, rotated, Credited)
  BY <1>1, WizardUnderWay
<1>3. /\ w.op \notin {"finish", "rotate", "reset"} /\ w.at = LastCall(w.op)
      /\ LastCall(w.op) \in 3 .. 8
  BY <1>1, <1>2, CallOfRequest, LastCallSmall
<1>4. /\ pending = w.copy /\ pending' = Written(w) /\ Onward(r, w) /\ UNCHANGED <<config, made>>
  BY DEF PutPending
<1>5. pending.ts # None \/ w.op = "provision" => pending'.ts # None
  <2>1. CASE w.op \in {"token", "zone", "fix", "option"}
    <3>1. Written(w).ts = w.copy.ts
      BY <1>2, <2>1 DEF Written, Back, Wizard, Pending
    <3> QED
      BY <1>4, <2>1, <3>1
  <2>2. CASE w.op = "provision"
    <3> DEFINE t == [widget |-> w.widget, verified |-> FALSE, old |-> FALSE]
    <3>1. Written(w) = [w.copy EXCEPT !.ts = t] /\ w.copy \in Pending
      BY <1>2, <2>2 DEF Written, Wizard
    <3>2. w.at = 6
      BY <1>3, <2>2 DEF LastCall
    <3>3. w.widget \in Widgets
      BY <1>2, <2>2, <3>2, StoredShape DEF Knows, KnowsWidget
    <3>4. t \in Widget
      BY <3>3 DEF Widget
    <3> HIDE DEF t
    <3> QED
      BY <1>4, <3>1, <3>4, SetupAssumption DEF Pending
  <2>3. CASE w.op = "solve"
    <3> DEFINE t == [w.copy.ts EXCEPT !.verified = TRUE]
    <3>1. Written(w) = [w.copy EXCEPT !.ts = t] /\ w.copy \in Pending
      BY <1>2, <2>3 DEF Written, Wizard
    <3>2. w.at = 6
      BY <1>3, <2>3 DEF LastCall
    <3>3. w.copy.ts # None
      BY <1>2, <2>3, <3>2 DEF Knows, KnowsWidget
    <3>4. t \in Widget
      BY <3>1, <3>3 DEF Widget, Pending
    <3> HIDE DEF t
    <3> QED
      BY <1>4, <3>1, <3>4, SetupAssumption DEF Pending
  <2> QED
    BY <1>2, <1>3, <2>1, <2>2, <2>3 DEF Ops
<1>6. w.op # "reset" /\ w.op # "finish"
  BY <1>3
<1>7. w.op = "provision" => w.at = 6 /\ w.widget # None
  <2>1. w.op = "provision" => w.at = 6
    BY <1>3 DEF LastCall
  <2>2. w.op = "provision" => w.widget \in Widgets
    BY <1>2, <2>1, StoredShape DEF Knows, KnowsWidget
  <2> QED
    BY <2>1, <2>2, SetupAssumption
<1> QED
  BY <1>2, <1>4, <1>5, <1>6, <1>7, SingleOnward

\* The one that makes a widget is the only one, and no other was made.
LEMMA SingleCallWidget ==
  ASSUME StoredInv, Single, NEW r \in Wizards, NEW v \in Widgets, CallWidget(r, v)
  PROVE  Single'
<1> DEFINE w == wizards[r]
           q == [w EXCEPT !.widget = v]
<1>1. w # Idle /\ Path(w.op)[w.at] = "remote" /\ w.op \in {"provision", "rotate"}
  BY DEF CallWidget, SetupAt
<1>2. /\ w \in Wizard /\ w.op \in Ops /\ w.at \in 1 .. LastCall(w.op)
      /\ Knows(w, proxied, made, rotated, Credited)
  BY <1>1, WizardUnderWay
<1>3. w.at = IF w.op = "rotate" THEN 2 ELSE 4
  BY <1>1, <1>2, CallOfRequest
<1>4. Onward(r, q) /\ UNCHANGED <<config, pending>>
  BY DEF CallWidget
<1>5. q \in Wizard /\ q.op = w.op /\ q.at = w.at /\ q.widget = v /\ q.first = w.first
  BY <1>2 DEF Wizard
<1> HIDE DEF q
<1>6. CASE w.op = "rotate"
  <2>1. UNCHANGED made
    BY <1>6 DEF CallWidget
  <2> QED
    BY <1>2, <1>4, <1>5, <1>6, <2>1, SingleOnward
<1>7. CASE w.op = "provision"
  <2>1. made' = made \cup {v}
    BY <1>7 DEF CallWidget
  <2>2. w.at = 4 /\ w.widget = None /\ w.first.cf # None /\ w.first.ts = None
    BY <1>2, <1>3, <1>7 DEF Knows, KnowsZone, KnowsWidget
  <2>3. made = {}
    BY <1>7, <2>2 DEF Single, Provides
  <2>4. Alone(made')
    BY <2>1, <2>3 DEF Alone
  <2>5. PICK k \in Wizard \cup {Idle} :
          /\ wizards' = [wizards EXCEPT ![r] = k]
          /\ \/ k = Idle /\ q.at = LastCall(q.op)
             \/ k \in Wizard /\ Moved(k, q) /\ k.at \in 1 .. LastCall(k.op)
    BY <1>2, <1>4, <1>5, Advances
  <2>6. k.op = "provision" /\ k.at = 5 /\ k.widget = v /\ v # None
    <3>1. q.at # LastCall(q.op)
      BY <1>5, <1>7, <2>2 DEF LastCall
    <3>2. v # None
      BY SetupAssumption
    <3> QED
      BY <1>5, <1>7, <2>2, <2>5, <3>1, <3>2 DEF Moved
  <2>7. wizards \in [Wizards -> Wizard \cup {Idle}]
    BY DEF StoredInv, SetupTypeOK
  <2>8. wizards'[r] = k /\ \A o \in Wizards \ {r} : wizards'[o] = wizards[o]
    BY <2>5, <2>7
  <2>9. \A o \in Wizards \ {r} : wizards'[o].op # "provision"
    BY <1>7, <2>8 DEF Single
  <2>10. config' # "none"
    BY <1>4 DEF Single
  <2>11. ASSUME NEW o \in Wizards
         PROVE  /\ wizards'[o].op = "reset" => wizards'[o].at = 1
                /\ wizards'[o].op = "finish" /\ wizards'[o].at > 5 => config' = "done"
                /\ Provides(o)' /\ wizards'[o].at > 2 /\ wizards'[o].widget = None
                   /\ wizards'[o].first.cf # None /\ wizards'[o].first.ts = None
                   => made' = {}
    <3>1. CASE o = r
      BY <2>6, <2>8, <3>1 DEF Provides
    <3>2. CASE o # r
      BY <1>4, <2>8, <2>9, <3>2 DEF Provides, Single
    <3> QED
      BY <3>1, <3>2
  <2>12. \A a, b \in Wizards :
           wizards'[a].op = "provision" /\ wizards'[b].op = "provision" => a = b
    BY <2>9
  <2>13. Provides(r)' /\ wizards'[r].widget # None
    BY <2>6, <2>8 DEF Provides
  <2> QED
    BY <2>4, <2>10, <2>11, <2>12, <2>13 DEF Single
<1> QED
  BY <1>1, <1>6, <1>7

LEMMA SinglePromotes ==
  ASSUME StoredInv, Single, ~crossed', NEW r \in Wizards,
         SetConfig(r) \/ SetLink(r) \/ SetWidget(r) \/ ClearPending(r)
  PROVE  Single'
<1> DEFINE w == wizards[r]
<1>1. w # Idle
  BY DEF SetConfig, SetLink, SetWidget, ClearPending, SetupAt
<1>2. w \in Wizard /\ w.op \in Ops /\ w.at \in 1 .. LastCall(w.op)
  BY <1>1, WizardUnderWay
<1>3. /\ w.op \in {"finish", "rotate", "reset"}
      /\ SetConfig(r) => w.at = IF w.op = "reset" THEN 1 ELSE 5
      /\ SetLink(r) => w.at = IF w.op = "reset" THEN 2 ELSE 6
      /\ SetWidget(r) => w.at = IF w.op = "finish" THEN 7 ELSE 3
      /\ ClearPending(r) => w.at = IF w.op = "reset" THEN 4 ELSE 8
      /\ SetConfig(r) \/ ClearPending(r) => w.op # "rotate"
  <2>1. /\ Path(w.op)[w.at] \in {"done", "link", "widget", "clear"}
        /\ SetConfig(r) => Path(w.op)[w.at] = "done"
        /\ SetLink(r) => Path(w.op)[w.at] = "link"
        /\ SetWidget(r) => Path(w.op)[w.at] = "widget"
        /\ ClearPending(r) => Path(w.op)[w.at] = "clear"
    BY DEF SetConfig, SetLink, SetWidget, ClearPending, SetupAt
  <2>2. LastCall("finish") = 8 /\ LastCall("reset") = 4
    BY DEF LastCall
  <2> QED
    BY <1>2, <2>1, <2>2, CallOfRequest
<1>4. w.op # "reset"
  <2>1. w.op = "reset" => w.at = 1
    BY DEF Single
  <2>2. SetConfig(r) => w.op # "reset"
    BY DEF SetConfig
  <2> QED
    BY <1>3, <2>1, <2>2
<1>5. Onward(r, w) /\ UNCHANGED made
  BY DEF SetConfig, SetLink, SetWidget, ClearPending
<1>6. w.op = "finish" /\ w.at > 5 => config = "done"
  BY DEF Single
<1>7. CASE SetLink(r) \/ SetWidget(r)
  <2>1. UNCHANGED <<config, pending>>
    BY <1>7 DEF SetLink, SetWidget
  <2> QED
    BY <1>2, <1>3, <1>4, <1>5, <1>6, <1>7, <2>1, SingleOnward
<1>8. CASE SetConfig(r) \/ ClearPending(r)
  <2>1. w.op = "finish"
    BY <1>3, <1>4, <1>8
  <2>2. config' = "done"
    BY <1>3, <1>6, <1>8, <2>1 DEF SetConfig, ClearPending
  <2>3. PICK k \in Wizard \cup {Idle} :
          /\ wizards' = [wizards EXCEPT ![r] = k]
          /\ \/ k = Idle /\ w.at = LastCall(w.op)
             \/ k \in Wizard /\ Moved(k, w) /\ k.at \in 1 .. LastCall(k.op)
    BY <1>2, <1>5, Advances
  <2>4. k.op \in {"none", "finish"}
    BY <2>1, <2>3, NotAWizard DEF Moved
  <2>5. wizards \in [Wizards -> Wizard \cup {Idle}]
    BY DEF StoredInv, SetupTypeOK
  <2>6. wizards'[r] = k /\ \A o \in Wizards \ {r} : wizards'[o] = wizards[o]
    BY <2>3, <2>5
  <2>7. Alone(made')
    BY <1>5 DEF Single
  <2>8. \A o \in Wizards : Provides(o)' <=> Provides(o) /\ o # r
    BY <2>4, <2>6 DEF Provides
  <2>9. ASSUME NEW o \in Wizards
        PROVE  /\ wizards'[o].op = "reset" => wizards'[o].at = 1
               /\ Provides(o)' /\ wizards'[o].at > 2 /\ wizards'[o].widget = None
                  /\ wizards'[o].first.cf # None /\ wizards'[o].first.ts = None
                  => made' = {}
    <3>1. CASE o = r
      BY <2>4, <2>6, <3>1 DEF Provides
    <3>2. CASE o # r
      BY <1>5, <2>6, <3>2 DEF Provides, Single
    <3> QED
      BY <3>1, <3>2
  <2>10. \A a, b \in Wizards :
           wizards'[a].op = "provision" /\ wizards'[b].op = "provision" => a = b
    BY <2>4, <2>6 DEF Single
  <2>11. made' # {} => \/ pending'.ts # None
                       \/ \E o \in Wizards : Provides(o)' /\ wizards'[o].widget # None
                       \/ \A o \in Wizards : ~Provides(o)'
    <3>1. CASE ClearPending(r)
      <4>1. \A o \in Wizards : ~Provides(o)
        BY <3>1 DEF ClearPending, Provides
      <4> QED
        BY <2>8, <4>1
    <3>2. CASE SetConfig(r)
      <4>1. pending' = pending /\ made' = made
        BY <3>2 DEF SetConfig
      <4>2. ~Provides(r)
        BY <2>1 DEF Provides
      <4>3. ASSUME NEW o \in Wizards, Provides(o), wizards[o].widget # None
            PROVE  Provides(o)' /\ wizards'[o].widget # None
        BY <2>6, <2>8, <4>2, <4>3
      <4> QED
        BY <2>8, <4>1, <4>3 DEF Single
    <3> QED
      BY <1>8, <3>1, <3>2
  <2> QED
    BY <2>2, <2>7, <2>9, <2>10, <2>11 DEF Single
<1> QED
  BY <1>7, <1>8

LEMMA SingleElsewhere ==
  ASSUME StoredInv, Single, ~crossed', ClaimAgain \/ Redeploy
  PROVE  Single'
<1>1. ~ClaimAgain
  BY StoredShape DEF ClaimAgain, Single
<1>2. UNCHANGED <<config, wizards, made>>
  BY <1>1 DEF Redeploy
<1>3. pending.ts # None => pending'.ts # None
  <2>1. CASE Redeploy /\ pending.ts # None
    <3>1. pending'.ts = [pending.ts EXCEPT !.old = TRUE] /\ pending.ts \in Widget
      BY <2>1, StoredShape DEF Redeploy
    <3>2. pending'.ts \in Widget
      BY <3>1 DEF Widget
    <3> QED
      BY <3>2, SetupAssumption
  <2>2. CASE ~Redeploy
    BY <1>1, <2>2
  <2> QED
    BY <2>1, <2>2
<1> QED
  BY <1>2, <1>3 DEF Single, Provides

-----------------------------------------------------------------------------
LEMMA SingleStarts == SetupInit => SingleInv
<1>1. SUFFICES ASSUME SetupInit PROVE Single
  BY DEF SingleInv
<1>2. config = "claimed" /\ wizards = [r \in Wizards |-> Idle]
  BY <1>1 DEF SetupInit
<1>3. \A r \in Wizards : wizards[r].op = "none"
  BY <1>2, NotAWizard
<1>4. Alone(made) /\ (made # {} => pending.ts # None)
  <2>1. CASE made = {}
    BY <2>1 DEF Alone
  <2>2. ASSUME NEW z \in Zones, NEW w \in Widgets, NEW verified \in BOOLEAN,
               pending = [cf |-> [zone |-> z, ok |-> TRUE, old |-> FALSE],
                          ts |-> [widget |-> w, verified |-> verified, old |-> FALSE]],
               made = {w}
        PROVE  Alone(made) /\ pending.ts # None
    <3>1. pending.ts = [widget |-> w, verified |-> verified, old |-> FALSE]
      BY <2>2
    <3>2. pending.ts \in Widget
      BY <3>1 DEF Widget
    <3> QED
      BY <2>2, <3>2, SetupAssumption DEF Alone
  <2> QED
    BY <1>1, <2>1, <2>2 DEF SetupInit
<1> QED
  BY <1>2, <1>3, <1>4 DEF Single, Provides

LEMMA SingleInductive ==
  StoredInv /\ SingleInv /\ [SetupNext]_setupVars => SingleInv'
<1>1. SUFFICES ASSUME StoredInv, SingleInv, [SetupNext]_setupVars, ~crossed' PROVE Single'
  BY DEF SingleInv
<1>2. CASE UNCHANGED setupVars
  <2>1. UNCHANGED <<config, pending, wizards, made, crossed>>
    BY <1>2 DEF setupVars
  <2> QED
    BY <1>1, <2>1 DEF SingleInv, Single, Provides
<1>3. CASE SetupNext
  <2>1. ~crossed
    BY <1>1, <1>3, ZenonT(40) DEF SetupNext, Begin, SetupGate, ReadFirst, OpenToken, OpenSecret, CallZone,
      CallOption, CallWidget, CallChallenge, ReadAgain, PutPending, SetConfig, SetLink,
      SetWidget, ClearPending, Fail, ClaimAgain, Redeploy
  <2>2. Single
    BY <1>1, <2>1 DEF SingleInv
  <2>3. ASSUME NEW r \in Wizards, Fail(r) PROVE Single'
    <3>1. /\ Quit(r) /\ UNCHANGED <<config, made, pending>>
          /\ ~(wizards[r].op = "provision" /\ wizards[r].widget # None)
      BY <1>1, <2>3 DEF Fail
    <3> QED
      BY <1>1, <2>2, <3>1, SingleQuit
  <2>4. ASSUME NEW r \in Wizards,
               \/ \E op \in Ops, z \in Zones \cup {None} : Begin(r, op, z)
               \/ SetupGate(r) \/ ReadFirst(r)
        PROVE  Single'
    BY <1>1, <2>2, <2>4, SingleBegin, SingleGate, SingleReadFirst
  <2>5. ASSUME NEW r \in Wizards, OpenToken(r) \/ OpenSecret(r) PROVE Single'
    BY <1>1, <2>2, <2>5, SingleToken, SingleSecret
  <2>6. ASSUME NEW r \in Wizards,
               \/ CallZone(r) \/ CallOption(r) \/ CallChallenge(r)
               \/ \E w \in Widgets : CallWidget(r, w)
        PROVE  Single'
    BY <1>1, <2>2, <2>6, SingleRemote, SingleCallWidget
  <2>7. ASSUME NEW r \in Wizards, ReadAgain(r) \/ PutPending(r) PROVE Single'
    BY <1>1, <2>2, <2>7, SingleReadAgain, SinglePut
  <2>8. ASSUME NEW r \in Wizards,
               SetConfig(r) \/ SetLink(r) \/ SetWidget(r) \/ ClearPending(r)
        PROVE  Single'
    BY <1>1, <2>2, <2>8, SinglePromotes
  <2>9. CASE ClaimAgain \/ Redeploy
    BY <1>1, <2>2, <2>9, SingleElsewhere
  <2> QED
    BY <1>3, <2>3, <2>4, <2>5, <2>6, <2>7, <2>8, <2>9 DEF SetupNext
<1> QED
  BY <1>1, <1>2, <1>3

\* The sitekey that guards the login is one whose challenge was solved, a rotated one, or
\* one that another widget's challenge marked as verified; it has its own secret, and no
\* widget was so marked, as long as the wizard has made one; and it makes a second one only
\* when something was crossed: beside another request that makes one, after a lost update
\* or a failed read, after a failure or a reset, or about or after the end of the setup
\* (handleAdminSetup, handleAdminSetupTurnstileProvision).
THEOREM GateStaysUsable == SetupSpec => []WidgetUsable
<1>1. StoredInv /\ SingleInv => WidgetUsable
  BY DEF StoredInv, SingleInv, Single, Opens, Alone, Credited, WidgetUsable
<1>2. SetupInit => StoredInv /\ SingleInv
  BY StoredStarts, SingleStarts
<1>3. StoredInv /\ SingleInv /\ [SetupNext]_setupVars => (StoredInv /\ SingleInv)'
  BY StoredInductive, SingleInductive
<1> QED
  BY <1>1, <1>2, <1>3, PTL DEF SetupSpec

-----------------------------------------------------------------------------
(***************************************************************************)
(* The application.  What a page takes for granted was told by the worker, *)
(* some time ago; the worker's records only advance, unless a site that    *)
(* was known to be proxied is found not to be.                             *)
(***************************************************************************)
Calls == {"none", "bootstrap", "state", "claim", "login", "invite", "tos"} \cup WizardOps
Answered == {"none", "ok", "no", "lost", "400", "401", "403", "404", "409"}
Call == [op : Calls, flow : Flows \cup {"none"}, boot : Server, got : Answered]

OpenPage ==
  [view : {"loading", "login", "invite", "wizard", "dashboard", "tos"}, session : BOOLEAN,
   known : {"none", "open", "complete"}, signed : BOOLEAN, step : 1..5,
   phase : Phases, tokenOk : BOOLEAN, found : {"none", "no", "ok"},
   widget : BOOLEAN, verified : BOOLEAN, call : Call]

\* What a worker that is not finished has done in its order.
Sound(s, u) ==
  /\ s \in Server /\ (s.complete => s.claimed)
  /\ ~s.complete /\ ~u =>
       (s.pending["linked"] \/ s.pending["widget"] \/ s.pending["verified"] => s.pending["proxy"])

\* A bootstrap that was kept, and a page, tell of nothing that is not done.
Recalls(old, has) ==
  /\ old["proxy"] \/ old["linked"] => has["proxy"]
  /\ old["verified"] => has["verified"]
Stands(p, has) ==
  /\ p.step >= 3 \/ p.phase \in {"ssl", "domain"} => has["proxy"]
  /\ p.step >= 4 \/ p.verified => has["verified"]

\* What the answer to a call will be taken for.
Finishes(k) ==
  \/ k.op = "state" /\ k.flow # "boot"
  \/ k.op = "bootstrap" /\ k.flow \notin {"boot", "first", "auth", "tos"}
  \/ k.op = "invite" \/ (k.op = "finish" /\ k.got = "ok")
  \/ k.boot.complete
Rests(k, has) ==
  /\ k.op \in {"ssl", "attach"} \/ (k.op \in {"zone", "fix"} /\ k.got = "ok") => has["proxy"]
  /\ k.op = "challenge" /\ k.got = "ok" => has["verified"]
  /\ Recalls(k.boot.pending, has)

Earned(p, s, u) ==
  /\ p \in OpenPage
  /\ p.view \in {"dashboard", "invite"} \/ Finishes(p.call) => s.complete
  /\ ~s.complete /\ ~u => Stands(p, s.pending) /\ Rests(p.call, s.pending)

AppInv ==
  /\ unproxied \in BOOLEAN
  /\ Sound(server, unproxied) /\ Earned(page, server, unproxied)

-----------------------------------------------------------------------------
LEMMA NewRecords ==
  /\ Blank \in Progress /\ (\A f \in {"token", "zone", "proxy", "linked", "widget", "verified"} : ~Blank[f])
  /\ NewServer \in Server /\ ~NewServer.complete /\ NewServer.pending = Blank
<1> DEFINE fields == {"token", "zone", "proxy", "linked", "widget", "verified"}
           none == [f \in fields |-> FALSE]
<1>1. none \in Progress
  BY DEF Progress
<1>2. DOMAIN (CHOOSE p \in Progress : TRUE) = fields
  BY <1>1 DEF Progress
<1>3. Blank = none
  BY <1>2 DEF Blank
<1>4. Blank \in Progress /\ \A f \in fields : ~Blank[f]
  BY <1>1, <1>3
<1> QED
  BY <1>4 DEF NewServer, Server

LEMMA CallFields ==
  ASSUME NEW op \in Calls, NEW flow \in Flows \cup {"none"}
  PROVE  /\ NoCall \in Call /\ NoCall.op = "none" /\ NoCall.flow = "none" /\ NoCall.got = "none"
         /\ NoCall.boot = NewServer
         /\ AppCall(op, flow) \in Call /\ AppCall(op, flow).op = op /\ AppCall(op, flow).flow = flow
         /\ AppCall(op, flow).got = "none" /\ AppCall(op, flow).boot = NewServer
  BY NewRecords DEF AppCall, NoCall, Call, Calls, Answered

\* A call that rests on nothing, and an answer that is waited for by none.
LEMMA Unsaid ==
  ASSUME NEW has \in Progress
  PROVE  Recalls(Blank, has)
  BY NewRecords DEF Recalls

LEMMA NothingCalled ==
  ASSUME NEW has \in Progress
  PROVE  ~Finishes(NoCall) /\ Rests(NoCall, has)
<1>1. NoCall.op = "none" /\ NoCall.flow = "none" /\ ~NoCall.boot.complete
      /\ NoCall.boot.pending = Blank
  BY NewRecords DEF NoCall
<1> QED
  BY <1>1, Unsaid DEF Finishes, Rests

LEMMA OpenedFields ==
  ASSUME NEW session \in BOOLEAN
  PROVE  /\ Opened(session) \in OpenPage /\ Opened(session).view = "loading"
         /\ Opened(session).session = session /\ Opened(session).known = "none"
         /\ Opened(session).step = 1 /\ Opened(session).phase = "token"
         /\ Opened(session).verified = FALSE
         /\ Opened(session).call = AppCall("bootstrap", "boot")
<1>1. AppCall("bootstrap", "boot") \in Call
  BY CallFields DEF Calls, Flows
<1> QED
  BY <1>1 DEF Opened, OpenPage, Phases

LEMMA ShowFields ==
  ASSUME NEW p \in OpenPage, NEW view \in {"loading", "login", "invite", "wizard", "dashboard", "tos"}
  PROVE  /\ Show(p, view) \in OpenPage /\ Show(p, view).view = view
         /\ Show(p, view).step = 1 /\ Show(p, view).phase = "token"
         /\ Show(p, view).verified = FALSE /\ Show(p, view).call = NoCall
<1>1. NoCall \in Call
  BY CallFields DEF Calls, Flows
<1>2. p.session \in BOOLEAN /\ p.known \in {"none", "open", "complete"}
  BY DEF OpenPage
<1> DEFINE o == Opened(p.session)
<1>3. o \in OpenPage /\ o.step = 1 /\ o.phase = "token" /\ o.verified = FALSE
  BY <1>2, OpenedFields
<1>4. Show(p, view) = [o EXCEPT !.view = view, !.known = p.known, !.call = NoCall]
  BY DEF Show
<1> HIDE DEF o
<1> QED
  BY <1>1, <1>2, <1>3, <1>4 DEF OpenPage

\* A page that takes nothing for granted.
LEMMA FreshPage ==
  ASSUME NEW p \in OpenPage, NEW s \in Server, NEW u,
         p.step = 1, p.phase = "token", ~p.verified, p.call = NoCall,
         p.view \in {"dashboard", "invite"} => s.complete
  PROVE  Earned(p, s, u)
<1>1. s.pending \in Progress
  BY DEF Server
<1>2. ~Finishes(p.call) /\ Rests(p.call, s.pending)
  BY <1>1, NothingCalled
<1>3. Stands(p, s.pending)
  BY DEF Stands
<1> QED
  BY <1>2, <1>3 DEF Earned

LEMMA Shown ==
  ASSUME NEW p \in OpenPage, NEW s \in Server, NEW u,
         NEW view \in {"loading", "login", "invite", "wizard", "dashboard", "tos"},
         view \in {"dashboard", "invite"} => s.complete
  PROVE  Earned(Show(p, view), s, u)
  BY ShowFields, FreshPage, ZenonT(40)

LEMMA Reopened ==
  ASSUME NEW session \in BOOLEAN, NEW s \in Server, NEW u
  PROVE  Earned(Opened(session), s, u)
<1> DEFINE p == Opened(session)
           k == p.call
<1>1. p \in OpenPage /\ p.view = "loading" /\ p.step = 1 /\ p.phase = "token" /\ p.verified = FALSE
      /\ k = AppCall("bootstrap", "boot")
  BY OpenedFields
<1>2. k.op = "bootstrap" /\ k.flow = "boot" /\ k.got = "none" /\ ~k.boot.complete
      /\ k.boot.pending = Blank
  BY <1>1, CallFields, NewRecords DEF Calls, Flows
<1>3. s.pending \in Progress
  BY DEF Server
<1> HIDE DEF p
<1>4. ~Finishes(k) /\ Rests(k, s.pending)
  BY <1>2, <1>3, Unsaid DEF Finishes, Rests
<1>5. Stands(p, s.pending)
  BY <1>1 DEF Stands
<1> QED
  BY <1>1, <1>4, <1>5 DEF Earned, p

\* The page asks for something.
LEMMA Called ==
  ASSUME NEW p, NEW s \in Server, NEW u, Earned(p, s, u),
         NEW op \in Calls, NEW flow \in Flows \cup {"none"},
         Finishes(AppCall(op, flow)) => s.complete,
         op \in {"ssl", "attach"} => p.phase \in {"ssl", "domain"}
  PROVE  Earned([p EXCEPT !.call = AppCall(op, flow)], s, u)
<1> DEFINE k == AppCall(op, flow)
           q == [p EXCEPT !.call = k]
<1>1. k \in Call /\ k.op = op /\ k.got = "none" /\ k.boot.pending = Blank
  BY CallFields, NewRecords
<1>2. p \in OpenPage
  BY DEF Earned
<1>3. q \in OpenPage /\ q.view = p.view /\ q.step = p.step /\ q.phase = p.phase
      /\ q.verified = p.verified /\ q.call = k
  BY <1>1, <1>2 DEF OpenPage
<1>4. s.pending \in Progress
  BY DEF Server
<1> HIDE DEF k, q
<1>5. q.view \in {"dashboard", "invite"} \/ Finishes(q.call) => s.complete
  BY <1>3 DEF Earned, k
<1>6. ASSUME ~s.complete, ~u
      PROVE  Stands(q, s.pending) /\ Rests(q.call, s.pending)
  <2>1. Stands(p, s.pending)
    BY <1>6 DEF Earned
  <2>2. Stands(q, s.pending)
    BY <1>3, <2>1 DEF Stands
  <2>3. op \in {"ssl", "attach"} => s.pending["proxy"]
    BY <2>1 DEF Stands
  <2>4. Rests(k, s.pending)
    BY <1>1, <1>4, <2>3, Unsaid DEF Rests
  <2> QED
    BY <2>2, <2>4, <1>3
<1>7. Earned(q, s, u)
  BY <1>3, <1>5, <1>6 DEF Earned
<1> QED
  BY <1>7 DEF q, k

\* The wizard is opened by what a bootstrap said of the setup.
LEMMA WizardOpened ==
  ASSUME NEW p \in OpenPage, p.call = NoCall, NEW s, NEW u, Sound(s, u),
         NEW boot \in Server, ~s.complete /\ ~u => Recalls(boot.pending, s.pending)
  PROVE  Earned(OpenWizard(p, boot), s, u)
<1> DEFINE q == OpenWizard(p, boot)
<1>1. boot.pending \in Progress /\ boot.claimed \in BOOLEAN /\ s \in Server
  BY DEF Server, Sound
<1>2. boot.pending["verified"] \in BOOLEAN /\ boot.pending["widget"] \in BOOLEAN
      /\ boot.pending["proxy"] \in BOOLEAN /\ boot.pending["token"] \in BOOLEAN
  BY <1>1 DEF Progress
<1>3. InitialStep(boot) \in 1..5 /\ InitialPhase(boot.pending) \in Phases
  BY DEF InitialStep, InitialPhase, Phases
<1>4. q \in OpenPage /\ q.view = "wizard" /\ q.step = InitialStep(boot)
      /\ q.phase = InitialPhase(boot.pending) /\ q.verified = boot.pending["verified"]
      /\ q.call = NoCall
  BY <1>1, <1>2, <1>3 DEF OpenWizard, OpenPage
<1> HIDE DEF q
<1>5. s.pending \in Progress
  BY <1>1 DEF Server
<1>6. ~Finishes(q.call) /\ Rests(q.call, s.pending)
  BY <1>4, <1>5, NothingCalled
<1>7. ASSUME ~s.complete, ~u
      PROVE  Stands(q, s.pending)
  <2>1. Recalls(boot.pending, s.pending)
    BY <1>7
  <2>2. q.verified => s.pending["verified"]
    BY <1>4, <2>1 DEF Recalls
  <2>3. q.step >= 4 => boot.pending["verified"]
    BY <1>4 DEF InitialStep
  <2>4. q.step >= 3 => boot.pending["verified"] \/ boot.pending["proxy"]
    BY <1>4 DEF InitialStep
  <2>5. q.phase \in {"ssl", "domain"} => boot.pending["linked"] \/ boot.pending["proxy"]
    BY <1>4 DEF InitialPhase
  <2>6. s.pending["verified"] => s.pending["proxy"]
    BY <1>7 DEF Sound
  <2> QED
    BY <2>1, <2>2, <2>3, <2>4, <2>5, <2>6 DEF Recalls, Stands
<1>8. Earned(q, s, u)
  BY <1>4, <1>6, <1>7 DEF Earned
<1> QED
  BY <1>8 DEF q

\* The page moves on its own, or hears something that is not a call.
LEMMA PageMoved ==
  ASSUME NEW p, NEW s, NEW u, Earned(p, s, u),
         NEW q \in OpenPage, q.call = p.call, q.view = p.view,
         ~s.complete /\ ~u => Stands(q, s.pending)
  PROVE  Earned(q, s, u)
<1>1. q.view \in {"dashboard", "invite"} \/ Finishes(q.call) => s.complete
  BY DEF Earned
<1>2. ~s.complete /\ ~u => Rests(q.call, s.pending)
  BY DEF Earned
<1> QED
  BY <1>1, <1>2 DEF Earned

\* The call of a page is answered.
LEMMA CallAnswered ==
  ASSUME NEW p, NEW s, NEW u, Earned(p, s, u), NEW got \in Answered,
         got = "ok" =>
           /\ p.call.op = "finish" => s.complete
           /\ ~s.complete /\ ~u /\ p.call.op \in {"zone", "fix"} => s.pending["proxy"]
           /\ ~s.complete /\ ~u /\ p.call.op = "challenge" => s.pending["verified"]
  PROVE  Earned([p EXCEPT !.call.got = got], s, u)
<1> DEFINE k == p.call
           j == [k EXCEPT !.got = got]
           q == [p EXCEPT !.call = j]
<1>1. p \in OpenPage /\ k \in Call
  BY DEF Earned, OpenPage
<1>2. j \in Call /\ j.op = k.op /\ j.flow = k.flow /\ j.boot = k.boot /\ j.got = got
  BY <1>1 DEF Call
<1>3. q \in OpenPage /\ q.view = p.view /\ q.step = p.step /\ q.phase = p.phase
      /\ q.verified = p.verified /\ q.call = j
  BY <1>1, <1>2 DEF OpenPage
<1>4. q = [p EXCEPT !.call.got = got]
  OBVIOUS
<1> HIDE DEF j, q
<1>5. Finishes(j) => s.complete
  BY <1>2 DEF Finishes, Earned
<1>6. ASSUME ~s.complete, ~u
      PROVE  Stands(q, s.pending) /\ Rests(j, s.pending)
  <2>1. Stands(p, s.pending) /\ Rests(k, s.pending)
    BY <1>6 DEF Earned
  <2>2. Stands(q, s.pending)
    BY <2>1, <1>3 DEF Stands
  <2>3. Recalls(j.boot.pending, s.pending)
    BY <2>1, <1>2 DEF Rests
  <2>4. j.op \in {"ssl", "attach"} \/ (j.op \in {"zone", "fix"} /\ j.got = "ok") => s.pending["proxy"]
    BY <2>1, <1>2, <1>6 DEF Rests
  <2>5. j.op = "challenge" /\ j.got = "ok" => s.pending["verified"]
    BY <2>1, <1>2, <1>6
  <2> QED
    BY <2>2, <2>3, <2>4, <2>5 DEF Rests
<1>7. Earned(q, s, u)
  BY <1>3, <1>5, <1>6 DEF Earned
<1> QED
  BY <1>7, <1>4

\* The answer is heard: nothing is called any more.
LEMMA Heard ==
  ASSUME NEW p, NEW s, NEW u, s \in Server, Earned(p, s, u)
  PROVE  /\ Earned([p EXCEPT !.call = NoCall], s, u)
         /\ [p EXCEPT !.call = NoCall] \in OpenPage
         /\ [p EXCEPT !.call = NoCall].call = NoCall
         /\ [p EXCEPT !.call = NoCall].view = p.view
         /\ [p EXCEPT !.call = NoCall].step = p.step
         /\ [p EXCEPT !.call = NoCall].phase = p.phase
         /\ [p EXCEPT !.call = NoCall].verified = p.verified
<1> DEFINE q == [p EXCEPT !.call = NoCall]
<1>1. NoCall \in Call
  BY CallFields DEF Calls, Flows
<1>2. p \in OpenPage
  BY DEF Earned
<1>3. q \in OpenPage /\ q.view = p.view /\ q.step = p.step /\ q.phase = p.phase
      /\ q.verified = p.verified /\ q.call = NoCall
  BY <1>1, <1>2 DEF OpenPage
<1> HIDE DEF q
<1>4. s.pending \in Progress
  BY DEF Server
<1>5. ~Finishes(q.call) /\ Rests(q.call, s.pending)
  BY <1>3, <1>4, NothingCalled
<1>6. q.view \in {"dashboard", "invite"} => s.complete
  BY <1>3 DEF Earned
<1>7. ASSUME ~s.complete, ~u
      PROVE  Stands(q, s.pending)
  <2>1. Stands(p, s.pending)
    BY <1>7 DEF Earned
  <2> QED
    BY <1>3, <2>1 DEF Stands
<1>8. Earned(q, s, u)
  BY <1>3, <1>5, <1>6, <1>7 DEF Earned
<1> QED
  BY <1>8, <1>3 DEF q

\* What was earned stays so, as long as nothing that was done is undone.
LEMMA StillEarned ==
  ASSUME NEW p, NEW s, NEW u, NEW t, NEW v, Earned(p, s, u),
         s.complete => t.complete,
         ~t.complete /\ ~v =>
           /\ ~s.complete /\ ~u
           /\ s.pending["proxy"] => t.pending["proxy"]
           /\ s.pending["verified"] => t.pending["verified"]
  PROVE  Earned(p, t, v)
<1>1. ASSUME ~t.complete, ~v
      PROVE  Stands(p, t.pending) /\ Rests(p.call, t.pending)
  <2>1. Stands(p, s.pending) /\ Rests(p.call, s.pending)
    BY <1>1 DEF Earned
  <2>2. Stands(p, t.pending)
    BY <2>1, <1>1 DEF Stands
  <2>3. Recalls(p.call.boot.pending, t.pending)
    BY <2>1, <1>1 DEF Rests, Recalls
  <2> QED
    BY <2>1, <2>2, <2>3, <1>1 DEF Rests
<1>2. p.view \in {"dashboard", "invite"} \/ Finishes(p.call) => t.complete
  BY DEF Earned
<1> QED
  BY <1>1, <1>2 DEF Earned

\* A step of the setup, done in its order, undoes nothing.
LEMMA Worked ==
  ASSUME Sound(server, unproxied), unproxied \in BOOLEAN, server.claimed, ~server.complete,
         NEW op \in WizardOps, Has(op), NEW next \in Leaves(op), Becomes(op, next),
         op \in {"ssl", "attach"} => server.pending["proxy"] \/ unproxied
  PROVE  /\ Sound(server', unproxied') /\ unproxied' \in BOOLEAN
         /\ (op = "finish") => server'.complete
         /\ ~server'.complete /\ ~unproxied' =>
              /\ ~unproxied
              /\ server.pending["proxy"] => server'.pending["proxy"]
              /\ server.pending["verified"] => server'.pending["verified"]
              /\ op \in {"zone", "fix"} => server'.pending["proxy"] = next["proxy"]
              /\ op = "challenge" => server'.pending["verified"]
<1> DEFINE has == server.pending
           t == server'
           v == unproxied'
<1>1. server \in Server /\ has \in Progress
  BY DEF Sound, Server
<1>2. next \in Progress
  <2>1. CASE op \in {"zone", "fix"}
    BY <2>1 DEF Leaves
  <2>2. CASE op \in {"token"}
    <3>1. next = [has EXCEPT !["token"] = TRUE]
      BY <2>2 DEF Leaves
    <3> QED
      BY <3>1, <1>1 DEF Progress
  <2>3. CASE op \in {"ssl", "attach"}
    <3>1. next = [has EXCEPT !["linked"] = TRUE]
      BY <2>3 DEF Leaves
    <3> QED
      BY <3>1, <1>1 DEF Progress
  <2>4. CASE op \in {"provision"}
    <3>1. next = [has EXCEPT !["widget"] = TRUE]
      BY <2>4 DEF Leaves
    <3> QED
      BY <3>1, <1>1 DEF Progress
  <2>5. CASE op \in {"challenge"}
    <3>1. next = [has EXCEPT !["verified"] = TRUE]
      BY <2>5 DEF Leaves
    <3> QED
      BY <3>1, <1>1 DEF Progress
  <2>6. CASE op \in {"finish"}
    <3>1. next = Blank
      BY <2>6 DEF Leaves
    <3> QED
      BY <3>1, NewRecords
  <2> QED
    BY <2>1, <2>2, <2>3, <2>4, <2>5, <2>6 DEF WizardOps
<1>3. /\ t = [server EXCEPT !.pending = next, !.complete = (op = "finish")]
      /\ v = (unproxied \/ (op \in {"zone", "fix"} /\ ~next["proxy"]
                                 /\ (has["proxy"] \/ next["linked"])))
  BY DEF Becomes
<1>4. t \in Server /\ t.claimed = server.claimed /\ t.pending = next /\ t.complete = (op = "finish")
  BY <1>1, <1>2, <1>3 DEF Server
<1>5. v \in BOOLEAN
  BY <1>3
<1> HIDE DEF t, v
<1>6. ASSUME op # "finish", ~v
      PROVE  /\ ~unproxied
             /\ has["proxy"] => next["proxy"]
             /\ has["verified"] => next["verified"]
             /\ op = "challenge" => next["verified"]
             /\ next["linked"] \/ next["widget"] \/ next["verified"] => next["proxy"]
  <2>1. ~unproxied
    BY <1>6, <1>3
  <2>2. has["linked"] \/ has["widget"] \/ has["verified"] => has["proxy"]
    BY <2>1 DEF Sound
  <2>3. CASE op \in {"zone", "fix"}
    <3>1. next["widget"] = has["widget"] /\ next["verified"] = has["verified"]
      BY <2>3 DEF Leaves
    <3>2. has["proxy"] \/ next["linked"] => next["proxy"]
      BY <1>6, <1>3, <2>3
    <3> QED
      BY <2>1, <2>2, <2>3, <3>1, <3>2
  <2>4. CASE op \in {"token"}
    <3>1. next = [has EXCEPT !["token"] = TRUE]
      BY <2>4 DEF Leaves
    <3>2. /\ next["proxy"] = has["proxy"] /\ next["linked"] = has["linked"]
          /\ next["widget"] = has["widget"] /\ next["verified"] = has["verified"]
      BY <3>1, <1>1 DEF Progress
    <3> QED
      BY <2>1, <2>2, <2>4, <3>2
  <2>5. CASE op \in {"ssl", "attach"}
    <3>1. next = [has EXCEPT !["linked"] = TRUE]
      BY <2>5 DEF Leaves
    <3>2. /\ next["proxy"] = has["proxy"]
          /\ next["widget"] = has["widget"] /\ next["verified"] = has["verified"]
      BY <3>1, <1>1 DEF Progress
    <3>3. has["proxy"]
      BY <2>1, <2>5
    <3> QED
      BY <2>1, <2>2, <2>5, <3>2, <3>3
  <2>6. CASE op \in {"provision"}
    <3>1. next = [has EXCEPT !["widget"] = TRUE]
      BY <2>6 DEF Leaves
    <3>2. /\ next["proxy"] = has["proxy"] /\ next["linked"] = has["linked"]
          /\ next["verified"] = has["verified"]
      BY <3>1, <1>1 DEF Progress
    <3>3. has["proxy"]
      BY <2>6 DEF Has
    <3> QED
      BY <2>1, <2>2, <2>6, <3>2, <3>3
  <2>7. CASE op \in {"challenge"}
    <3>1. next = [has EXCEPT !["verified"] = TRUE]
      BY <2>7 DEF Leaves
    <3>2. /\ next["proxy"] = has["proxy"] /\ next["linked"] = has["linked"]
          /\ next["widget"] = has["widget"] /\ next["verified"]
      BY <3>1, <1>1 DEF Progress
    <3>3. has["proxy"]
      BY <2>2, <2>7 DEF Has
    <3> QED
      BY <2>1, <2>2, <2>7, <3>2, <3>3
  <2> QED
    BY <1>6, <2>3, <2>4, <2>5, <2>6, <2>7 DEF WizardOps
<1>7. Sound(t, v)
  BY <1>4, <1>6 DEF Sound
<1>8. ~t.complete /\ ~v =>
        /\ ~unproxied
        /\ has["proxy"] => t.pending["proxy"]
        /\ has["verified"] => t.pending["verified"]
        /\ op \in {"zone", "fix"} => t.pending["proxy"] = next["proxy"]
        /\ op = "challenge" => t.pending["verified"]
  BY <1>4, <1>6
<1> QED
  BY <1>4, <1>5, <1>7, <1>8 DEF t, v

-----------------------------------------------------------------------------
LEMMA AppStarts == AppInit => AppInv
<1> SUFFICES ASSUME AppInit PROVE AppInv
  OBVIOUS
<1>1. server \in Server /\ ~server.complete /\ unproxied = FALSE
      /\ \A f \in {"token", "zone", "proxy", "linked", "widget", "verified"} : ~server.pending[f]
  BY NewRecords DEF AppInit
<1>2. Sound(server, unproxied)
  BY <1>1 DEF Sound
<1>3. Earned(page, server, unproxied)
  BY <1>1, Reopened DEF AppInit
<1> QED
  BY <1>1, <1>2, <1>3 DEF AppInv

\* Only the page changes.
LEMMA PageTurned ==
  ASSUME AppInv, server' = server, unproxied' = unproxied, Earned(page', server, unproxied)
  PROVE  AppInv'
  BY DEF AppInv

LEMMA ReloadStep ==
  ASSUME AppInv, Reload
  PROVE  AppInv'
<1>1. page' = Opened(page.session) /\ server' = server /\ unproxied' = unproxied
  BY DEF Reload, Turns
<1>2. page.session \in BOOLEAN /\ server \in Server
  BY DEF AppInv, Earned, OpenPage, Sound
<1> QED
  BY <1>1, <1>2, Reopened, PageTurned

LEMMA NavigateStep ==
  ASSUME AppInv, Navigate
  PROVE  AppInv'
<1> DEFINE p == page
<1>1. PICK step \in 1..5, phase \in Phases :
        /\ \/ p.step = 1 /\ p.signed /\ step = 2 /\ phase = "token"
           \/ p.step = 2 /\ p.phase = "token" /\ step = 1 /\ phase = p.phase
           \/ p.step = 2 /\ p.phase = "token" /\ p.tokenOk /\ step = 2 /\ phase = "zone"
           \/ p.step = 2 /\ p.phase \in {"zone", "ssl", "domain"} /\ step = 2
              /\ phase = [zone |-> "token", ssl |-> "zone", domain |-> "ssl"][p.phase]
           \/ p.step = 2 /\ p.phase = "ssl" /\ step = 2 /\ phase = "domain"
           \/ p.step = 2 /\ p.phase = "domain" /\ step = 3 /\ phase = p.phase
           \/ p.step = 3 /\ step = 2 /\ phase = "domain"
           \/ p.step = 3 /\ p.verified /\ step = 4 /\ phase = p.phase
           \/ p.step = 4 /\ step \in {3, 5} /\ phase = p.phase
           \/ p.step = 5 /\ step = 4 /\ phase = p.phase
        /\ Turns([p EXCEPT !.step = step, !.phase = phase])
  BY DEF Navigate
<1> DEFINE q == [p EXCEPT !.step = step, !.phase = phase]
<1>2. page' = q /\ server' = server /\ unproxied' = unproxied
  BY <1>1 DEF Turns
<1>3. Earned(page, server, unproxied) /\ page \in OpenPage
  BY DEF AppInv, Earned
<1>4. q \in OpenPage /\ q.call = p.call /\ q.view = p.view /\ q.step = step /\ q.phase = phase
      /\ q.verified = p.verified
  BY <1>3 DEF OpenPage
<1> HIDE DEF q
<1>5. ASSUME ~server.complete, ~unproxied
      PROVE  Stands(q, server.pending)
  <2>1. Stands(p, server.pending)
    BY <1>3, <1>5 DEF Earned
  <2>2. phase \in {"ssl", "domain"} => p.step >= 3 \/ p.phase \in {"ssl", "domain"}
    BY <1>1
  <2>3. step >= 3 => p.step >= 3 \/ p.phase \in {"ssl", "domain"}
    BY <1>1
  <2>4. step >= 4 => p.step >= 4 \/ p.verified
    BY <1>1
  <2> QED
    BY <1>4, <2>1, <2>2, <2>3, <2>4 DEF Stands
<1>6. Earned(q, server, unproxied)
  BY <1>3, <1>4, <1>5, PageMoved
<1> QED
  BY <1>2, <1>6, PageTurned

LEMMA OtherTokenStep ==
  ASSUME AppInv, OtherToken
  PROVE  AppInv'
<1> DEFINE q == [page EXCEPT !.tokenOk = FALSE]
<1>1. page' = q /\ server' = server /\ unproxied' = unproxied
  BY DEF OtherToken, Turns
<1>2. Earned(page, server, unproxied) /\ page \in OpenPage
  BY DEF AppInv, Earned
<1>3. q \in OpenPage /\ q.call = page.call /\ q.view = page.view /\ q.step = page.step
      /\ q.phase = page.phase /\ q.verified = page.verified
  BY <1>2 DEF OpenPage
<1> HIDE DEF q
<1>4. ~server.complete /\ ~unproxied => Stands(q, server.pending)
  BY <1>2, <1>3 DEF Earned, Stands
<1>5. Earned(q, server, unproxied)
  BY <1>2, <1>3, <1>4, PageMoved
<1> QED
  BY <1>1, <1>5, PageTurned

LEMMA PressStep ==
  ASSUME AppInv, Press
  PROVE  AppInv'
<1>1. PICK op \in WizardOps \cup {"claim", "login", "invite", "tos"} :
        /\ op \in {"login", "invite", "tos"} => page.view = op
        /\ op \in {"ssl"} => page.phase = "ssl"
        /\ op \in {"attach"} => page.phase = "domain"
        /\ Sends(op)
  BY DEF Press
<1>2. page' = [page EXCEPT !.call = AppCall(op, "none")] /\ server' = server /\ unproxied' = unproxied
  BY <1>1 DEF Sends, Turns
<1>3. Earned(page, server, unproxied) /\ server \in Server
  BY DEF AppInv, Sound
<1>4. op \in Calls /\ op \notin {"bootstrap", "state"}
  BY DEF Calls, WizardOps
<1>5. AppCall(op, "none").op = op /\ AppCall(op, "none").got = "none"
      /\ ~AppCall(op, "none").boot.complete
  BY <1>4, CallFields, NewRecords DEF Flows
<1>6. Finishes(AppCall(op, "none")) => server.complete
  <2>1. Finishes(AppCall(op, "none")) => op \in {"invite"}
    BY <1>4, <1>5 DEF Finishes
  <2>2. op \in {"invite"} => page.view = "invite"
    BY <1>1
  <2> QED
    BY <1>3, <2>1, <2>2 DEF Earned
<1>7. op \in {"ssl", "attach"} => page.phase \in {"ssl", "domain"}
  BY <1>1
<1>8. Earned([page EXCEPT !.call = AppCall(op, "none")], server, unproxied)
  BY <1>3, <1>4, <1>6, <1>7, Called
<1> QED
  BY <1>2, <1>8, PageTurned

LEMMA SignOutStep ==
  ASSUME AppInv, SignOut
  PROVE  AppInv'
<1> DEFINE q == [page EXCEPT !.session = FALSE]
<1>1. page \in OpenPage /\ server \in Server
  BY DEF AppInv, Sound, Earned
<1>2. q \in OpenPage
  BY <1>1 DEF OpenPage
<1>3. /\ page' = Show(page, "login") \/ page' = Show(q, "login")
      /\ server' = server /\ unproxied' = unproxied
  BY DEF SignOut, Turns
<1> HIDE DEF q
<1>4. Earned(page', server, unproxied)
  BY <1>1, <1>2, <1>3, Shown
<1> QED
  BY <1>3, <1>4, PageTurned

\* The session of a page comes and goes.
LEMMA SessionMoved ==
  ASSUME NEW p, NEW s, NEW u, Earned(p, s, u), NEW session \in BOOLEAN
  PROVE  Earned([p EXCEPT !.session = session], s, u)
<1> DEFINE q == [p EXCEPT !.session = session]
<1>1. p \in OpenPage
  BY DEF Earned
<1>2. q \in OpenPage /\ q.call = p.call /\ q.view = p.view /\ q.step = p.step
      /\ q.phase = p.phase /\ q.verified = p.verified
  BY <1>1 DEF OpenPage
<1> HIDE DEF q
<1>3. ~s.complete /\ ~u => Stands(q, s.pending)
  BY <1>2 DEF Earned, Stands
<1>4. Earned(q, s, u)
  BY <1>2, <1>3, PageMoved
<1> QED
  BY <1>4 DEF q

LEMMA ExpireSessionStep ==
  ASSUME AppInv, ExpireSession
  PROVE  AppInv'
<1>1. page' = [page EXCEPT !.session = FALSE] /\ server' = server /\ unproxied' = unproxied
  BY DEF ExpireSession
<1>2. Earned(page, server, unproxied)
  BY DEF AppInv
<1>3. Earned(page', server, unproxied)
  BY <1>1, <1>2, SessionMoved
<1> QED
  BY <1>1, <1>3, PageTurned

-----------------------------------------------------------------------------
\* A bootstrap that is kept with the call that waits for the state.
LEMMA CalledWith ==
  ASSUME NEW p, NEW s, NEW u, Earned(p, s, u), NEW boot \in Server,
         boot.complete => s.complete, ~s.complete /\ ~u => Recalls(boot.pending, s.pending)
  PROVE  Earned([p EXCEPT !.call = [AppCall("state", "boot") EXCEPT !.boot = boot]], s, u)
<1> DEFINE c == AppCall("state", "boot")
           k == [c EXCEPT !.boot = boot]
           q == [p EXCEPT !.call = k]
<1>1. c \in Call /\ c.op = "state" /\ c.flow = "boot" /\ c.got = "none"
  BY CallFields DEF Calls, Flows
<1> HIDE DEF c
<1>2. k \in Call /\ k.op = "state" /\ k.flow = "boot" /\ k.got = "none" /\ k.boot = boot
  BY <1>1 DEF Call
<1>3. p \in OpenPage
  BY DEF Earned
<1> HIDE DEF k
<1>4. q \in OpenPage /\ q.view = p.view /\ q.step = p.step /\ q.phase = p.phase
      /\ q.verified = p.verified /\ q.call = k
  BY <1>2, <1>3 DEF OpenPage
<1> HIDE DEF q
<1>5. Finishes(k) => s.complete
  BY <1>2 DEF Finishes
<1>6. q.view \in {"dashboard", "invite"} => s.complete
  BY <1>4 DEF Earned
<1>7. ASSUME ~s.complete, ~u
      PROVE  Stands(q, s.pending) /\ Rests(k, s.pending)
  <2>1. Stands(p, s.pending)
    BY <1>7 DEF Earned
  <2>2. Stands(q, s.pending)
    BY <1>4, <2>1 DEF Stands
  <2>3. Rests(k, s.pending)
    BY <1>2, <1>7 DEF Rests
  <2> QED
    BY <2>2, <2>3
<1>8. Earned(q, s, u)
  BY <1>4, <1>5, <1>6, <1>7 DEF Earned
<1> QED
  BY <1>8 DEF q, k, c

LEMMA BootstrapStep ==
  ASSUME AppInv, Bootstrap
  PROVE  AppInv'
<1> DEFINE p == page
           flow == page.call.flow
           boot == [server EXCEPT !.accepted = @ /\ p.session]
           b == [p EXCEPT !.call = NoCall]
           q == [p EXCEPT !.known = Known(boot), !.call = NoCall]
<1>1. /\ page' = AfterBootstrap(q, flow, boot, Invited)
      /\ server' = server /\ unproxied' = unproxied /\ page.call.op = "bootstrap"
  BY DEF Bootstrap, Turns, Awaits
<1>2. Earned(page, server, unproxied) /\ page \in OpenPage /\ server \in Server
      /\ Sound(server, unproxied)
  BY DEF AppInv, Earned, Sound
<1>3. boot \in Server /\ boot.complete = server.complete /\ boot.claimed = server.claimed
      /\ boot.pending = server.pending
  BY <1>2 DEF Server, OpenPage
<1>4. flow \in Flows \cup {"none"}
  BY <1>2 DEF OpenPage, Call
<1>5. Earned(b, server, unproxied) /\ b \in OpenPage
  BY <1>2, Heard
<1> HIDE DEF boot
<1>6. Known(boot) \in {"none", "open", "complete"}
  BY DEF Known
<1>7. q = [b EXCEPT !.known = Known(boot)]
  BY <1>2 DEF OpenPage
<1> HIDE DEF b
<1>8. q \in OpenPage /\ q.call = b.call /\ q.view = b.view /\ q.step = b.step
      /\ q.phase = b.phase /\ q.verified = b.verified
  BY <1>5, <1>6, <1>7 DEF OpenPage
<1>9. b.call = NoCall
  BY <1>2, Heard DEF b
<1> HIDE DEF q
<1>10. ~server.complete /\ ~unproxied => Stands(q, server.pending)
  BY <1>5, <1>8 DEF Earned, Stands
<1>11. Earned(q, server, unproxied)
  BY <1>5, <1>8, <1>10, PageMoved
<1>12. ~server.complete /\ ~unproxied => Recalls(boot.pending, server.pending)
  BY <1>2, <1>3 DEF Sound, Recalls
<1>13. Earned(OpenWizard(q, boot), server, unproxied)
  BY <1>2, <1>3, <1>8, <1>9, <1>12, WizardOpened
<1>14. ~server.complete => flow \in {"boot", "first", "auth", "tos"}
  <2>1. Finishes(page.call) => server.complete
    BY <1>2 DEF Earned
  <2> QED
    BY <1>1, <2>1 DEF Finishes
<1> HIDE DEF flow
<1>15. CASE flow \in {"first"}
  <2>1. page' = [q EXCEPT !.call = AppCall("bootstrap", "auth")]
    BY <1>1, <1>15 DEF AfterBootstrap
  <2>2. ~Finishes(AppCall("bootstrap", "auth"))
    BY CallFields, NewRecords DEF Finishes, Calls, Flows
  <2>3. Earned(page', server, unproxied)
    BY <1>2, <1>11, <2>1, <2>2, Called DEF Calls, Flows
  <2> QED
    BY <1>1, <2>3, PageTurned
<1>16. CASE flow \in {"boot"}
  <2>1. CASE ~boot.claimed
    <3>1. page' = OpenWizard(q, boot)
      BY <1>1, <1>16, <2>1 DEF AfterBootstrap
    <3> QED
      BY <1>1, <1>13, <3>1, PageTurned
  <2>2. CASE boot.claimed /\ Invited /\ boot.complete
    <3>1. page' = Show(q, "invite")
      BY <1>1, <1>16, <2>2 DEF AfterBootstrap
    <3>2. Earned(page', server, unproxied)
      BY <1>2, <1>3, <1>8, <2>2, <3>1, Shown
    <3> QED
      BY <1>1, <3>2, PageTurned
  <2>3. CASE boot.claimed /\ ~(Invited /\ boot.complete)
    <3>1. page' = [q EXCEPT !.call = [AppCall("state", "boot") EXCEPT !.boot = boot]]
      BY <1>1, <1>16, <2>3 DEF AfterBootstrap
    <3>2. Earned(page', server, unproxied)
      BY <1>3, <1>11, <1>12, <3>1, CalledWith
    <3> QED
      BY <1>1, <3>2, PageTurned
  <2> QED
    BY <2>1, <2>2, <2>3
<1>17. CASE flow \notin {"boot", "first"}
  <2>1. CASE flow \in {"auth"} /\ ~boot.accepted
    <3>1. page' = Show(q, "tos")
      BY <1>1, <2>1 DEF AfterBootstrap
    <3>2. Earned(page', server, unproxied)
      BY <1>2, <1>8, <3>1, Shown
    <3> QED
      BY <1>1, <3>2, PageTurned
  <2>2. CASE ~(flow \in {"auth"} /\ ~boot.accepted) /\ flow \in {"auth", "tos"} /\ ~boot.complete
    <3>1. page' = OpenWizard(q, boot)
      BY <1>1, <1>17, <2>2 DEF AfterBootstrap
    <3> QED
      BY <1>1, <1>13, <3>1, PageTurned
  <2>3. CASE ~(flow \in {"auth"} /\ ~boot.accepted) /\ ~(flow \in {"auth", "tos"} /\ ~boot.complete)
    <3>1. page' = [q EXCEPT !.call = AppCall("state", flow)]
      BY <1>1, <1>17, <2>3 DEF AfterBootstrap
    <3>2. server.complete
      BY <1>3, <1>14, <1>17, <2>3
    <3>3. "state" \in Calls
      BY DEF Calls
    <3>4. Earned([q EXCEPT !.call = AppCall("state", flow)], server, unproxied)
      BY <1>2, <1>4, <1>11, <3>2, <3>3, Called
    <3> QED
      BY <1>1, <3>1, <3>4, PageTurned
  <2> QED
    BY <2>1, <2>2, <2>3
<1> QED
  BY <1>15, <1>16, <1>17

\* An answer of the worker that changes nothing there.
LEMMA AnsweredOnly ==
  ASSUME AppInv, NEW got \in Answered, server' = server, unproxied' = unproxied, Answers(got),
         got = "ok" => page.call.op \notin {"finish", "zone", "fix", "challenge"}
  PROVE  AppInv'
<1>1. Earned(page, server, unproxied)
  BY DEF AppInv
<1>2. Earned([page EXCEPT !.call.got = got], server, unproxied)
  BY <1>1, CallAnswered
<1> QED
  BY <1>2, PageTurned DEF Answers

LEMMA StateStep ==
  ASSUME AppInv, State
  PROVE  AppInv'
<1> DEFINE got == IF Standing(page) = "ok" /\ ~server.claimed THEN "404" ELSE Standing(page)
<1>1. got \in Answered
  BY DEF Standing, Answered
<1>2. Answers(got) /\ server' = server /\ unproxied' = unproxied /\ page.call.op = "state"
  BY DEF State, Awaits
<1> HIDE DEF got
<1> QED
  BY <1>1, <1>2, AnsweredOnly

\* The page is told "ok" and has a session.
LEMMA AnsweredIn ==
  ASSUME NEW p, NEW s, NEW u, Earned(p, s, u), p.call.op \in {"claim", "login", "invite"}
  PROVE  Earned([p EXCEPT !.call.got = "ok", !.session = TRUE], s, u)
<1> DEFINE q == [p EXCEPT !.call.got = "ok"]
<1>1. "ok" \in Answered /\ p \in OpenPage
  BY DEF Answered, Earned
<1>2. Earned(q, s, u)
  BY <1>1, CallAnswered
<1>3. [p EXCEPT !.call.got = "ok", !.session = TRUE] = [q EXCEPT !.session = TRUE]
  OBVIOUS
<1> HIDE DEF q
<1> QED
  BY <1>2, <1>3, SessionMoved

\* The records of the worker change, and what was done stays so.
LEMMA Advanced ==
  ASSUME AppInv, unproxied' = unproxied, server' \in Server,
         server'.complete = server.complete, server'.claimed \/ ~server.complete,
         server'.pending = server.pending, Earned(page', server, unproxied)
  PROVE  AppInv'
<1>1. Sound(server', unproxied')
  BY DEF AppInv, Sound
<1>2. Earned(page', server', unproxied')
  BY StillEarned
<1> QED
  BY <1>1, <1>2 DEF AppInv

LEMMA ClaimWorkerStep ==
  ASSUME AppInv, ClaimWorker
  PROVE  AppInv'
<1>1. page.call.op = "claim" /\ unproxied' = unproxied
  BY DEF ClaimWorker, Awaits
<1>2. Earned(page, server, unproxied) /\ server \in Server /\ (server.complete => server.claimed)
  BY DEF AppInv, Sound
<1>3. CASE server.claimed
  <2>1. Answers("409") /\ server' = server
    BY <1>3 DEF ClaimWorker
  <2> QED
    BY <1>1, <2>1, AnsweredOnly DEF Answered
<1>4. CASE ~server.claimed
  <2>1. /\ server' = [NewServer EXCEPT !.claimed = TRUE, !.accepted = TRUE,
                                    !.pending = server.pending]
        /\ page' = [page EXCEPT !.call.got = "ok", !.session = TRUE]
    BY <1>4 DEF ClaimWorker
  <2>2. server.pending \in Progress /\ server.complete \in BOOLEAN
    BY <1>2 DEF Server
  <2>3. server' \in Server /\ server'.complete = server.complete /\ server'.claimed
        /\ server'.pending = server.pending
    BY <1>2, <1>4, <2>1, <2>2 DEF NewServer, Server
  <2>4. Earned(page', server, unproxied)
    BY <1>1, <1>2, <2>1, AnsweredIn
  <2> QED
    BY <1>1, <2>3, <2>4, Advanced
<1> QED
  BY <1>3, <1>4

LEMMA SignInStep ==
  ASSUME AppInv, SignIn
  PROVE  AppInv'
<1>1. page.call.op \in {"login", "invite"} /\ unproxied' = unproxied /\ server' = server
  BY DEF SignIn, Awaits
<1>2. Earned(page, server, unproxied)
  BY DEF AppInv
<1>3. \/ Answers("404") \/ Answers("401")
      \/ page' = [page EXCEPT !.call.got = "ok", !.session = TRUE]
  BY DEF SignIn
<1>4. CASE Answers("404") \/ Answers("401")
  BY <1>1, <1>4, AnsweredOnly DEF Answered
<1>5. CASE page' = [page EXCEPT !.call.got = "ok", !.session = TRUE]
  <2>1. Earned(page', server, unproxied)
    BY <1>1, <1>2, <1>5, AnsweredIn
  <2> QED
    BY <1>1, <2>1, PageTurned
<1> QED
  BY <1>3, <1>4, <1>5

LEMMA AcceptTosStep ==
  ASSUME AppInv, AcceptTos
  PROVE  AppInv'
<1>1. page.call.op = "tos" /\ unproxied' = unproxied
  BY DEF AcceptTos, Awaits
<1>2. Earned(page, server, unproxied) /\ server \in Server /\ (server.complete => server.claimed)
  BY DEF AppInv, Sound
<1>3. \/ Answers("401") /\ server' = server
      \/ Answers("404") /\ server' = server
      \/ Answers("ok") /\ server' = [server EXCEPT !.accepted = TRUE]
  BY DEF AcceptTos
<1>4. CASE (Answers("401") \/ Answers("404")) /\ server' = server
  BY <1>1, <1>4, AnsweredOnly DEF Answered
<1>5. CASE Answers("ok") /\ server' = [server EXCEPT !.accepted = TRUE]
  <2>1. server' \in Server /\ server'.complete = server.complete
        /\ server'.claimed = server.claimed /\ server'.pending = server.pending
    BY <1>2, <1>5 DEF Server
  <2>2. Earned([page EXCEPT !.call.got = "ok"], server, unproxied)
    BY <1>1, <1>2, CallAnswered DEF Answered
  <2>3. Earned(page', server, unproxied)
    BY <1>5, <2>2 DEF Answers
  <2> QED
    BY <1>1, <1>2, <2>1, <2>3, Advanced
<1> QED
  BY <1>3, <1>4, <1>5

LEMMA SetUpStep ==
  ASSUME AppInv, SetUp
  PROVE  AppInv'
<1>1. PICK op \in WizardOps :
       /\ Awaits(op)
       /\ IF WizardGate(page) # "ok"
            THEN Answers(WizardGate(page)) /\ UNCHANGED <<server, unproxied>>
          ELSE IF ~Has(op) THEN Answers("400") /\ UNCHANGED <<server, unproxied>>
          ELSE \E next \in Leaves(op) :
            /\ Becomes(op, next)
            /\ Answers(IF op \in {"zone", "fix"} /\ ~next["proxy"] THEN "no" ELSE "ok")
  BY DEF SetUp
<1>2. page.call.op = op
  BY <1>1 DEF Awaits
<1>3. CASE WizardGate(page) # "ok"
  <2>1. Answers(WizardGate(page)) /\ server' = server /\ unproxied' = unproxied
    BY <1>1, <1>3
  <2>2. WizardGate(page) \in Answered
    BY DEF WizardGate, Standing, Answered
  <2> QED
    BY <1>3, <2>1, <2>2, AnsweredOnly
<1>4. CASE WizardGate(page) = "ok" /\ ~Has(op)
  <2>1. Answers("400") /\ server' = server /\ unproxied' = unproxied
    BY <1>1, <1>4
  <2> QED
    BY <2>1, AnsweredOnly DEF Answered
<1>5. CASE WizardGate(page) = "ok" /\ Has(op)
  <2>1. PICK next \in Leaves(op) :
            /\ Becomes(op, next)
            /\ Answers(IF op \in {"zone", "fix"} /\ ~next["proxy"] THEN "no" ELSE "ok")
    BY <1>1, <1>5
  <2>2. ~server.complete /\ server.claimed
    BY <1>5 DEF WizardGate
  <2>3. Sound(server, unproxied) /\ unproxied \in BOOLEAN /\ Earned(page, server, unproxied)
    BY DEF AppInv
  <2>4. op \in {"ssl", "attach"} => server.pending["proxy"] \/ unproxied
    <3>1. ~unproxied => Rests(page.call, server.pending)
      BY <2>2, <2>3 DEF Earned
    <3> QED
      BY <1>2, <3>1 DEF Rests
  <2>5. /\ Sound(server', unproxied') /\ unproxied' \in BOOLEAN
        /\ (op = "finish") => server'.complete
        /\ ~server'.complete /\ ~unproxied' =>
              /\ ~unproxied
              /\ server.pending["proxy"] => server'.pending["proxy"]
              /\ server.pending["verified"] => server'.pending["verified"]
              /\ op \in {"zone", "fix"} => server'.pending["proxy"] = next["proxy"]
              /\ op = "challenge" => server'.pending["verified"]
    BY <1>5, <2>1, <2>2, <2>3, <2>4, Worked
  <2>6. Earned(page, server', unproxied')
    BY <2>2, <2>3, <2>5, StillEarned
  <2> DEFINE got == IF op \in {"zone", "fix"} /\ ~next["proxy"] THEN "no" ELSE "ok"
  <2>7. got \in Answered /\ (got = "ok" /\ op \in {"zone", "fix"} => next["proxy"])
    BY DEF Answered
  <2>8. page' = [page EXCEPT !.call.got = got]
    BY <2>1 DEF Answers
  <2> HIDE DEF got
  <2>9. Earned([page EXCEPT !.call.got = got], server', unproxied')
    BY <1>2, <2>5, <2>6, <2>7, CallAnswered
  <2> QED
    BY <2>5, <2>8, <2>9 DEF AppInv
<1> QED
  BY <1>3, <1>4, <1>5

LEMMA LoseCallStep ==
  ASSUME AppInv, LoseCall
  PROVE  AppInv'
<1>1. Answers("lost") /\ server' = server /\ unproxied' = unproxied
  BY DEF LoseCall
<1> QED
  BY <1>1, AnsweredOnly DEF Answered

LEMMA ReleaseStep ==
  ASSUME AppInv, Release
  PROVE  AppInv'
<1>1. server' = [server EXCEPT !.accepted = FALSE] /\ page' = page /\ unproxied' = unproxied
  BY DEF Release
<1>2. Earned(page, server, unproxied) /\ server \in Server /\ (server.complete => server.claimed)
  BY DEF AppInv, Sound
<1>3. server' \in Server /\ server'.complete = server.complete
      /\ server'.claimed = server.claimed /\ server'.pending = server.pending
  BY <1>1, <1>2 DEF Server
<1> QED
  BY <1>1, <1>2, <1>3, Advanced

LEMMA ElsewhereStep ==
  ASSUME AppInv, Elsewhere
  PROVE  AppInv'
<1>1. PICK op \in {o \in WizardOps : Has(o)} :
       /\ op \in {"ssl", "attach"} => server.pending["proxy"] \/ unproxied
       /\ \E next \in Leaves(op) : Becomes(op, next)
  BY DEF Elsewhere
<1>2. PICK next \in Leaves(op) : Becomes(op, next)
  BY <1>1
<1>3. server.claimed /\ ~server.complete /\ page' = page
  BY DEF Elsewhere
<1>4. Sound(server, unproxied) /\ unproxied \in BOOLEAN /\ Earned(page, server, unproxied)
  BY DEF AppInv
<1>5. op \in WizardOps /\ Has(op)
  BY <1>1
<1>6. /\ Sound(server', unproxied') /\ unproxied' \in BOOLEAN
      /\ ~server'.complete /\ ~unproxied' =>
            /\ ~unproxied
            /\ server.pending["proxy"] => server'.pending["proxy"]
            /\ server.pending["verified"] => server'.pending["verified"]
  BY <1>1, <1>2, <1>3, <1>4, <1>5, Worked
<1>7. Earned(page, server', unproxied')
  BY <1>3, <1>4, <1>6, StillEarned
<1> QED
  BY <1>3, <1>6, <1>7 DEF AppInv

-----------------------------------------------------------------------------
\* What the wizard does with the answer to one of its steps.
LEMMA Stepped ==
  ASSUME NEW p, NEW s, NEW u, Sound(s, u), Earned(p, s, u), p.call = NoCall,
         NEW op \in WizardOps, NEW got \in Answered,
         op = "finish" /\ got = "ok" => s.complete,
         ~s.complete /\ ~u =>
           /\ op \in {"ssl", "attach"} \/ (op \in {"zone", "fix"} /\ got = "ok") => s.pending["proxy"]
           /\ op = "challenge" /\ got = "ok" => s.pending["verified"]
  PROVE  Earned(AfterStep(p, op, got), s, u)
<1> DEFINE q == AfterStep(p, op, got)
<1>1. p \in OpenPage /\ s \in Server
  BY DEF Earned, Sound
<1>2. ~s.complete /\ ~u => Stands(p, s.pending)
  BY DEF Earned
<1>3. CASE op \in {"token"} /\ got \in {"ok"}
  <2>1. q = [p EXCEPT !.tokenOk = TRUE, !.phase = "zone"]
    BY <1>3 DEF AfterStep
  <2>2. q \in OpenPage /\ q.call = p.call /\ q.view = p.view /\ q.step = p.step
        /\ q.phase = "zone" /\ q.verified = p.verified
    BY <1>1, <2>1 DEF OpenPage, Phases
  <2> HIDE DEF q
  <2>3. ~s.complete /\ ~u => Stands(q, s.pending)
    BY <1>2, <2>2 DEF Stands
  <2>4. Earned(q, s, u)
    BY <2>2, <2>3, PageMoved
  <2> QED
    BY <2>4 DEF q
<1>4. CASE op \in {"zone", "fix"} /\ got \in {"ok"}
  <2>1. q = [p EXCEPT !.found = "ok", !.phase = "ssl"]
    BY <1>4 DEF AfterStep
  <2>2. q \in OpenPage /\ q.call = p.call /\ q.view = p.view /\ q.step = p.step
        /\ q.phase = "ssl" /\ q.verified = p.verified
    BY <1>1, <2>1 DEF OpenPage, Phases
  <2> HIDE DEF q
  <2>3. ~s.complete /\ ~u => Stands(q, s.pending)
    BY <1>2, <1>4, <2>2 DEF Stands
  <2>4. Earned(q, s, u)
    BY <2>2, <2>3, PageMoved
  <2> QED
    BY <2>4 DEF q
<1>5. CASE op \in {"zone", "fix"} /\ got \in {"no"}
  <2>1. q = [p EXCEPT !.found = "no"]
    BY <1>5 DEF AfterStep
  <2>2. q \in OpenPage /\ q.call = p.call /\ q.view = p.view /\ q.step = p.step
        /\ q.phase = p.phase /\ q.verified = p.verified
    BY <1>1, <2>1 DEF OpenPage, Phases
  <2> HIDE DEF q
  <2>3. ~s.complete /\ ~u => Stands(q, s.pending)
    BY <1>2, <2>2 DEF Stands
  <2>4. Earned(q, s, u)
    BY <2>2, <2>3, PageMoved
  <2> QED
    BY <2>4 DEF q
<1>6. CASE op \in {"ssl"} /\ got \in {"ok"}
  <2>1. q = [p EXCEPT !.phase = "domain"]
    BY <1>6 DEF AfterStep
  <2>2. q \in OpenPage /\ q.call = p.call /\ q.view = p.view /\ q.step = p.step
        /\ q.phase = "domain" /\ q.verified = p.verified
    BY <1>1, <2>1 DEF OpenPage, Phases
  <2> HIDE DEF q
  <2>3. ~s.complete /\ ~u => Stands(q, s.pending)
    BY <1>2, <1>6, <2>2 DEF Stands
  <2>4. Earned(q, s, u)
    BY <2>2, <2>3, PageMoved
  <2> QED
    BY <2>4 DEF q
<1>7. CASE op \in {"attach"} /\ got \in {"ok"}
  <2>1. q = [p EXCEPT !.step = 3]
    BY <1>7 DEF AfterStep
  <2>2. q \in OpenPage /\ q.call = p.call /\ q.view = p.view /\ q.step = 3
        /\ q.phase = p.phase /\ q.verified = p.verified
    BY <1>1, <2>1 DEF OpenPage, Phases
  <2> HIDE DEF q
  <2>3. ~s.complete /\ ~u => Stands(q, s.pending)
    BY <1>2, <1>7, <2>2 DEF Stands
  <2>4. Earned(q, s, u)
    BY <2>2, <2>3, PageMoved
  <2> QED
    BY <2>4 DEF q
<1>8. CASE op \in {"provision"} /\ got \in {"ok"}
  <2>1. q = [p EXCEPT !.widget = TRUE]
    BY <1>8 DEF AfterStep
  <2>2. q \in OpenPage /\ q.call = p.call /\ q.view = p.view /\ q.step = p.step
        /\ q.phase = p.phase /\ q.verified = p.verified
    BY <1>1, <2>1 DEF OpenPage, Phases
  <2> HIDE DEF q
  <2>3. ~s.complete /\ ~u => Stands(q, s.pending)
    BY <1>2, <2>2 DEF Stands
  <2>4. Earned(q, s, u)
    BY <2>2, <2>3, PageMoved
  <2> QED
    BY <2>4 DEF q
<1>9. CASE op \in {"challenge"} /\ got \in {"ok"}
  <2>1. q = [p EXCEPT !.verified = TRUE, !.step = 4]
    BY <1>9 DEF AfterStep
  <2> DEFINE r == [p EXCEPT !.verified = TRUE]
  <2>2. r \in OpenPage /\ r.call = p.call /\ r.view = p.view /\ r.phase = p.phase
        /\ r.verified = TRUE
    BY <1>1 DEF OpenPage
  <2>3. q = [r EXCEPT !.step = 4]
    BY <1>1, <2>1 DEF OpenPage
  <2> HIDE DEF q, r
  <2>4. q \in OpenPage /\ q.call = p.call /\ q.view = p.view /\ q.step = 4
        /\ q.phase = p.phase /\ q.verified = TRUE
    BY <2>2, <2>3 DEF OpenPage
  <2>5. ~s.complete /\ ~u => s.pending["verified"] /\ s.pending["proxy"]
    BY <1>9 DEF Sound
  <2>6. ~s.complete /\ ~u => Stands(q, s.pending)
    BY <2>4, <2>5 DEF Stands
  <2>7. Earned(q, s, u)
    BY <2>4, <2>6, PageMoved
  <2> QED
    BY <2>7 DEF q
<1>10. CASE op \in {"finish"} /\ got \in {"ok"}
  <2>1. q = [p EXCEPT !.call = AppCall("bootstrap", "complete")]
    BY <1>10 DEF AfterStep
  <2>2. s.complete
    BY <1>10
  <2> HIDE DEF q
  <2>3. Earned(q, s, u)
    BY <1>1, <2>1, <2>2, Called DEF Calls, Flows
  <2> QED
    BY <2>3 DEF q
<1>11. CASE got \in {"401"}
  <2>1. q = Show(p, "login")
    BY <1>11 DEF AfterStep
  <2> HIDE DEF q
  <2>2. Earned(q, s, u)
    BY <1>1, <2>1, Shown
  <2> QED
    BY <2>2 DEF q
<1>12. CASE got \notin {"ok", "401"} /\ ~(op \in {"zone", "fix"} /\ got \in {"no"})
  <2>1. q = p
    BY <1>12 DEF AfterStep
  <2> QED
    BY <2>1
<1> QED
  BY <1>3, <1>4, <1>5, <1>6, <1>7, <1>8, <1>9, <1>10, <1>11, <1>12 DEF WizardOps

\* Where the flow of a start, a sign-in, the terms, an invite or the wizard ends.
LEMMA FlowEnded ==
  ASSUME NEW p, NEW s, NEW u, Sound(s, u), Earned(p, s, u), p.call = NoCall,
         NEW flow, NEW got, NEW boot \in Server,
         flow # "boot" \/ boot.complete => s.complete,
         ~s.complete /\ ~u => Recalls(boot.pending, s.pending)
  PROVE  Earned(AfterState(p, flow, boot, got), s, u)
<1>1. p \in OpenPage /\ s \in Server
  BY DEF Earned, Sound
<1>2. Earned(OpenWizard(p, boot), s, u)
  BY <1>1, WizardOpened
<1>3. Earned(Show(p, "tos"), s, u) /\ Earned(Show(p, "login"), s, u)
  BY <1>1, Shown
<1>4. s.complete => Earned(Show(p, "dashboard"), s, u)
  BY <1>1, Shown
<1> QED
  BY <1>2, <1>3, <1>4 DEF AfterState

LEMMA HearStep ==
  ASSUME AppInv, Hear
  PROVE  AppInv'
<1> DEFINE k == page.call
           got == page.call.got
           p == [page EXCEPT !.call = NoCall]
<1>1. Earned(page, server, unproxied) /\ page \in OpenPage /\ server \in Server
      /\ Sound(server, unproxied)
  BY DEF AppInv, Earned, Sound
<1>2. k \in Call /\ got \in Answered /\ k.op \in Calls /\ k.boot \in Server
  BY <1>1 DEF OpenPage, Call
<1>3. Earned(p, server, unproxied) /\ p \in OpenPage /\ p.call = NoCall /\ p.view = page.view
      /\ p.step = page.step /\ p.phase = page.phase /\ p.verified = page.verified
  BY <1>1, Heard
<1>4. /\ page' =
           CASE k.op = "bootstrap" -> IF k.flow = "boot" THEN Show(p, "login") ELSE p
             [] k.op = "state" -> AfterState(p, k.flow, k.boot, got)
             [] k.op = "claim" /\ got = "ok" ->
                  [p EXCEPT !.signed = TRUE, !.step = 2, !.phase = "token"]
             [] k.op = "login" /\ got = "ok" ->
                  [p EXCEPT !.call = AppCall("bootstrap", IF p.known = "none" THEN "first" ELSE "auth")]
             [] k.op \in {"invite", "tos"} /\ got = "ok" ->
                  [p EXCEPT !.call = AppCall("bootstrap", k.op)]
             [] k.op \in WizardOps -> AfterStep(p, k.op, got)
             [] OTHER -> p
      /\ server' = server /\ unproxied' = unproxied
  BY DEF Hear, Turns
<1>5. Finishes(k) => server.complete
  BY <1>1 DEF Earned
<1>6. ~server.complete /\ ~unproxied => Rests(k, server.pending)
  BY <1>1 DEF Earned
<1> HIDE DEF k, got, p
<1>7. CASE k.op \in {"bootstrap"}
  <2>1. page' = Show(p, "login") \/ page' = p
    BY <1>4, <1>7 DEF WizardOps
  <2>2. Earned(page', server, unproxied)
    BY <1>1, <1>3, <2>1, Shown
  <2> QED
    BY <1>4, <2>2, PageTurned
<1>8. CASE k.op \in {"state"}
  <2>1. page' = AfterState(p, k.flow, k.boot, got)
    BY <1>4, <1>8 DEF WizardOps
  <2>2. k.flow # "boot" \/ k.boot.complete => server.complete
    BY <1>5, <1>8 DEF Finishes
  <2>3. ~server.complete /\ ~unproxied => Recalls(k.boot.pending, server.pending)
    BY <1>6 DEF Rests
  <2>4. Earned(page', server, unproxied)
    BY <1>1, <1>2, <1>3, <2>1, <2>2, <2>3, FlowEnded
  <2> QED
    BY <1>4, <2>4, PageTurned
<1>9. CASE k.op \in {"claim"} /\ got \in {"ok"}
  <2> DEFINE q == [p EXCEPT !.signed = TRUE, !.step = 2, !.phase = "token"]
             r == [p EXCEPT !.signed = TRUE]
             a == [r EXCEPT !.phase = "token"]
  <2>1. page' = q
    BY <1>4, <1>9 DEF WizardOps
  <2>2. r \in OpenPage /\ r.call = p.call /\ r.view = p.view /\ r.verified = p.verified
    BY <1>3 DEF OpenPage
  <2>3. q = [a EXCEPT !.step = 2]
    BY <1>3 DEF OpenPage
  <2> HIDE DEF q, r
  <2>4. a \in OpenPage /\ a.call = p.call /\ a.view = p.view /\ a.verified = p.verified
        /\ a.phase = "token"
    BY <2>2 DEF OpenPage, Phases
  <2> HIDE DEF a
  <2>5. q \in OpenPage /\ q.call = p.call /\ q.view = p.view /\ q.step = 2
        /\ q.phase = "token" /\ q.verified = p.verified
    BY <2>3, <2>4 DEF OpenPage
  <2>6. ~server.complete /\ ~unproxied => Stands(q, server.pending)
    BY <1>3, <2>5 DEF Earned, Stands
  <2>7. Earned(q, server, unproxied)
    BY <1>3, <2>5, <2>6, PageMoved
  <2> QED
    BY <1>4, <2>1, <2>7, PageTurned
<1>10. CASE k.op \in {"login"} /\ got \in {"ok"}
  <2> DEFINE flow == IF p.known = "none" THEN "first" ELSE "auth"
  <2>1. page' = [p EXCEPT !.call = AppCall("bootstrap", flow)]
    BY <1>4, <1>10 DEF WizardOps
  <2>2. flow \in {"first", "auth"}
    OBVIOUS
  <2> HIDE DEF flow
  <2>3. "bootstrap" \in Calls /\ flow \in Flows \cup {"none"}
    BY <2>2 DEF Calls, Flows
  <2>4. ~Finishes(AppCall("bootstrap", flow))
    BY <2>2, <2>3, CallFields, NewRecords DEF Finishes
  <2>5. Earned([p EXCEPT !.call = AppCall("bootstrap", flow)], server, unproxied)
    BY <1>1, <1>3, <2>3, <2>4, Called
  <2> QED
    BY <1>4, <2>1, <2>5, PageTurned
<1>11. CASE k.op \in {"invite", "tos"} /\ got \in {"ok"}
  <2>1. page' = [p EXCEPT !.call = AppCall("bootstrap", k.op)]
    BY <1>4, <1>11 DEF WizardOps
  <2>2. "bootstrap" \in Calls /\ k.op \in Flows \cup {"none"}
    BY <1>11 DEF Calls, Flows
  <2>3. k.op \in {"invite"} => server.complete
    BY <1>5 DEF Finishes
  <2>4. k.op \in {"tos"} => ~Finishes(AppCall("bootstrap", k.op))
    BY <2>2, CallFields, NewRecords DEF Finishes
  <2>5. Earned([p EXCEPT !.call = AppCall("bootstrap", k.op)], server, unproxied)
    BY <1>1, <1>3, <1>11, <2>2, <2>3, <2>4, Called
  <2> QED
    BY <1>4, <2>1, <2>5, PageTurned
<1>12. CASE k.op \in WizardOps
  <2>1. page' = AfterStep(p, k.op, got)
    BY <1>4, <1>12 DEF WizardOps
  <2>2. k.op = "finish" /\ got = "ok" => server.complete
    BY <1>5 DEF Finishes, got, k
  <2>3. ~server.complete /\ ~unproxied =>
          /\ k.op \in {"ssl", "attach"} \/ (k.op \in {"zone", "fix"} /\ got = "ok")
               => server.pending["proxy"]
          /\ k.op = "challenge" /\ got = "ok" => server.pending["verified"]
    BY <1>6 DEF Rests, got, k
  <2>4. Earned(page', server, unproxied)
    BY <1>1, <1>2, <1>3, <1>12, <2>1, <2>2, <2>3, Stepped
  <2> QED
    BY <1>4, <2>4, PageTurned
<1>13. CASE /\ k.op \notin {"bootstrap", "state"} \cup WizardOps
            /\ ~(k.op \in {"claim", "login", "invite", "tos"} /\ got \in {"ok"})
  <2>1. page' = p
    BY <1>4, <1>13
  <2> QED
    BY <1>3, <1>4, <2>1, PageTurned
<1> QED
  BY <1>7, <1>8, <1>9, <1>10, <1>11, <1>12, <1>13

LEMMA AppInductive == AppInv /\ [AppNext]_appVars => AppInv'
<1> SUFFICES ASSUME AppInv, [AppNext]_appVars PROVE AppInv'
  OBVIOUS
<1>1. CASE UNCHANGED appVars
  BY <1>1 DEF appVars, AppInv
<1>2. CASE Reload \/ Navigate \/ OtherToken \/ Press \/ SignOut \/ ExpireSession
  BY <1>2, ReloadStep, NavigateStep, OtherTokenStep, PressStep, SignOutStep, ExpireSessionStep
<1>3. CASE Bootstrap \/ State \/ ClaimWorker \/ SignIn \/ AcceptTos \/ SetUp
  BY <1>3, BootstrapStep, StateStep, ClaimWorkerStep, SignInStep, AcceptTosStep, SetUpStep
<1>4. CASE LoseCall \/ Hear \/ Release \/ Elsewhere
  BY <1>4, LoseCallStep, HearStep, ReleaseStep, ElsewhereStep
<1> QED
  BY <1>1, <1>2, <1>3, <1>4 DEF AppNext

\* Whatever is lost, however late an answer is heard and whatever other wizards do, a
\* dashboard is shown only of a worker whose setup was finished, and a wizard stands
\* past a step only when the worker has it done, unless a site that was known to be
\* proxied was found not to be.
THEOREM PagesAreEarned == AppSpec => []PageEarned
<1>1. AppInv => PageEarned
  BY DEF AppInv, Earned, Stands, PageEarned
<1> QED
  BY <1>1, AppStarts, AppInductive, PTL DEF AppSpec


-----------------------------------------------------------------------------
\* The bounds of the instance hold of what they bound.
Bounded ==
  releases \in 0 .. MaxReleases /\ failed \in 0 .. MaxLost

LEMMA BoundsKept == Bounded /\ [AppNext]_appVars => Bounded'
<1>1. SUFFICES ASSUME Bounded, [AppNext]_appVars PROVE Bounded'
  OBVIOUS
<1>2. CASE ExpireSession \/ LoseCall
  BY <1>1, <1>2, AppAssumption DEF ExpireSession, LoseCall, Bounded
<1>3. CASE Release
  BY <1>1, <1>3, AppAssumption DEF Release, Bounded
<1>4. CASE UNCHANGED <<releases, failed>>
  BY <1>1, <1>4 DEF Bounded
<1>5. CASE \/ Reload \/ Navigate \/ OtherToken \/ Press \/ SignOut \/ Bootstrap \/ State
           \/ ClaimWorker \/ SignIn \/ AcceptTos \/ SetUp \/ Hear \/ Elsewhere
  <2>1. UNCHANGED <<releases, failed>>
    BY <1>5 DEF Reload, Navigate, OtherToken, Press, Sends, SignOut, Bootstrap, State, ClaimWorker,
       SignIn, AcceptTos, SetUp, Hear, Elsewhere, Turns
  <2> QED
    BY <1>4, <2>1
<1>6. CASE UNCHANGED appVars
  BY <1>4, <1>6 DEF appVars
<1> QED
  BY <1>1, <1>2, <1>3, <1>5, <1>6 DEF AppNext

LEMMA BoundsStart == AppInit => Bounded
  BY AppAssumption DEF AppInit, Bounded

LEMMA AppShaped ==
  ASSUME AppInv, Bounded
  PROVE  AppTypeOK
<1>1. server \in Server /\ unproxied \in BOOLEAN /\ page \in OpenPage
  BY DEF AppInv, Sound, Earned
<1>2. page.call.flow \in Flows \cup {"none"}
  BY <1>1 DEF OpenPage, Call
<1>3. DOMAIN page \ {"call"} = {"view", "session", "known", "signed", "step", "phase", "tokenOk",
                               "found", "widget", "verified"}
  BY <1>1 DEF OpenPage
<1>4. [f \in DOMAIN page \ {"call"} |-> page[f]] \in Page
  BY <1>1, <1>3 DEF OpenPage, Page
<1> QED
  BY <1>1, <1>2, <1>4 DEF AppTypeOK, Bounded

\* Whatever the operator presses and whichever answers are late or lost, the page shows one of
\* its views with the wizard at one of its steps, and goes on from a bootstrap in one of the
\* ways that App knows.
THEOREM AppTyped == AppSpec => []AppTypeOK
<1>1. AppSpec => [](AppInv /\ Bounded)
  BY AppStarts, AppInductive, BoundsStart, BoundsKept, PTL DEF AppSpec
<1> QED
  BY <1>1, AppShaped, PTL

-----------------------------------------------------------------------------
(***************************************************************************)
(* All three at once.                                                      *)
(***************************************************************************)
\* What is true of the three parts of the instance that the runs check.
AdminInv == StoredInv /\ AppInv /\ Bounded /\ ControlInv /\ Numbered

LEMMA AdminInductive ==
  AdminInv /\ [AdminNext]_<<setupVars, appVars, controlVars, part>> => AdminInv'
<1>1. SUFFICES ASSUME AdminInv, [AdminNext]_<<setupVars, appVars, controlVars, part>>
               PROVE  AdminInv'
  OBVIOUS
<1>2. [SetupNext]_setupVars /\ [AppNext]_appVars /\ [ControlNext]_controlVars
  BY <1>1 DEF AdminNext
<1>3. StoredInv'
  BY <1>1, <1>2, StoredInductive DEF AdminInv
<1>4. AppInv' /\ Bounded'
  BY <1>1, <1>2, AppInductive, BoundsKept DEF AdminInv
<1>5. ControlInv' /\ Numbered'
  BY <1>1, <1>2, ControlInductive, NumbersKept DEF AdminInv
<1> QED
  BY <1>3, <1>4, <1>5 DEF AdminInv

\* The records behind the wizard, the pages and the requests of the control room keep their
\* shape, whichever of the three is at work.
THEOREM AdminTyped == AdminSpec => []AdminTypeOK
<1>1. AdminInit => AdminInv
  BY StoredStarts, AppStarts, BoundsStart, ControlStarts, NumbersStart DEF AdminInit, AdminInv
<1>2. AdminInv => AdminTypeOK
  <2>1. StoredInv => SetupTypeOK
    BY DEF StoredInv
  <2> QED
    BY <2>1, AppShaped, ControlShaped DEF AdminInv, AdminTypeOK
<1> QED
  BY <1>1, <1>2, AdminInductive, PTL DEF AdminSpec
=============================================================================
