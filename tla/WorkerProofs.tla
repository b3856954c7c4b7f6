---------------------------- MODULE WorkerProofs ----------------------------
(***************************************************************************)
(* Proofs about AdmissionTokens and about QueueSimulator.                  *)
(*                                                                         *)
(* TokenFollowsSeat is made inductive by what a request in flight knows:   *)
(* the seat it was answered with had been confirmed, and join saw it       *)
(* before its end.  GateCurrent is made inductive by what the gate knows:  *)
(* the epoch it has read is no older than the one its request began in.    *)
(*                                                                         *)
(* The simulator's counts and its order are made inductive by where the    *)
(* visitors' entries lie: whoever waits has one that was not read, and     *)
(* those of visitors that waited through lie in the order they came.  The  *)
(* work is in what a fill does to the deque, for any length of it and any  *)
(* splice.                                                                 *)
(***************************************************************************)
EXTENDS MCWorker, AccessRulesProofs, FiniteSetTheorems, WellFoundedInduction, TLAPS

\* A confirmed seat is on record.
SeatsRecorded ==
  \A v \in Visitor : IsConfirmed(seat[v]) =>
    \E c \in confirmed : c.sub = v /\ c.at = seat[v].at

\* What a request that will sign a token carries.
Carried(q, conf) ==
  q.sub \in Visitor =>
    \E c \in conf : /\ c.sub = q.sub /\ c.at = q.at
                    /\ q.op = "join" => q.since < c.at + TokenTtl

\* What a request in flight knows, given the record, the instant, the epoch.
Fit(q, conf, t, e) ==
  /\ q.pc \in {"seated", "epoch"} => Carried(q, conf)
  /\ q.pc # "idle" => t <= q.since + Latency
  /\ q.begun <= e
  /\ q.pc = "verify" => q.begun <= q.epoch
  /\ q.pc = "served" => q.begun <= q.token.epoch

RequestsFit == \A r \in Request : Fit(request[r], confirmed, clock, epoch)

IInv == TypeOK /\ SeatsRecorded /\ RequestsFit /\ TokenFollowsSeat

RequestType == [pc: {"idle", "seated", "epoch", "gate", "verify", "served"},
                op: Op, sub: Visitor \cup {Guest}, at: Nat, since: Nat,
                begun: Nat, epoch: Nat, token: Token]

LEMMA IdleType == Idle \in RequestType
  BY DEF Idle, RequestType, NoToken, Token, Op

LEMMA IdleFits == ASSUME NEW conf, NEW t, NEW e \in Nat PROVE Fit(Idle, conf, t, e)
  BY DEF Fit, Idle

LEMMA InitInv == Init => IInv
<1> SUFFICES ASSUME Init PROVE IInv
  OBVIOUS
<1>1. TypeOK
  BY IdleType DEF Init, TypeOK, NoSeat, Seat, RequestType
<1>2. SeatsRecorded
  BY DEF Init, SeatsRecorded, IsConfirmed, NoSeat
<1>3. RequestsFit
  <2>1. \A r \in Request : request[r] = Idle
    BY DEF Init
  <2>2. epoch \in Nat
    BY DEF Init
  <2> QED
    BY <2>1, <2>2, IdleFits DEF RequestsFit
<1>4. TokenFollowsSeat
  BY DEF Init, TokenFollowsSeat, OfVisitor
<1> QED
  BY <1>1, <1>2, <1>3, <1>4 DEF IInv

\* Sweeping only takes seats away.
LEMMA SweptSeats ==
  ASSUME TypeOK
  PROVE  /\ Swept \in [Visitor -> Seat]
         /\ \A t : SweptAt(t) \in [Visitor -> Seat]
         /\ \A v \in Visitor : IsConfirmed(Swept[v]) => clock < seat[v].at + TokenTtl
                                                      /\ Swept[v] = seat[v]
<1>1. GoneSeat \in Seat /\ ~IsConfirmed(GoneSeat)
  BY DEF GoneSeat, NoSeat, Seat, IsConfirmed
<1>2. \A t : SweptAt(t) \in [Visitor -> Seat]
  BY <1>1 DEF TypeOK, SweptAt
<1>3. ASSUME NEW v \in Visitor, IsConfirmed(Swept[v])
      PROVE  clock < seat[v].at + TokenTtl /\ Swept[v] = seat[v]
  <2>1. Swept[v] = seat[v] /\ ~Lapsed(seat[v], clock)
    BY <1>1, <1>3 DEF Swept, SweptAt
  <2>2. clock \in Nat /\ seat[v].at \in Nat /\ TokenTtl \in Nat
    BY TokenAssumption DEF TypeOK, Seat
  <2> QED
    BY <1>3, <2>1, <2>2 DEF Lapsed, IsConfirmed
<1> QED
  BY <1>2, <1>3 DEF Swept

\* Writing seats keeps the record complete and never shortens it.
LEMMA SetSeatsKeeps ==
  ASSUME IInv, NEW s \in [Visitor -> Seat], SetSeats(s)
  PROVE  /\ seat' \in [Visitor -> Seat]
         /\ confirmed' \subseteq [sub: Visitor, at: Nat, epoch: Nat]
         /\ confirmed \subseteq confirmed'
         /\ SeatsRecorded'
<1>1. epoch \in Nat /\ confirmed \subseteq [sub: Visitor, at: Nat, epoch: Nat]
  BY DEF IInv, TypeOK
<1>2. \A v \in Visitor : s[v].at \in Nat
  BY DEF Seat
<1>3. confirmed' \subseteq [sub: Visitor, at: Nat, epoch: Nat] /\ confirmed \subseteq confirmed'
  BY <1>1, <1>2 DEF SetSeats
<1>4. ASSUME NEW v \in Visitor, IsConfirmed(s[v])
      PROVE  \E c \in confirmed' : c.sub = v /\ c.at = s[v].at
  <2>1. CASE s[v] = seat[v]
    BY <1>3, <1>4, <2>1 DEF IInv, SeatsRecorded
  <2>2. CASE s[v] # seat[v]
    <3> DEFINE c == [sub |-> v, at |-> s[v].at, epoch |-> epoch]
    <3>1. c \in confirmed'
      BY <1>4, <2>2 DEF SetSeats
    <3> QED
      BY <3>1
  <2> QED
    BY <2>1, <2>2
<1> QED
  BY <1>3, <1>4 DEF SetSeats, SeatsRecorded

\* What the record of seats supports, it still supports when it has grown.
LEMMA TokensFollowLater ==
  ASSUME IInv, confirmed \subseteq confirmed', UNCHANGED tokens
  PROVE  TokenFollowsSeat'
  BY DEF IInv, TokenFollowsSeat, OfVisitor

LEMMA RecordGrows ==
  ASSUME NEW old, NEW new, old \subseteq new, NEW q, NEW t, NEW e, Fit(q, old, t, e)
  PROVE  Fit(q, new, t, e)
<1>1. Carried(q, old) => Carried(q, new)
  BY DEF Carried
<1> QED
  BY <1>1 DEF Fit

\* One request moves on, to a record that fits what has happened.
LEMMA OneRequest ==
  ASSUME IInv, NEW r \in Request, NEW q \in RequestType,
         request' = [request EXCEPT ![r] = q],
         confirmed \subseteq confirmed', UNCHANGED <<clock, epoch>>,
         Fit(q, confirmed', clock, epoch)
  PROVE  RequestsFit' /\ request' \in [Request -> RequestType]
<1>1. request \in [Request -> RequestType]
  BY DEF IInv, TypeOK, RequestType
<1>2. ASSUME NEW x \in Request PROVE Fit(request'[x], confirmed', clock, epoch)
  <2>1. CASE x = r
    BY <1>1, <2>1
  <2>2. CASE x # r
    <3>1. request'[x] = request[x] /\ Fit(request[x], confirmed, clock, epoch)
      BY <1>1, <2>2 DEF IInv, RequestsFit
    <3> QED
      BY <3>1, RecordGrows
  <2> QED
    BY <2>1, <2>2
<1>3. request' \in [Request -> RequestType]
  BY <1>1
<1> QED
  BY <1>2, <1>3 DEF RequestsFit

\* No request moves on while the record grows.
LEMMA NoRequest ==
  ASSUME IInv, confirmed \subseteq confirmed', UNCHANGED <<request, clock, epoch>>
  PROVE  RequestsFit'
<1>1. ASSUME NEW x \in Request PROVE Fit(request[x], confirmed', clock, epoch)
  BY RecordGrows DEF IInv, RequestsFit
<1> QED
  BY <1>1 DEF RequestsFit

-----------------------------------------------------------------------------
(***************************************************************************)
(* One lemma per action.                                                   *)
(***************************************************************************)
LEMMA SeatTypes ==
  ASSUME TypeOK
  PROVE  /\ NoSeat \in Seat /\ WaitingSeat \in Seat /\ GoneSeat \in Seat
         /\ \A t \in Nat, e \in BOOLEAN : Given(t, e) \in Seat
         /\ \A f \in [Visitor -> Seat], v \in Visitor, t \in Seat :
              [f EXCEPT ![v] = t] \in [Visitor -> Seat]
<1>1. NoSeat \in Seat /\ WaitingSeat \in Seat /\ GoneSeat \in Seat
  BY DEF NoSeat, WaitingSeat, GoneSeat, Seat
<1>2. \A t \in Nat, e \in BOOLEAN : Given(t, e) \in Seat
  BY DEF TypeOK, Given, Seat
<1> QED
  BY <1>1, <1>2

LEMMA RoomStep == ASSUME IInv, Room PROVE IInv'
<1>1. TypeOK /\ seat \in [Visitor -> Seat]
  BY DEF IInv, TypeOK
<1>2. PICK s \in [Visitor -> Seat] : SetSeats(s)
  <2>1. CASE \E v \in Visitor : RoomAdmits(v)
    <3>1. PICK v \in Visitor, t \in Recent, e \in BOOLEAN :
            SetSeats([seat EXCEPT ![v] = Given(t, e)])
      BY <2>1 DEF RoomAdmits
    <3>2. Given(t, e) \in Seat
      BY <1>1, SeatTypes DEF Recent
    <3> QED
      BY <1>1, <3>1, <3>2, SeatTypes
  <2>2. CASE \E v \in Visitor : RoomExpires(v) \/ RoomPurges(v)
    BY <1>1, <2>2, SeatTypes DEF RoomExpires, RoomPurges
  <2>3. CASE RoomSweeps
    BY <1>1, <2>3, SweptSeats DEF RoomSweeps
  <2> QED
    BY <2>1, <2>2, <2>3 DEF Room
<1>3. /\ seat' \in [Visitor -> Seat] /\ confirmed \subseteq confirmed' /\ SeatsRecorded'
      /\ confirmed' \subseteq [sub: Visitor, at: Nat, epoch: Nat]
  BY <1>2, SetSeatsKeeps
<1>4. UNCHANGED <<clock, epoch, tokens, request>>
  BY DEF Room
<1>5. TypeOK'
  BY <1>1, <1>3, <1>4 DEF TypeOK
<1> QED
  BY <1>3, <1>4, <1>5, NoRequest, TokensFollowLater DEF IInv

\* A route that ends, or goes on with the seat the room answered.
LEMMA AnswerStep ==
  ASSUME IInv, NEW r \in Request, NEW v \in Visitor, NEW op \in Op,
         NEW s \in [Visitor -> Seat], SetSeats(s),
         Answer(r, op, v, s[v]) \/ NoAnswer(r),
         UNCHANGED <<clock, epoch, tokens>>,
         op = "join" /\ IsConfirmed(s[v]) => clock < s[v].at + TokenTtl
  PROVE  IInv'
<1>1. TypeOK /\ clock \in Nat /\ epoch \in Nat
  BY DEF IInv, TypeOK
<1>2. /\ seat' \in [Visitor -> Seat] /\ confirmed \subseteq confirmed' /\ SeatsRecorded'
      /\ confirmed' \subseteq [sub: Visitor, at: Nat, epoch: Nat]
  BY SetSeatsKeeps
<1>3. RequestsFit' /\ request' \in [Request -> RequestType]
  <2>1. CASE UNCHANGED request
    BY <1>1, <1>2, <2>1, NoRequest DEF TypeOK, RequestType
  <2>2. CASE CanIssue(s[v]) /\ Answer(r, op, v, s[v])
    <3> DEFINE q == [pc |-> "seated", op |-> op, sub |-> v, at |-> s[v].at,
                     since |-> clock, begun |-> epoch, epoch |-> 0, token |-> NoToken]
    <3>1. request' = [request EXCEPT ![r] = q]
      BY <2>2 DEF Answer, Begin, Idle
    <3>2. q \in RequestType
      BY <1>1 DEF RequestType, NoToken, Token, Op, Seat
    <3>3. \E c \in confirmed' : c.sub = v /\ c.at = s[v].at
      BY <1>2, <2>2 DEF SeatsRecorded, SetSeats, CanIssue, IsConfirmed
    <3>4. Carried(q, confirmed')
      BY <2>2, <3>3 DEF Carried, CanIssue, IsConfirmed
    <3>5. clock <= clock + Latency /\ epoch <= epoch
      BY <1>1, TokenAssumption
    <3>6. Fit(q, confirmed', clock, epoch)
      BY <3>4, <3>5 DEF Fit
    <3> HIDE DEF q
    <3> QED
      BY <1>2, <3>1, <3>2, <3>6, OneRequest
  <2> QED
    BY <2>1, <2>2 DEF Answer, NoAnswer
<1>4. TypeOK'
  BY <1>1, <1>2, <1>3 DEF TypeOK, RequestType
<1> QED
  BY <1>2, <1>3, <1>4, TokensFollowLater DEF IInv

LEMMA JoinStep ==
  ASSUME IInv, NEW r \in Request, NEW v \in Visitor, HandleJoin(r, v),
         UNCHANGED <<clock, epoch, tokens>>
  PROVE  IInv'
<1>1. TypeOK /\ clock \in Nat /\ TokenTtl \in Nat \ {0}
  BY TokenAssumption DEF IInv, TypeOK
<1>2. Swept \in [Visitor -> Seat]
  BY <1>1, SweptSeats
<1>3. PICK p \in Joined(v) : SetSeats([Swept EXCEPT ![v] = p]) /\ Answer(r, "join", v, p)
  BY DEF HandleJoin
<1>4. p = Swept[v] \/ p \in {NoSeat, WaitingSeat, GoneSeat, Given(clock, TRUE), Given(clock, FALSE)}
  BY <1>1, <1>2 DEF Joined, Seat
<1>5. p \in Seat
  BY <1>1, <1>2, <1>4, SeatTypes, ZenonT(40)
<1>6. IsConfirmed(p) => clock < p.at + TokenTtl
  <2>1. CASE p = Swept[v]
    BY <1>1, <2>1, SweptSeats
  <2>2. CASE p \in {NoSeat, WaitingSeat, GoneSeat}
    BY <2>2 DEF NoSeat, WaitingSeat, GoneSeat, IsConfirmed
  <2>3. CASE p \in {Given(clock, TRUE), Given(clock, FALSE)}
    BY <1>1, <2>3 DEF Given
  <2> QED
    BY <1>4, <2>1, <2>2, <2>3
<1> DEFINE s == [Swept EXCEPT ![v] = p]
<1>7. s \in [Visitor -> Seat] /\ s[v] = p /\ "join" \in Op
  BY <1>2, <1>5 DEF Op
<1> HIDE DEF s
<1> QED
  BY <1>3, <1>6, <1>7, AnswerStep DEF s

LEMMA StatusStep ==
  ASSUME IInv, NEW r \in Request, NEW v \in Visitor, HandleStatus(r, v),
         UNCHANGED <<clock, epoch, tokens>>
  PROVE  IInv'
<1>1. TypeOK /\ seat \in [Visitor -> Seat] /\ "status" \in Op
  BY DEF IInv, TypeOK, Op
<1>2. PICK s \in {seat, Swept} : SetSeats(s) /\ Answer(r, "status", v, s[v])
  BY DEF HandleStatus
<1>3. s \in [Visitor -> Seat]
  BY <1>1, <1>2, SweptSeats
<1> QED
  BY <1>1, <1>2, <1>3, AnswerStep

LEMMA EnterStep ==
  ASSUME IInv, NEW r \in Request, NEW v \in Visitor, HandleEnter(r, v),
         UNCHANGED <<clock, epoch, tokens>>
  PROVE  IInv'
<1>1. TypeOK /\ "enter" \in Op
  BY DEF IInv, Op
<1>2. Swept \in [Visitor -> Seat]
  BY <1>1, SweptSeats
<1>3. CASE Swept[v].status = "admitted"
  <2> DEFINE s == [Swept EXCEPT ![v].entered = TRUE]
  <2>1. SetSeats(s) /\ Answer(r, "enter", v, s[v])
    BY <1>3 DEF HandleEnter
  <2>2. s \in [Visitor -> Seat]
    BY <1>2 DEF Seat
  <2> HIDE DEF s
  <2> QED
    BY <1>1, <2>1, <2>2, AnswerStep
<1>4. CASE Swept[v].status # "admitted"
  BY <1>1, <1>2, <1>4, AnswerStep DEF HandleEnter
<1> QED
  BY <1>3, <1>4

LEMMA LeaveStep ==
  ASSUME IInv, NEW r \in Request, NEW v \in Visitor, HandleLeave(r, v),
         UNCHANGED <<clock, epoch, tokens>>
  PROVE  IInv'
<1>1. TypeOK /\ "status" \in Op
  BY DEF IInv, Op
<1>2. Swept \in [Visitor -> Seat]
  BY <1>1, SweptSeats
<1> DEFINE s == [Swept EXCEPT ![v] = IF @.status \in {"waiting", "admitted"} THEN GoneSeat ELSE @]
<1>3. SetSeats(s) /\ NoAnswer(r)
  BY DEF HandleLeave
<1>4. s \in [Visitor -> Seat]
  BY <1>1, <1>2, SeatTypes
<1> HIDE DEF s
<1> QED
  BY <1>1, <1>3, <1>4, AnswerStep

\* A step that only moves one request, to a record that fits.
LEMMA RequestStep ==
  ASSUME IInv, NEW r \in Request, NEW q \in RequestType,
         request' = [request EXCEPT ![r] = q], Fit(q, confirmed, clock, epoch),
         UNCHANGED <<clock, seat, epoch, tokens, confirmed>>
  PROVE  IInv'
<1>1. RequestsFit' /\ request' \in [Request -> RequestType]
  BY OneRequest
<1>2. TypeOK'
  BY <1>1 DEF IInv, TypeOK, RequestType
<1> QED
  BY <1>1, <1>2, TokensFollowLater DEF IInv, SeatsRecorded

LEMMA BeginStep ==
  ASSUME IInv, NEW r \in Request, NEW q \in RequestType, Begin(r, q),
         q.pc \in {"seated", "gate"}, q.sub = Guest,
         UNCHANGED <<clock, seat, epoch, tokens, confirmed>>
  PROVE  IInv'
<1> DEFINE n == [q EXCEPT !.since = clock, !.begun = epoch]
<1>1. clock \in Nat /\ epoch \in Nat /\ Latency \in Nat
  BY TokenAssumption DEF IInv, TypeOK
<1>2. n \in RequestType
  BY <1>1 DEF RequestType
<1>3. n.pc = q.pc /\ n.sub = Guest /\ n.since = clock /\ n.begun = epoch
  BY DEF RequestType
<1>4. Fit(n, confirmed, clock, epoch)
  BY <1>1, <1>3, TokenAssumption DEF Fit, Carried
<1>5. request' = [request EXCEPT ![r] = n]
  BY DEF Begin
<1> HIDE DEF n
<1> QED
  BY <1>2, <1>4, <1>5, RequestStep

LEMMA PassStep ==
  ASSUME IInv, NEW r \in Request, HandlePass(r), UNCHANGED <<clock, epoch, tokens>>
  PROVE  IInv'
<1> DEFINE q == [Idle EXCEPT !.pc = "seated"]
<1>1. q \in RequestType /\ q.pc = "seated" /\ q.sub = Guest
  BY DEF Idle, RequestType, NoToken, Token, Op
<1>2. Begin(r, q) /\ UNCHANGED <<seat, confirmed>>
  BY DEF HandlePass
<1> HIDE DEF q
<1> QED
  BY <1>1, <1>2, BeginStep

LEMMA PresentStep ==
  ASSUME IInv, NEW r \in Request, NEW t \in tokens, Present(r, t)
  PROVE  IInv'
<1> DEFINE q == [Idle EXCEPT !.pc = "gate", !.token = t]
<1>1. t \in Token
  BY DEF IInv, TypeOK
<1>2. q \in RequestType /\ q.pc = "gate" /\ q.sub = Guest
  BY <1>1 DEF Idle, RequestType, Op
<1>3. Begin(r, q) /\ UNCHANGED <<clock, seat, epoch, tokens, confirmed>>
  BY DEF Present
<1> HIDE DEF q
<1> QED
  BY <1>2, <1>3, BeginStep

LEMMA ReadEpochStep ==
  ASSUME IInv, NEW r \in Request,
         ReadEpoch(r, "seated", "epoch") \/ ReadEpoch(r, "gate", "verify")
  PROVE  IInv'
<1>1. request \in [Request -> RequestType] /\ epoch \in Nat
  BY DEF IInv, TypeOK, RequestType
<1>2. PICK pc \in {"epoch", "verify"} :
        /\ request' = [request EXCEPT ![r] = [@ EXCEPT !.pc = pc, !.epoch = epoch]]
        /\ pc = "epoch" => request[r].pc = "seated"
        /\ request[r].pc # "idle"
  BY <1>1 DEF ReadEpoch
<1> DEFINE q == [request[r] EXCEPT !.pc = pc, !.epoch = epoch]
<1>3. /\ q \in RequestType /\ q.pc = pc /\ q.epoch = epoch /\ q.begun = request[r].begun
      /\ q.since = request[r].since /\ q.sub = request[r].sub /\ q.at = request[r].at
      /\ q.op = request[r].op
  BY <1>1 DEF RequestType
<1>4. Fit(request[r], confirmed, clock, epoch)
  BY DEF IInv, RequestsFit
<1>5. Fit(q, confirmed, clock, epoch)
  BY <1>2, <1>3, <1>4 DEF Fit, Carried
<1>6. request' = [request EXCEPT ![r] = q]
  BY <1>1, <1>2
<1> HIDE DEF q
<1> QED
  BY <1>3, <1>5, <1>6, RequestStep DEF ReadEpoch

LEMMA LoseStep ==
  ASSUME IInv, NEW r \in Request, Lose(r) \/ Done(r)
  PROVE  IInv'
<1>1. epoch \in Nat
  BY DEF IInv, TypeOK
<1> QED
  BY <1>1, IdleType, IdleFits, RequestStep DEF Lose, Done

LEMMA VerifyStep ==
  ASSUME IInv, NEW r \in Request, Verify(r)
  PROVE  IInv'
<1>1. request \in [Request -> RequestType] /\ epoch \in Nat
  BY DEF IInv, TypeOK, RequestType
<1>2. CASE ~Verifies(request[r])
  BY <1>1, <1>2, IdleType, IdleFits, RequestStep DEF Verify
<1>3. CASE Verifies(request[r])
  <2> DEFINE q == [request[r] EXCEPT !.pc = "served"]
  <2>1. /\ q \in RequestType /\ q.pc = "served" /\ q.begun = request[r].begun
        /\ q.since = request[r].since /\ q.token = request[r].token
    BY <1>1 DEF RequestType
  <2>2. Fit(request[r], confirmed, clock, epoch) /\ request[r].pc = "verify"
    BY DEF IInv, RequestsFit, Verify
  <2>3. Fit(q, confirmed, clock, epoch)
    BY <1>3, <2>1, <2>2 DEF Fit, Verifies
  <2>4. request' = [request EXCEPT ![r] = q]
    BY <1>1, <1>3 DEF Verify
  <2> HIDE DEF q
  <2> QED
    BY <2>1, <2>3, <2>4, RequestStep DEF Verify
<1> QED
  BY <1>2, <1>3

\* The token of a fitting request follows the seat the request carries.
LEMMA IssueStep ==
  ASSUME IInv, NEW r \in Request, Issue(r)
  PROVE  IInv'
<1> DEFINE q == request[r]
           t == Claims(q)
<1>1. q \in RequestType /\ clock \in Nat /\ epoch \in Nat /\ TokenTtl \in Nat /\ Latency \in Nat
  BY TokenAssumption DEF IInv, TypeOK, RequestType
<1>2. Fit(q, confirmed, clock, epoch) /\ q.pc = "epoch"
  BY DEF IInv, RequestsFit, Issue
<1>3. q.at \in Nat /\ q.since \in Nat /\ q.epoch \in Nat /\ q.op \in Op
      /\ q.sub \in Visitor \cup {Guest}
  BY <1>1 DEF RequestType
<1>4. IssuedAt(q) \in Nat
  BY <1>1, <1>3 DEF IssuedAt
<1>5. t \in Token
  BY <1>1, <1>3, <1>4 DEF Claims, Token
<1>6. t.sub = q.sub /\ t.by = q.op /\ t.exp = IssuedAt(q) + TokenTtl
  BY DEF Claims
<1>7. RequestsFit' /\ request' \in [Request -> RequestType]
  BY <1>1, IdleType, IdleFits, OneRequest DEF Issue
<1>8. TypeOK'
  BY <1>5, <1>7 DEF IInv, TypeOK, RequestType, Issue
<1>9. ASSUME t.sub \in Visitor
      PROVE  \E c \in confirmed :
               /\ c.sub = t.sub
               /\ t.by \in {"status", "enter"} => t.exp = c.at + TokenTtl
               /\ t.by = "join" => t.exp < c.at + TokenTtl + TokenTtl + Latency
  <2>1. PICK c \in confirmed : /\ c.sub = q.sub /\ c.at = q.at
                               /\ q.op = "join" => q.since < c.at + TokenTtl
    BY <1>2, <1>6, <1>9 DEF Fit, Carried
  <2>2. t.by \in {"status", "enter"} => t.exp = c.at + TokenTtl
    BY <1>6, <2>1 DEF IssuedAt
  <2>3. ASSUME t.by = "join" PROVE t.exp < c.at + TokenTtl + TokenTtl + Latency
    <3>1. clock <= q.since + Latency
      BY <1>2 DEF Fit
    <3>2. t.exp = clock + TokenTtl /\ q.since < q.at + TokenTtl
      BY <1>6, <2>1, <2>3 DEF IssuedAt
    <3> HIDE DEF q, t
    <3> QED
      BY <1>1, <1>3, <2>1, <3>1, <3>2
  <2> QED
    BY <1>6, <2>1, <2>2, <2>3
<1>10. TokenFollowsSeat'
  <2>1. tokens' = tokens \cup {t} /\ confirmed' = confirmed
    BY DEF Issue
  <2> HIDE DEF t
  <2> QED
    BY <1>9, <2>1 DEF IInv, TokenFollowsSeat, OfVisitor
<1> QED
  BY <1>7, <1>8, <1>10 DEF IInv, Issue, SeatsRecorded

LEMMA PlatformStep ==
  ASSUME IInv, Tick \/ Revoke \/ UNCHANGED vars
  PROVE  IInv'
<1>1. request \in [Request -> RequestType] /\ clock \in Nat \ {0} /\ epoch \in Nat
      /\ Latency \in Nat
  BY TokenAssumption DEF IInv, TypeOK, RequestType
<1>2. TypeOK'
  BY <1>1 DEF IInv, TypeOK, Tick, Revoke, vars
<1>3. SeatsRecorded' /\ TokenFollowsSeat'
  BY DEF IInv, SeatsRecorded, TokenFollowsSeat, OfVisitor, Tick, Revoke, vars
<1>4. ASSUME NEW r \in Request PROVE Fit(request[r], confirmed, clock', epoch')
  <2>1. Fit(request[r], confirmed, clock, epoch)
    BY DEF IInv, RequestsFit
  <2>2. request[r].since \in Nat /\ request[r].begun \in Nat
    BY <1>1 DEF RequestType
  <2>3. CASE Tick
    BY <1>1, <2>1, <2>2, <2>3 DEF Tick, Fit
  <2>4. CASE Revoke
    BY <1>1, <2>1, <2>2, <2>4 DEF Revoke, Fit
  <2>5. CASE UNCHANGED vars
    BY <2>1, <2>5 DEF vars
  <2> QED
    BY <2>3, <2>4, <2>5
<1>5. RequestsFit'
  BY <1>4 DEF RequestsFit, Tick, Revoke, vars
<1> QED
  BY <1>2, <1>3, <1>5 DEF IInv

LEMMA NextInv == IInv /\ [Next]_vars => IInv'
<1> SUFFICES ASSUME IInv, [Next]_vars PROVE IInv'
  OBVIOUS
<1>1. ASSUME NEW r \in Request, Handle(r) PROVE IInv'
  BY <1>1, JoinStep, StatusStep, EnterStep, LeaveStep, PassStep DEF Handle
<1> QED
  BY <1>1, ReadEpochStep, IssueStep, LoseStep, PresentStep, VerifyStep, RoomStep,
     PlatformStep DEF Next

-----------------------------------------------------------------------------
\* Every reachable state satisfies the inductive invariant.
THEOREM TokensInductive == Spec => []IInv
  BY InitInv, NextInv, PTL DEF Spec

\* Every token of a visitor comes from a confirmed seat of that visitor, and
\* ends with it, or for join less than a lifetime and a request later,
\* for all lifetimes, holds, visitors and any number of requests at once.
THEOREM TokensFollowSeats == Spec => []TokenFollowsSeat
<1>1. IInv => TokenFollowsSeat
  BY DEF IInv
<1> QED
  BY <1>1, TokensInductive, PTL

\* The gate never serves a request with a token revoked before it began.
THEOREM GateAlwaysCurrent == Spec => []GateCurrent
<1>1. IInv => GateCurrent
  <2> SUFFICES ASSUME IInv, NEW r \in Request, request[r].pc = "served"
               PROVE  request[r].token.epoch >= request[r].begun
    BY DEF GateCurrent
  <2>1. request[r].begun <= request[r].token.epoch
    BY DEF IInv, RequestsFit, Fit
  <2>2. request[r].begun \in Nat /\ request[r].token.epoch \in Nat
    BY DEF IInv, TypeOK, Token
  <2> QED
    BY <2>1, <2>2
<1> QED
  BY <1>1, TokensInductive, PTL

-----------------------------------------------------------------------------
(***************************************************************************)
(* The simulator.  Whoever waits has an entry that is still to be read; a  *)
(* visitor that never came back has one at most, and these entries lie in  *)
(* the order in which their visitors came.                                 *)
(***************************************************************************)
Statuses == {"gone", "waiting", "admitted"}
On(line, status) == {v \in Ids : line[v] = status}

SimulatorInv ==
  /\ mode \in {"queue", "lottery"} /\ visitors \in [Ids -> Statuses]
  /\ joins \in 0 .. MaxJoins /\ places \in [Ids -> 0 .. joins] /\ returned \subseteq Ids
  /\ deque \in Seq(Ids) /\ Len(deque) <= joins /\ head \in 0 .. Len(deque)
  /\ inside = Cardinality(On(visitors, "admitted")) /\ inside \in 0 .. Cap
  /\ outside = Cardinality(On(visitors, "waiting")) /\ outside \in 0 .. joins
  /\ inside < Cap => outside = 0
  /\ \A v \in On(visitors, "waiting") : \E i \in Entries : deque[i] = v
  /\ \A i, j \in Entries :
       i < j /\ deque[i] \notin returned /\ deque[j] \notin returned =>
         places[deque[i]] < places[deque[j]]

-----------------------------------------------------------------------------
LEMMA LeastOf ==
  ASSUME NEW T, T \subseteq Nat, T # {}
  PROVE  \E m \in T : \A k \in T : m <= k
<1> DEFINE R == StrictSubsetOrdering(Nat)
           U == {0 .. k : k \in T}
<1>1. U \subseteq FiniteSubsetsOf(Nat)
  <2>1. \A k \in T : 0 .. k \in SUBSET Nat /\ IsFiniteSet(0 .. k)
    BY FS_Interval
  <2> QED
    BY <2>1 DEF FiniteSubsetsOf
<1>2. U # {}
  OBVIOUS
<1>3. PICK x \in U : \A y \in U : ~(<<y, x>> \in R)
  <2> HIDE DEF R, U
  <2>1. IsWellFoundedOn(R, FiniteSubsetsOf(Nat))
    BY FS_StrictSubsetOrderingWellFounded DEF R
  <2> QED
    BY <1>1, <1>2, <2>1, WFMin, Zenon
<1>4. PICK m \in T : x = 0 .. m
  OBVIOUS
<1>5. ASSUME NEW k \in T, ~(m <= k)
      PROVE  FALSE
  <2>1. k \in Nat /\ m \in Nat /\ k < m
    BY <1>5
  <2>2. 0 .. k \subseteq 0 .. m /\ m \in 0 .. m /\ m \notin 0 .. k
    BY <2>1
  <2>3. 0 .. k \in SUBSET Nat /\ 0 .. m \in SUBSET Nat /\ 0 .. k # 0 .. m
    BY <2>1, <2>2
  <2>4. <<0 .. k, 0 .. m>> \in R
    BY <2>2, <2>3 DEF StrictSubsetOrdering
  <2> QED
    BY <1>3, <1>4, <2>4
<1> QED
  BY <1>5

LEMMA GreatestOf ==
  ASSUME NEW T, NEW n \in Nat, T \subseteq 1 .. n, T # {}
  PROVE  LET m == CHOOSE i \in T : \A j \in T : j <= i IN m \in T /\ \A j \in T : j <= m
<1> DEFINE B == {k \in Nat : \A j \in T : j <= k}
<1>1. B \subseteq Nat /\ n \in B
  OBVIOUS
<1>2. PICK m \in B : \A k \in B : m <= k
  <2> HIDE DEF B
  <2> QED
    BY <1>1, LeastOf
<1>3. m \in T
  <2>1. SUFFICES ASSUME m \notin T PROVE FALSE
    OBVIOUS
  <2>2. \A j \in T : j \in Nat /\ j >= 1 /\ j <= m /\ j # m
    BY <1>2, <2>1
  <2>3. m - 1 \in Nat /\ \A j \in T : j <= m - 1
    <3>1. PICK j \in T : TRUE
      OBVIOUS
    <3>2. m \in Nat /\ m >= 1
      BY <1>2, <2>2, <3>1
    <3> QED
      BY <2>2, <3>2
  <2>4. m - 1 \in B
    BY <2>3
  <2> QED
    BY <1>2, <2>4
<1>4. \E i \in T : \A j \in T : j <= i
  BY <1>2, <1>3
<1> QED
  BY <1>4, Zenon

\* A splice cuts the deque behind an entry that was taken, if at all.
LEMMA SplicedTaken ==
  ASSUME deque \in Seq(Ids), NEW s, s \subseteq 1 .. Len(deque)
  PROVE  Spliced(s) \in s \cup {0}
<1> DEFINE n == Len(deque)
           Farther(g, i) == IF i \in s /\ i - g > Slack /\ (i - g) * 2 > n - g THEN i ELSE g
           Cut(f) == [i \in 0 .. n |-> IF i = 0 THEN 0 ELSE Farther(f[i - 1], i)]
           Cuts(m, f) == /\ f \in [0 .. m -> s \cup {0}]
                         /\ \A i \in 0 .. m : f[i] = IF i = 0 THEN 0 ELSE Farther(f[i - 1], i)
<1>1. n \in Nat
  OBVIOUS
<1>2. Spliced(s) = (CHOOSE f : f = Cut(f))[n]
  BY DEF Spliced
<1>3. \A g, i : g \in s \cup {0} => Farther(g, i) \in s \cup {0}
  OBVIOUS
<1> HIDE DEF n, Farther
<1>4. \E f : Cuts(n, f)
  <2> DEFINE T == {m \in 0 .. n : ~ \E f : Cuts(m, f)}
  <2>1. SUFFICES ASSUME T # {} PROVE FALSE
    BY <1>1
  <2>2. PICK m \in T : \A k \in T : m <= k
    <3>1. T \subseteq Nat
      BY <1>1
    <3> HIDE DEF T
    <3> QED
      BY <2>1, <3>1, LeastOf
  <2>3. CASE m = 0
    <3>1. Cuts(0, [i \in 0 .. 0 |-> 0])
      OBVIOUS
    <3> QED
      BY <2>2, <2>3, <3>1
  <2>4. CASE m # 0
    <3>1. m - 1 \in 0 .. n /\ m - 1 \notin T
      <4>1. m \in 0 .. n /\ m - 1 \in 0 .. n /\ ~(m <= m - 1)
        BY <1>1, <2>2, <2>4
      <4> HIDE DEF T
      <4> QED
        BY <2>2, <4>1
    <3>2. PICK f : Cuts(m - 1, f)
      BY <3>1
    <3> DEFINE g == [i \in 0 .. m |-> IF i = m THEN Farther(f[m - 1], m) ELSE f[i]]
    <3>3. f[m - 1] \in s \cup {0}
      BY <2>2, <2>4, <3>2
    <3>4. g \in [0 .. m -> s \cup {0}]
      BY <1>3, <2>2, <3>2, <3>3
    <3>5. \A i \in 0 .. m : g[i] = IF i = 0 THEN 0 ELSE Farther(g[i - 1], i)
      BY <2>2, <2>4, <3>2
    <3>6. Cuts(m, g)
      BY <3>4, <3>5
    <3> QED
      BY <2>2, <3>6
  <2> QED
    BY <2>3, <2>4
<1>5. \E f : f = Cut(f)
  <2>1. PICK f : Cuts(n, f)
    BY <1>4
  <2>2. f = Cut(f)
    BY <2>1
  <2> QED
    BY <2>2
<1>6. PICK c : c = (CHOOSE f : f = Cut(f))
  OBVIOUS
<1>7. c = Cut(c)
  BY <1>5, <1>6, Zenon
<1>8. \A i \in 0 .. n : c[i] = IF i = 0 THEN 0 ELSE Farther(c[i - 1], i)
  BY <1>7
<1>9. \A i \in 0 .. n : c[i] \in s \cup {0}
  <2> DEFINE T == {i \in 0 .. n : c[i] \notin s \cup {0}}
  <2>1. SUFFICES ASSUME T # {} PROVE FALSE
    OBVIOUS
  <2>2. PICK m \in T : \A k \in T : m <= k
    <3>1. T \subseteq Nat
      BY <1>1
    <3> HIDE DEF T
    <3> QED
      BY <2>1, <3>1, LeastOf
  <2>3. m # 0
    BY <1>8, <2>2
  <2>4. m - 1 \in 0 .. n /\ m - 1 \notin T
    BY <1>1, <2>2, <2>3
  <2> QED
    BY <1>3, <1>8, <2>2, <2>3, <2>4
<1> QED
  BY <1>1, <1>2, <1>6, <1>9

-----------------------------------------------------------------------------
(***************************************************************************)
(* What a fill does.                                                       *)
(***************************************************************************)
LEMMA IdsFinite ==
  ASSUME NEW S \in SUBSET Ids
  PROVE  IsFiniteSet(S) /\ Cardinality(S) \in Nat
BY SimulatorAssumption, FS_Subset, FS_CardinalityType

LEMMA TwoParts ==
  ASSUME NEW A \in SUBSET Ids, NEW B \in SUBSET Ids, A \cap B = {}
  PROVE  Cardinality(A \cup B) = Cardinality(A) + Cardinality(B)
<1>1. IsFiniteSet(A) /\ IsFiniteSet(B) /\ Cardinality(A \cap B) = 0
  BY IdsFinite, FS_EmptySet
<1>2. Cardinality(A \cup B) = Cardinality(A) + Cardinality(B) - Cardinality(A \cap B)
  BY <1>1, FS_Union
<1> QED
  BY <1>1, <1>2, IdsFinite

\* A line of the map, whose waiting visitors have an entry to be read.
Lined(line) ==
  /\ line \in [Ids -> Statuses]
  /\ deque \in Seq(Ids) /\ head \in 0 .. Len(deque)
  /\ \A v \in On(line, "waiting") : \E i \in Entries : deque[i] = v

EntriesAt(S) == {deque[i] : i \in S}

LEMMA FirstEntries ==
  ASSUME NEW line, Lined(line)
  PROVE  LET first == FirstLive(line)
         IN /\ first \subseteq Entries /\ Entries \subseteq Nat
            /\ IsFiniteSet(first) /\ \A i \in first : deque[i] \in On(line, "waiting")
            /\ \A i, j \in first : deque[i] = deque[j] => i = j
            /\ \A v \in On(line, "waiting") : \E i \in first : deque[i] = v
<1> DEFINE first == FirstLive(line)
<1>1. Len(deque) \in Nat /\ head \in Nat
  BY DEF Lined
<1>2. Entries \subseteq 1 .. Len(deque) /\ Entries \subseteq Nat /\ first \subseteq Entries
  BY <1>1 DEF Entries, FirstLive, Live
<1>3. IsFiniteSet(first)
  <2>1. IsFiniteSet(1 .. Len(deque))
    BY <1>1, FS_Interval
  <2>2. first \in SUBSET (1 .. Len(deque))
    BY <1>2
  <2> HIDE DEF first
  <2> QED
    BY <2>1, <2>2, FS_Subset
<1>4. \A i \in first : deque[i] \in On(line, "waiting")
  <2> SUFFICES ASSUME NEW i \in first PROVE deque[i] \in Ids /\ line[deque[i]] = "waiting"
    BY DEF On
  <2>1. i \in 1 .. Len(deque) /\ line[deque[i]] = "waiting"
    BY <1>2 DEF FirstLive, Live
  <2> QED
    BY <2>1 DEF Lined
<1>5. ASSUME NEW i \in first, NEW j \in first, deque[i] = deque[j]
      PROVE  i = j
  <2>1. i \in Live(line) /\ j \in Live(line) /\ i \in Nat /\ j \in Nat
    BY <1>2 DEF FirstLive
  <2>2. i <= j /\ j <= i
    BY <1>5, <2>1 DEF FirstLive
  <2> QED
    BY <2>1, <2>2
<1>6. ASSUME NEW v \in On(line, "waiting")
      PROVE  \E i \in first : deque[i] = v
  <2> DEFINE T == {i \in Entries : deque[i] = v}
  <2>1. T \subseteq Nat /\ T # {}
    BY <1>2 DEF Lined
  <2>2. PICK m \in T : \A k \in T : m <= k
    <3> HIDE DEF T
    <3> QED
      BY <2>1, LeastOf
  <2>3. m \in Live(line) /\ deque[m] = v
    BY <2>2 DEF Live, On
  <2>4. \A j \in Live(line) : deque[j] = deque[m] => m <= j
    BY <2>2, <2>3 DEF Live
  <2> QED
    BY <2>3, <2>4 DEF FirstLive
<1> QED
  BY <1>2, <1>3, <1>4, <1>5, <1>6

\* As many entries as visitors.
LEMMA EntriesCounted ==
  ASSUME NEW line, Lined(line), NEW s \in SUBSET FirstLive(line)
  PROVE  /\ EntriesAt(s) \in SUBSET On(line, "waiting")
         /\ IsFiniteSet(s) /\ Cardinality(s) \in Nat
         /\ Cardinality(EntriesAt(s)) = Cardinality(s)
<1> DEFINE f == [i \in s |-> deque[i]]
<1>1. /\ IsFiniteSet(s) /\ \A i \in s : deque[i] \in On(line, "waiting")
      /\ \A i, j \in s : deque[i] = deque[j] => i = j
  BY FirstEntries, FS_Subset
<1>2. f \in Bijection(s, EntriesAt(s))
  <2>1. f \in [s -> EntriesAt(s)] /\ \A t \in EntriesAt(s) : \E i \in s : f[i] = t
    BY DEF EntriesAt
  <2>2. \A i, j \in s : f[i] = f[j] => i = j
    BY <1>1
  <2> QED
    BY <2>1, <2>2 DEF Bijection, Injection, Surjection, IsInjective
<1>3. Cardinality(EntriesAt(s)) = Cardinality(s)
  BY <1>1, <1>2, FS_Bijection DEF ExistsBijection
<1> QED
  BY <1>1, <1>3, FS_CardinalityType DEF EntriesAt

LEMMA AllEntriesCounted ==
  ASSUME NEW line, Lined(line)
  PROVE  /\ EntriesAt(FirstLive(line)) = On(line, "waiting")
         /\ Cardinality(FirstLive(line)) = Cardinality(On(line, "waiting"))
<1>1. EntriesAt(FirstLive(line)) = On(line, "waiting")
  BY FirstEntries DEF EntriesAt
<1> QED
  BY <1>1, EntriesCounted

SeatsFor(taken, limit) == IF limit < Cap - taken THEN limit ELSE Cap - taken

\* The visitors of m are taken from the line, the deque is read up to `read' and `gone'
\* entries are cut off; who stays in line has an entry that was not read, and in Queue
\* Mode behind those that were taken.
Takes(line, taken, seats, m, gone, read) ==
  /\ gone <= read
  /\ deque' = SubSeq(deque, gone + 1, Len(deque)) /\ head' = read - gone
  /\ visitors' = [v \in Ids |-> IF v \in m THEN "admitted" ELSE line[v]]
  /\ inside' = taken + Cardinality(m) /\ outside' = outside - Cardinality(m)
  /\ Cardinality(m) <= seats
  /\ Cardinality(m) = seats \/ m = On(line, "waiting")
  /\ \A v \in On(line, "waiting") \ m : \E i \in Entries : deque[i] = v /\ i > read
  /\ mode = "queue" => \A w \in m, v \in On(line, "waiting") \ m :
       \E i, j \in Entries : i < j /\ deque[i] = w /\ deque[j] = v

LEMMA Filled ==
  ASSUME NEW line, NEW taken \in 0 .. Cap, NEW limit \in Nat, Lined(line),
         mode \in {"queue", "lottery"},
         taken = Cardinality(On(line, "admitted")), outside = Cardinality(On(line, "waiting")),
         FillSlots(line, taken, limit)
  PROVE  \E m \in SUBSET On(line, "waiting"), gone \in 0 .. Len(deque),
            read \in head .. Len(deque) : Takes(line, taken, SeatsFor(taken, limit), m, gone, read)
<1> DEFINE first == FirstLive(line)
           free == Cap - taken
           seats == IF limit < free THEN limit ELSE free
           n == Len(deque)
           wait == On(line, "waiting")
<1>1. /\ Cap \in Nat /\ free \in Nat /\ seats \in Nat /\ n \in Nat /\ head \in 0 .. n
      /\ deque \in Seq(Ids)
  BY SimulatorAssumption DEF Lined
<1>2. PICK s \in Picks(line, seats) :
        LET read == IF mode = "lottery" \/ seats = 0 THEN head
                    ELSE IF Cardinality(s) < seats THEN n
                    ELSE CHOOSE i \in s : \A j \in s : j <= i
            gone == IF mode = "lottery" THEN 0 ELSE Spliced(s) IN
        /\ visitors' = [v \in Ids |-> IF \E i \in s : deque[i] = v THEN "admitted" ELSE line[v]]
        /\ inside' = taken + Cardinality(s)
        /\ outside' = outside - Cardinality(s)
        /\ deque' = SubSeq(deque, gone + 1, n) /\ head' = read - gone
  BY DEF FillSlots
<1> DEFINE top == CHOOSE i \in s : \A j \in s : j <= i
           read == IF mode = "lottery" \/ seats = 0 THEN head
                   ELSE IF Cardinality(s) < seats THEN n ELSE top
           gone == IF mode = "lottery" THEN 0 ELSE Spliced(s)
           m == EntriesAt(s)
<1>3. /\ s \in SUBSET first /\ Cardinality(s) = FillSize(Cardinality(first), seats)
      /\ mode = "queue" => \A i \in s, j \in first \ s : i < j
  BY <1>2 DEF Picks
<1>4. /\ first \subseteq Entries /\ Entries = head + 1 .. n /\ IsFiniteSet(first)
      /\ Cardinality(first) \in Nat
      /\ \A i, j \in first : deque[i] = deque[j] => i = j
      /\ \A v \in wait : \E i \in first : deque[i] = v
  BY FirstEntries, EntriesCounted DEF Entries
<1>5. /\ m \in SUBSET wait /\ Cardinality(s) \in Nat /\ Cardinality(m) = Cardinality(s)
      /\ EntriesAt(first) = wait /\ IsFiniteSet(s)
  BY <1>3, EntriesCounted, AllEntriesCounted
<1>6. s \subseteq 1 .. n /\ \A i \in s : i \in Nat /\ i > head /\ i <= n
  BY <1>1, <1>3, <1>4
<1>7. s # {} => top \in s /\ \A j \in s : j <= top
  BY <1>1, <1>6, GreatestOf
<1>8. gone \in s \cup {0}
  BY <1>1, <1>6, SplicedTaken
<1>9. seats # 0 /\ ~(Cardinality(s) < seats) => s # {}
  BY <1>1, <1>5, FS_EmptySet
<1>10. seats = 0 => s = {}
  <2>1. seats = 0 => Cardinality(s) = 0
    BY <1>1, <1>3, <1>4 DEF FillSize
  <2> QED
    BY <1>5, <2>1, FS_EmptySet
<1>11. Cardinality(s) <= seats /\ (Cardinality(s) = seats \/ s = first)
  <2>1. Cardinality(s) <= seats /\ (Cardinality(s) = seats \/ Cardinality(s) = Cardinality(first))
    BY <1>1, <1>3, <1>4 DEF FillSize
  <2>2. Cardinality(s) = Cardinality(first) => s = first
    <3> HIDE DEF first
    <3> QED
      BY <1>3, <1>4, FS_Subset
  <2> QED
    BY <2>1, <2>2
<1> HIDE DEF top, first, seats, free, m, n
<1>12. read \in head .. n /\ gone \in 0 .. n /\ gone <= read
  <2>1. gone \in 0 .. n
    <3>1. \A x \in s \cup {0} : x \in 0 .. n
      BY <1>1, <1>6
    <3> HIDE DEF gone
    <3> QED
      BY <1>8, <3>1
  <2>2. CASE mode = "lottery"
    BY <1>1, <2>2
  <2>3. CASE mode # "lottery" /\ seats = 0
    BY <1>1, <1>8, <1>10, <2>3
  <2>4. CASE mode # "lottery" /\ seats # 0 /\ Cardinality(s) < seats
    BY <1>1, <2>1, <2>4
  <2>5. CASE mode # "lottery" /\ seats # 0 /\ ~(Cardinality(s) < seats)
    <3>1. top \in s /\ (\A j \in s : j <= top) /\ read = top
      BY <1>7, <1>9, <2>5
    <3> HIDE DEF read, gone
    <3> QED
      BY <1>1, <1>6, <1>8, <2>1, <3>1
  <2> QED
    BY <2>2, <2>3, <2>4, <2>5
<1>13. /\ visitors' = [v \in Ids |-> IF \E i \in s : deque[i] = v THEN "admitted" ELSE line[v]]
       /\ inside' = taken + Cardinality(s) /\ outside' = outside - Cardinality(s)
       /\ deque' = SubSeq(deque, gone + 1, n) /\ head' = read - gone
  BY <1>2 DEF top
<1>14. \A v : v \in m <=> \E i \in s : deque[i] = v
  BY DEF m, EntriesAt
<1>15. ASSUME NEW v \in wait \ m
       PROVE  \E i \in first \ s : deque[i] = v
  BY <1>4, <1>14, <1>15
<1>16. ASSUME NEW v \in wait \ m
       PROVE  \E i \in Entries : deque[i] = v /\ i > read
  <2>1. PICK i \in first \ s : deque[i] = v
    BY <1>15, <1>16
  <2>2. i \in Entries /\ i \in Nat /\ i > head
    BY <1>1, <1>4, <2>1
  <2>3. i > read
    <3>1. CASE mode = "lottery" \/ seats = 0
      BY <2>2, <3>1
    <3>2. CASE mode # "lottery" /\ seats # 0
      <4>1. ~(Cardinality(s) < seats)
        BY <1>1, <1>5, <1>11, <2>1
      <4>2. top \in s /\ read = top
        BY <1>7, <1>9, <3>2, <4>1
      <4>3. mode = "queue"
        BY <3>2
      <4> QED
        BY <1>3, <1>6, <2>1, <2>2, <4>2, <4>3
    <3> QED
      BY <3>1, <3>2
  <2> QED
    BY <2>1, <2>2, <2>3
<1>17. ASSUME mode = "queue", NEW w \in m, NEW v \in wait \ m
       PROVE  \E i, j \in Entries : i < j /\ deque[i] = w /\ deque[j] = v
  <2>1. PICK j \in first \ s : deque[j] = v
    BY <1>15, <1>17
  <2>2. PICK i \in s : deque[i] = w
    BY <1>14
  <2>3. i < j /\ i \in Entries /\ j \in Entries
    BY <1>3, <1>4, <1>17, <2>1, <2>2
  <2> QED
    BY <2>1, <2>2, <2>3
<1>18. visitors' = [v \in Ids |-> IF v \in m THEN "admitted" ELSE line[v]]
  BY <1>13, <1>14
<1>19. Cardinality(m) = seats \/ m = wait
  <2>1. s = first => m = wait
    BY <1>5 DEF m
  <2> QED
    BY <1>5, <1>11, <2>1
<1> QED
  <2>1. /\ m \in SUBSET wait /\ gone \in 0 .. n /\ read \in head .. n
    BY <1>5, <1>12
  <2>2. Takes(line, taken, seats, m, gone, read)
    <3> HIDE DEF read, gone
    <3>1. /\ Cardinality(m) <= seats
          /\ inside' = taken + Cardinality(m) /\ outside' = outside - Cardinality(m)
      BY <1>5, <1>11, <1>13
    <3> QED
      BY <1>12, <1>13, <1>16, <1>17, <1>18, <1>19, <3>1 DEF Takes, wait, n
  <2>3. SeatsFor(taken, limit) = seats
    BY DEF SeatsFor, seats, free
  <2> HIDE DEF read, gone
  <2> QED
    BY <2>1, <2>2, <2>3 DEF n

-----------------------------------------------------------------------------
\* A piece of the deque.
LEMMA DequeCut ==
  ASSUME NEW d \in Seq(Ids), NEW gone \in 0 .. Len(d)
  PROVE  LET e == SubSeq(d, gone + 1, Len(d))
         IN /\ e \in Seq(Ids) /\ Len(e) = Len(d) - gone
            /\ \A i \in 1 .. Len(e) : e[i] = d[i + gone]
<1> DEFINE n == Len(d)
<1>1. n \in Nat /\ gone \in Nat /\ gone <= n
  OBVIOUS
<1>2. CASE gone < n
  <2>1. gone + 1 \in 1 .. n /\ n \in 1 .. n
    BY <1>1, <1>2
  <2>2. /\ SubSeq(d, gone + 1, n) \in Seq(Ids)
        /\ Len(SubSeq(d, gone + 1, n)) = n - (gone + 1) + 1
        /\ \A i \in 1 .. n - (gone + 1) + 1 : SubSeq(d, gone + 1, n)[i] = d[gone + 1 + i - 1]
    BY <1>1, <1>2, <2>1
  <2>3. n - (gone + 1) + 1 = n - gone /\ \A i \in Nat : gone + 1 + i - 1 = i + gone
    BY <1>1
  <2> HIDE DEF n
  <2>4. \A i \in 1 .. n - gone : i \in Nat
    BY <1>1
  <2> QED
    BY <2>2, <2>3, <2>4 DEF n
<1>3. CASE gone = n
  <2>1. SubSeq(d, gone + 1, n) = << >>
    BY <1>1, <1>3
  <2> QED
    BY <1>1, <1>3, <2>1
<1> QED
  BY <1>1, <1>2, <1>3

\* What the fill has read is behind the head, and what it left is where it was.
LEMMA EntriesCut ==
  ASSUME deque \in Seq(Ids), head \in 0 .. Len(deque),
         NEW gone \in 0 .. Len(deque), NEW read \in head .. Len(deque), gone <= read,
         deque' = SubSeq(deque, gone + 1, Len(deque)), head' = read - gone
  PROVE  /\ deque' \in Seq(Ids) /\ head' \in 0 .. Len(deque') /\ Len(deque') <= Len(deque)
         /\ \A i \in Entries' : i + gone \in Entries /\ deque'[i] = deque[i + gone] /\ i \in Nat
         /\ \A i \in Entries : i > read => i - gone \in Entries' /\ deque'[i - gone] = deque[i]
<1> DEFINE n == Len(deque)
<1>1. /\ n \in Nat /\ head \in Nat /\ gone \in Nat /\ read \in Nat
      /\ head <= read /\ read <= n /\ gone <= n
  OBVIOUS
<1>2. /\ deque' \in Seq(Ids) /\ Len(deque') = n - gone
      /\ \A i \in 1 .. n - gone : deque'[i] = deque[i + gone]
  BY DequeCut
<1>3. Entries = head + 1 .. n /\ Entries' = read - gone + 1 .. n - gone
  BY <1>2 DEF Entries
<1> HIDE DEF n
<1>4. head' \in 0 .. n - gone /\ n - gone <= n
  BY <1>1
<1>5. ASSUME NEW i \in Entries'
      PROVE  i + gone \in Entries /\ deque'[i] = deque[i + gone] /\ i \in Nat
  <2>1. i \in 1 .. n - gone /\ i + gone \in head + 1 .. n /\ i \in Nat
    BY <1>1, <1>3
  <2> QED
    BY <1>2, <1>3, <2>1
<1>6. ASSUME NEW i \in Entries, i > read
      PROVE  i - gone \in Entries' /\ deque'[i - gone] = deque[i]
  <2>1. i \in Nat /\ i <= n /\ i > read
    BY <1>1, <1>3, <1>6
  <2>2. i - gone \in 1 .. n - gone /\ i - gone \in read - gone + 1 .. n - gone
        /\ i - gone + gone = i
    BY <1>1, <2>1
  <2> QED
    BY <1>2, <1>3, <2>2
<1> QED
  BY <1>2, <1>4, <1>5, <1>6 DEF n

\* A fill that has the counts of its line, and either cannot but fill the site or has
\* nobody to let in.
LEMMA FillInv ==
  ASSUME SimulatorInv, NEW line, line \in [Ids -> Statuses],
         NEW taken \in 0 .. Cap, NEW limit \in Nat,
         On(line, "waiting") = On(visitors, "waiting"),
         taken = Cardinality(On(line, "admitted")),
         outside = 0 \/ taken + SeatsFor(taken, limit) = Cap,
         FillSlots(line, taken, limit), UNCHANGED <<mode, places, joins, returned>>
  PROVE  SimulatorInv'
<1> DEFINE wait == On(line, "waiting")
           in == On(line, "admitted")
           seats == SeatsFor(taken, limit)
<1>1. Cap \in Nat /\ seats \in Nat /\ taken + seats <= Cap
  BY SimulatorAssumption DEF SeatsFor
<1>2. Lined(line)
  BY DEF SimulatorInv, Lined
<1>13. outside = Cardinality(wait) /\ mode \in {"queue", "lottery"}
  BY DEF SimulatorInv
<1>3. PICK m \in SUBSET wait, gone \in 0 .. Len(deque), read \in head .. Len(deque) :
        /\ gone <= read
        /\ deque' = SubSeq(deque, gone + 1, Len(deque)) /\ head' = read - gone
        /\ visitors' = [v \in Ids |-> IF v \in m THEN "admitted" ELSE line[v]]
        /\ inside' = taken + Cardinality(m) /\ outside' = outside - Cardinality(m)
        /\ Cardinality(m) <= seats
        /\ Cardinality(m) = seats \/ m = wait
        /\ \A v \in wait \ m : \E i \in Entries : deque[i] = v /\ i > read
  <2>1. PICK m \in SUBSET wait, gone \in 0 .. Len(deque), read \in head .. Len(deque) :
          Takes(line, taken, seats, m, gone, read)
    BY <1>2, <1>13, Filled
  <2> QED
    BY <2>1 DEF Takes
<1> HIDE DEF seats
<1>4. /\ wait \in SUBSET Ids /\ in \in SUBSET Ids /\ m \in SUBSET Ids /\ wait \ m \in SUBSET Ids
      /\ in \cap m = {} /\ \A v \in Ids : v \in wait <=> line[v] = "waiting"
  BY DEF On
<1>5. /\ visitors' \in [Ids -> Statuses]
      /\ On(visitors', "waiting") = wait \ m /\ On(visitors', "admitted") = in \cup m
  <2>1. \A v \in Ids : visitors'[v] = IF v \in m THEN "admitted" ELSE line[v]
    BY <1>3
  <2>2. visitors' \in [Ids -> Statuses]
    BY <1>3 DEF Statuses
  <2>3. \A v \in Ids : visitors'[v] = "waiting" <=> v \in wait /\ v \notin m
    BY <1>4, <2>1
  <2>4. \A v \in Ids : visitors'[v] = "admitted" <=> v \in in \/ v \in m
    BY <2>1 DEF On
  <2> HIDE DEF wait, in
  <2> QED
    BY <1>4, <2>2, <2>3, <2>4 DEF On
<1> DEFINE a == Cardinality(m)
           b == Cardinality(wait \ m)
<1>6. /\ a \in Nat /\ b \in Nat /\ outside = a + b /\ (b = 0 <=> wait \ m = {})
      /\ inside' = taken + a /\ outside' = outside - a /\ a <= seats
      /\ inside' = Cardinality(On(visitors', "admitted"))
  <2>1. wait = (wait \ m) \cup m /\ (wait \ m) \cap m = {}
    BY <1>3
  <2> HIDE DEF wait, in
  <2>2. Cardinality(wait) = b + a
    BY <1>4, <2>1, TwoParts
  <2>3. a \in Nat /\ b \in Nat /\ (b = 0 <=> wait \ m = {})
    BY <1>4, IdsFinite, FS_EmptySet
  <2>4. Cardinality(in \cup m) = taken + a
    BY <1>4, TwoParts DEF in
  <2>5. inside' = taken + a /\ outside' = outside - a /\ a <= seats
    BY <1>3
  <2> HIDE DEF a, b
  <2>6. inside' = Cardinality(On(visitors', "admitted"))
    BY <1>5, <2>4, <2>5, Zenon
  <2>7. outside = a + b
    BY <1>13, <2>2, <2>3
  <2> QED
    BY <2>3, <2>5, <2>6, <2>7
<1>7. /\ inside' = Cardinality(On(visitors', "admitted")) /\ inside' \in 0 .. Cap
      /\ outside' = Cardinality(On(visitors', "waiting")) /\ outside' \in 0 .. joins
      /\ inside' < Cap => outside' = 0
  <2>1. outside \in 0 .. joins /\ joins \in Nat
    BY SimulatorAssumption DEF SimulatorInv
  <2>2. outside' = Cardinality(On(visitors', "waiting")) /\ outside' = b
    <3>1. b = Cardinality(On(visitors', "waiting"))
      BY <1>5
    <3> HIDE DEF a, b, wait, in
    <3> QED
      BY <1>6, <3>1
  <2>3. a = seats \/ m = wait
    BY <1>3
  <2>4. m = wait => b = 0
    BY <1>6
  <2> HIDE DEF a, b, wait, in
  <2>5. inside' \in 0 .. Cap /\ outside' \in 0 .. joins
    <3>1. taken \in Nat /\ inside' = taken + a /\ a \in Nat /\ taken + a <= Cap /\ Cap \in Nat
      BY <1>1, <1>6
    <3>2. inside' \in 0 .. Cap
      BY <3>1
    <3>3. outside' \in 0 .. joins
      BY <1>6, <2>1, <2>2
    <3> QED
      BY <3>2, <3>3
  <2>6. inside' < Cap => outside' = 0
    <3>1. outside = 0 => outside' = 0
      BY <1>6, <2>2
    <3>2. outside # 0 => taken + seats = Cap
      BY DEF seats
    <3>3. a = seats /\ taken + seats = Cap => inside' = Cap
      BY <1>6
    <3>4. m = wait => outside' = 0
      BY <2>2, <2>4
    <3>5. inside' = Cap => ~(inside' < Cap)
      BY <1>1
    <3> QED
      BY <2>3, <3>1, <3>2, <3>3, <3>4, <3>5
  <2> QED
    BY <1>6, <2>2, <2>5, <2>6
<1>8. /\ deque' \in Seq(Ids) /\ head' \in 0 .. Len(deque') /\ Len(deque') <= Len(deque)
      /\ \A i \in Entries' : i + gone \in Entries /\ deque'[i] = deque[i + gone] /\ i \in Nat
      /\ \A i \in Entries : i > read => i - gone \in Entries' /\ deque'[i - gone] = deque[i]
  BY <1>3, EntriesCut DEF SimulatorInv
<1>9. ASSUME NEW v \in On(visitors', "waiting")
      PROVE  \E i \in Entries' : deque'[i] = v
  <2>1. PICK i \in Entries : deque[i] = v /\ i > read
    BY <1>3, <1>5, <1>9
  <2> QED
    BY <1>8, <2>1
<1>10. ASSUME NEW i \in Entries', NEW j \in Entries', i < j,
              deque'[i] \notin returned', deque'[j] \notin returned'
       PROVE  places'[deque'[i]] < places'[deque'[j]]
  <2>1. /\ i + gone \in Entries /\ j + gone \in Entries
        /\ deque'[i] = deque[i + gone] /\ deque'[j] = deque[j + gone]
    BY <1>8
  <2>2. i + gone < j + gone
    BY <1>8, <1>10
  <2> QED
    BY <1>10, <2>1, <2>2 DEF SimulatorInv
<1>11. Len(deque') <= joins' /\ mode' \in {"queue", "lottery"} /\ joins' \in 0 .. MaxJoins
       /\ places' \in [Ids -> 0 .. joins'] /\ returned' \subseteq Ids /\ joins' = joins
  <2>1. /\ mode \in {"queue", "lottery"} /\ joins \in 0 .. MaxJoins /\ Len(deque) <= joins
        /\ places \in [Ids -> 0 .. joins] /\ returned \subseteq Ids /\ deque \in Seq(Ids)
    BY DEF SimulatorInv
  <2>2. mode' = mode /\ joins' = joins /\ places' = places /\ returned' = returned
    OBVIOUS
  <2>3. Len(deque') <= joins
    <3>1. Len(deque') \in Nat /\ Len(deque) \in Nat /\ joins \in Nat
      BY <1>8, <2>1, SimulatorAssumption
    <3> QED
      BY <1>8, <2>1, <3>1
  <2> QED
    BY <2>1, <2>2, <2>3
<1> QED
  BY <1>5, <1>7, <1>8, <1>9, <1>10, <1>11 DEF SimulatorInv

-----------------------------------------------------------------------------
LEMMA SimulatorInitInv == SimulatorInit => SimulatorInv
<1> SUFFICES ASSUME SimulatorInit PROVE SimulatorInv
  OBVIOUS
<1>1. On(visitors, "waiting") = {} /\ On(visitors, "admitted") = {}
  BY DEF SimulatorInit, On
<1>2. Entries = {} /\ deque \in Seq(Ids) /\ Len(deque) = 0
  BY DEF SimulatorInit, Entries
<1>3. visitors \in [Ids -> Statuses] /\ places \in [Ids -> 0 .. joins]
  BY DEF SimulatorInit, Statuses
<1>4. /\ inside = Cardinality(On(visitors, "admitted")) /\ inside \in 0 .. Cap
      /\ outside = Cardinality(On(visitors, "waiting")) /\ outside \in 0 .. joins
  <2>1. inside = 0 /\ outside = 0 /\ joins = 0 /\ Cardinality({}) = 0
    BY FS_EmptySet DEF SimulatorInit
  <2> QED
    BY <1>1, <2>1, SimulatorAssumption
<1>5. /\ mode \in {"queue", "lottery"} /\ joins \in 0 .. MaxJoins /\ returned \subseteq Ids
      /\ Len(deque) <= joins /\ head \in 0 .. Len(deque) /\ outside = 0
  BY <1>2, SimulatorAssumption DEF SimulatorInit
<1> QED
  BY <1>1, <1>2, <1>3, <1>4, <1>5 DEF SimulatorInv

\* One visitor is given another status: one more has that one, one less the one before,
\* and as many as before have any other.
Moves(line, new, v, to) ==
  line \in [Ids -> Statuses] /\ v \in Ids /\ to \in Statuses /\ new = [line EXCEPT ![v] = to]

LEMMA MovesTo ==
  ASSUME NEW line, NEW new, NEW v, NEW to, Moves(line, new, v, to), line[v] # to
  PROVE  /\ new \in [Ids -> Statuses] /\ On(new, to) = On(line, to) \cup {v}
         /\ Cardinality(On(new, to)) = Cardinality(On(line, to)) + 1
<1>1. new \in [Ids -> Statuses] /\ \A u \in Ids : new[u] = IF u = v THEN to ELSE line[u]
  BY DEF Moves
<1>2. On(new, to) = On(line, to) \cup {v} /\ v \notin On(line, to)
  BY <1>1 DEF On, Moves
<1>3. IsFiniteSet(On(line, to))
  <2>1. On(line, to) \in SUBSET Ids
    BY DEF On
  <2> QED
    BY <2>1, IdsFinite
<1>4. Cardinality(On(line, to) \cup {v}) = Cardinality(On(line, to)) + 1
  BY <1>2, <1>3, FS_AddElement
<1> QED
  BY <1>1, <1>2, <1>4

LEMMA MovesFrom ==
  ASSUME NEW line, NEW new, NEW v, NEW to, Moves(line, new, v, to), line[v] # to
  PROVE  /\ On(new, line[v]) = On(line, line[v]) \ {v} /\ Cardinality(On(line, line[v])) \in Nat
         /\ Cardinality(On(new, line[v])) = Cardinality(On(line, line[v])) - 1
<1> DEFINE old == On(line, line[v])
<1>1. On(new, line[v]) = old \ {v} /\ v \in old /\ old \in SUBSET Ids
  <2>1. \A u \in Ids : new[u] = IF u = v THEN to ELSE line[u]
    BY DEF Moves
  <2> QED
    BY <2>1 DEF On, Moves
<1>2. IsFiniteSet(old) /\ Cardinality(old) \in Nat
  BY <1>1, IdsFinite
<1> HIDE DEF old
<1>3. Cardinality(old \ {v}) = Cardinality(old) - 1
  BY <1>1, <1>2, FS_RemoveElement
<1> QED
  BY <1>1, <1>2, <1>3 DEF old

LEMMA MovesPast ==
  ASSUME NEW line, NEW new, NEW v, NEW to, Moves(line, new, v, to),
         NEW status, status # to, line[v] # status
  PROVE  On(new, status) = On(line, status)
<1>1. \A u \in Ids : new[u] = IF u = v THEN to ELSE line[u]
  BY DEF Moves
<1> QED
  BY <1>1 DEF On

LEMMA JoinInv == ASSUME SimulatorInv, NEW v \in Ids, Join(v) PROVE SimulatorInv'
<1> DEFINE n == Len(deque)
<1>1. /\ visitors[v] = "gone" /\ joins < MaxJoins /\ joins' = joins + 1
      /\ places' = [places EXCEPT ![v] = joins + 1] /\ mode' = mode /\ head' = head
      /\ returned' = IF \E i \in Entries : deque[i] = v THEN returned \cup {v} ELSE returned
  BY DEF Join
<1>2. /\ mode \in {"queue", "lottery"} /\ visitors \in [Ids -> Statuses]
      /\ joins \in Nat /\ MaxJoins \in Nat /\ places \in [Ids -> 0 .. joins] /\ returned \subseteq Ids
      /\ deque \in Seq(Ids) /\ n \in Nat /\ n <= joins /\ head \in 0 .. n
      /\ Cap \in Nat /\ inside \in 0 .. Cap /\ outside \in 0 .. joins
      /\ Entries = head + 1 .. n
  BY SimulatorAssumption DEF SimulatorInv, Entries
<1>3. /\ joins' \in 0 .. MaxJoins /\ returned' \subseteq Ids
      /\ places' \in [Ids -> 0 .. joins'] /\ \A u \in Ids : u # v => places'[u] = places[u]
      /\ places'[v] = joins + 1
  BY <1>1, <1>2
<1>4. ASSUME NEW i \in Entries, NEW j \in Entries, i < j,
             deque[i] \notin returned', deque[j] \notin returned'
      PROVE  places'[deque[i]] < places'[deque[j]]
  <2>1. deque[i] \in Ids /\ deque[j] \in Ids
    BY <1>2
  <2>2. deque[i] # v /\ deque[j] # v
    BY <1>1, <1>4
  <2>3. deque[i] \notin returned /\ deque[j] \notin returned
    BY <1>1, <1>4
  <2>4. places[deque[i]] < places[deque[j]]
    BY <1>4, <2>3 DEF SimulatorInv
  <2> QED
    BY <1>3, <2>1, <2>2, <2>4
<1>5. CASE inside < Cap
  <2>1. /\ visitors' = [visitors EXCEPT ![v] = "admitted"] /\ inside' = inside + 1
        /\ deque' = deque /\ outside' = outside
    BY <1>5 DEF Join
  <2>2. Moves(visitors, visitors', v, "admitted")
    BY <1>2, <2>1 DEF Moves, Statuses
  <2>3. /\ visitors' \in [Ids -> Statuses]
        /\ Cardinality(On(visitors', "admitted")) = Cardinality(On(visitors, "admitted")) + 1
    BY <1>1, <2>2, MovesTo
  <2>4. On(visitors', "waiting") = On(visitors, "waiting")
    BY <1>1, <2>2, MovesPast
  <2>5. Entries' = Entries
    BY <1>1, <2>1 DEF Entries
  <2>6. /\ inside' = Cardinality(On(visitors', "admitted"))
        /\ outside' = Cardinality(On(visitors', "waiting")) /\ outside = 0
    BY <1>5, <2>1, <2>3, <2>4 DEF SimulatorInv
  <2>7. inside' \in 0 .. Cap /\ outside' \in 0 .. joins' /\ outside' = 0
    <3>1. inside' = inside + 1 /\ outside' = 0 /\ joins' = joins + 1
      BY <1>1, <2>1, <2>6
    <3> QED
      BY <1>2, <1>5, <3>1
  <2>8. \A u \in On(visitors', "waiting") : \E i \in Entries' : deque'[i] = u
    BY <2>1, <2>4, <2>5 DEF SimulatorInv
  <2>9. \A i, j \in Entries' :
          i < j /\ deque'[i] \notin returned' /\ deque'[j] \notin returned' =>
            places'[deque'[i]] < places'[deque'[j]]
    BY <1>4, <2>1, <2>5
  <2>10. deque' \in Seq(Ids) /\ Len(deque') <= joins' /\ head' \in 0 .. Len(deque')
    BY <1>1, <1>2, <2>1
  <2> QED
    BY <1>1, <1>2, <1>3, <2>3, <2>6, <2>7, <2>8, <2>9, <2>10 DEF SimulatorInv
<1>6. CASE ~(inside < Cap)
  <2>1. /\ visitors' = [visitors EXCEPT ![v] = "waiting"] /\ inside' = inside
        /\ deque' = Append(deque, v) /\ outside' = outside + 1
    BY <1>6 DEF Join
  <2>2. Moves(visitors, visitors', v, "waiting")
    BY <1>2, <2>1 DEF Moves, Statuses
  <2>3. On(visitors', "admitted") = On(visitors, "admitted")
    BY <1>1, <2>2, MovesPast
  <2>4. /\ visitors' \in [Ids -> Statuses]
        /\ Cardinality(On(visitors', "waiting")) = Cardinality(On(visitors, "waiting")) + 1
        /\ On(visitors', "waiting") = On(visitors, "waiting") \cup {v}
    BY <1>1, <2>2, MovesTo
  <2>5. /\ deque' \in Seq(Ids) /\ Len(deque') = n + 1 /\ deque'[n + 1] = v
        /\ \A i \in 1 .. n : deque'[i] = deque[i]
    BY <1>2, <2>1
  <2>6. /\ Entries' = head + 1 .. n + 1 /\ n + 1 \in Entries'
        /\ \A i \in Entries' : i # n + 1 => i \in Entries
        /\ \A i \in Entries : i \in Entries' /\ deque'[i] = deque[i] /\ i < n + 1
    <3>1. Entries' = head + 1 .. n + 1
      BY <1>1, <2>5 DEF Entries
    <3> HIDE DEF n
    <3> QED
      BY <1>2, <2>5, <3>1
  <2>7. /\ inside' = Cardinality(On(visitors', "admitted"))
        /\ outside' = Cardinality(On(visitors', "waiting"))
    BY <2>1, <2>3, <2>4 DEF SimulatorInv
  <2>8. inside' \in 0 .. Cap /\ outside' \in 0 .. joins' /\ (inside' < Cap => outside' = 0)
    BY <1>1, <1>2, <1>6, <2>1
  <2>9. ASSUME NEW u \in On(visitors', "waiting")
        PROVE  \E i \in Entries' : deque'[i] = u
    <3>1. CASE u = v
      BY <2>5, <2>6, <3>1
    <3>2. CASE u # v
      <4>1. PICK i \in Entries : deque[i] = u
        BY <2>4, <3>2 DEF SimulatorInv
      <4> QED
        BY <2>6, <4>1
    <3> QED
      BY <3>1, <3>2
  <2>10. ASSUME NEW i \in Entries', NEW j \in Entries', i < j,
                deque'[i] \notin returned', deque'[j] \notin returned'
         PROVE  places'[deque'[i]] < places'[deque'[j]]
    <3>1. i \in Entries
      <4>1. i \in Nat /\ j \in Nat /\ j <= n + 1
        BY <1>2, <2>6
      <4> QED
        BY <1>2, <2>6, <2>10, <4>1
    <3>2. CASE j = n + 1
      <4>1. deque'[j] = v /\ deque[i] # v /\ deque'[i] = deque[i] /\ deque[i] \in Ids
        <5>1. deque'[j] = v /\ deque'[i] = deque[i] /\ i \in 1 .. n
          <6>1. i \in 1 .. n
            BY <1>2, <3>1
          <6> QED
            BY <2>5, <2>6, <3>1, <3>2, <6>1
        <5>2. deque[i] = v => v \in returned'
          BY <1>1, <3>1
        <5> QED
          BY <1>2, <2>10, <5>1, <5>2
      <4>2. places'[deque[i]] = places[deque[i]] /\ places[deque[i]] \in 0 .. joins
        BY <1>2, <1>3, <4>1
      <4> QED
        BY <1>2, <1>3, <4>1, <4>2
    <3>3. CASE j # n + 1
      BY <1>4, <2>6, <2>10, <3>1, <3>3
    <3> QED
      BY <3>2, <3>3
  <2>11. Len(deque') <= joins' /\ head' \in 0 .. Len(deque')
    <3>1. Len(deque') = n + 1 /\ joins' = joins + 1 /\ head' = head
      BY <1>1, <2>5
    <3> HIDE DEF n
    <3> QED
      BY <1>2, <3>1
  <2> QED
    BY <1>1, <1>2, <1>3, <2>4, <2>5, <2>7, <2>8, <2>9, <2>10, <2>11 DEF SimulatorInv
<1> QED
  BY <1>5, <1>6

LEMMA LeaveInv == ASSUME SimulatorInv, NEW v \in Ids, LeaveSimulator(v) PROVE SimulatorInv'
<1> DEFINE line == [visitors EXCEPT ![v] = "gone"]
<1>1. /\ visitors \in [Ids -> Statuses] /\ visitors[v] # "gone" /\ Cap \in Nat
      /\ inside \in 0 .. Cap /\ joins \in Nat /\ outside \in 0 .. joins
      /\ UNCHANGED <<mode, places, joins, returned>>
  BY SimulatorAssumption DEF SimulatorInv, LeaveSimulator
<1>2. Moves(visitors, line, v, "gone") /\ line \in [Ids -> Statuses]
  BY <1>1 DEF Moves, Statuses
<1> HIDE DEF line
<1>5. CASE visitors[v] = "admitted"
  <2> DEFINE taken == inside - 1
  <2>1. FillSlots(line, taken, 1)
    BY <1>5 DEF LeaveSimulator, line
  <2>2. taken = Cardinality(On(line, "admitted")) /\ taken \in 0 .. Cap
    <3>1. /\ Cardinality(On(visitors, "admitted")) \in Nat
          /\ Cardinality(On(line, "admitted")) = Cardinality(On(visitors, "admitted")) - 1
      BY <1>2, <1>5, MovesFrom
    <3>2. inside = Cardinality(On(visitors, "admitted"))
      BY DEF SimulatorInv
    <3>3. Cardinality(On(visitors, "admitted")) # 0
      <4>1. v \in On(visitors, "admitted") /\ On(visitors, "admitted") \in SUBSET Ids
        BY <1>5 DEF On
      <4> QED
        BY <4>1, IdsFinite, FS_EmptySet
    <3> QED
      BY <1>1, <3>1, <3>2, <3>3
  <2>3. outside = 0 \/ taken + SeatsFor(taken, 1) = Cap
    <3>1. inside < Cap => outside = 0
      BY DEF SimulatorInv
    <3>2. ~(inside < Cap) => inside = Cap
      BY <1>1
    <3> QED
      BY <1>1, <2>2, <3>1, <3>2 DEF SeatsFor
  <2>4. On(line, "waiting") = On(visitors, "waiting")
    BY <1>2, <1>5, MovesPast
  <2> HIDE DEF taken
  <2> QED
    BY <1>1, <1>2, <2>1, <2>2, <2>3, <2>4, FillInv
<1>6. CASE visitors[v] = "waiting"
  <2>1. visitors' = line /\ outside' = outside - 1 /\ UNCHANGED <<deque, head, inside>>
    BY <1>6 DEF LeaveSimulator, line
  <2>2. Entries' = Entries
    BY <2>1 DEF Entries
  <2>3. /\ outside' = Cardinality(On(visitors', "waiting")) /\ inside' = Cardinality(On(visitors', "admitted"))
        /\ outside # 0
    <3>1. v \in On(visitors, "waiting") /\ On(visitors, "waiting") \in SUBSET Ids
      BY <1>6 DEF On
    <3>2. Cardinality(On(visitors, "waiting")) # 0
      BY <3>1, IdsFinite, FS_EmptySet
    <3>3. outside = Cardinality(On(visitors, "waiting")) /\ inside = Cardinality(On(visitors, "admitted"))
      BY DEF SimulatorInv
    <3>4. Cardinality(On(line, "waiting")) = Cardinality(On(visitors, "waiting")) - 1
      BY <1>2, <1>6, MovesFrom
    <3>5. On(line, "admitted") = On(visitors, "admitted")
      BY <1>2, <1>6, MovesPast
    <3> QED
      BY <2>1, <3>2, <3>3, <3>4, <3>5
  <2>4. outside' \in 0 .. joins /\ (inside' < Cap => outside' = 0)
    BY <1>1, <2>1, <2>3 DEF SimulatorInv
  <2>5. \A u \in On(visitors', "waiting") : \E i \in Entries' : deque'[i] = u
    <3>1. On(line, "waiting") = On(visitors, "waiting") \ {v}
      BY <1>2, <1>6, MovesFrom
    <3> QED
      BY <2>1, <2>2, <3>1 DEF SimulatorInv
  <2> QED
    BY <1>1, <1>2, <2>1, <2>2, <2>3, <2>4, <2>5 DEF SimulatorInv
<1> QED
  BY <1>1, <1>5, <1>6 DEF Statuses

LEMMA TickInv == ASSUME SimulatorInv, TickSimulator PROVE SimulatorInv'
<1>1. PICK budget \in 0 .. Budget : FillSlots(visitors, inside, budget)
  BY DEF TickSimulator
<1>2. /\ budget \in Nat /\ inside \in 0 .. Cap /\ Cap \in Nat
      /\ inside = Cardinality(On(visitors, "admitted")) /\ visitors \in [Ids -> Statuses]
      /\ inside < Cap => outside = 0
      /\ UNCHANGED <<mode, places, joins, returned>>
  BY SimulatorAssumption DEF SimulatorInv, TickSimulator
<1>3. outside = 0 \/ inside + SeatsFor(inside, budget) = Cap
  BY <1>2 DEF SeatsFor
<1> QED
  BY <1>1, <1>2, <1>3, FillInv

LEMMA SimulatorStepInv == SimulatorInv /\ [SimulatorNext]_simulatorVars => SimulatorInv'
<1>1. ASSUME SimulatorInv, UNCHANGED simulatorVars PROVE SimulatorInv'
  <2>1. /\ mode' = mode /\ visitors' = visitors /\ places' = places /\ deque' = deque
        /\ head' = head /\ inside' = inside /\ outside' = outside /\ joins' = joins
        /\ returned' = returned /\ Entries' = Entries
    BY <1>1 DEF simulatorVars, Entries
  <2> QED
    BY <1>1, <2>1 DEF SimulatorInv
<1> QED
  BY <1>1, JoinInv, LeaveInv, TickInv DEF SimulatorNext


-----------------------------------------------------------------------------
\* A fill in Queue Mode passes nobody who came earlier and never left.
LEMMA FillInOrder ==
  ASSUME SimulatorInv, mode = "queue", NEW line, NEW taken \in 0 .. Cap, NEW limit \in Nat,
         line \in [Ids -> Statuses], On(line, "waiting") = On(visitors, "waiting"),
         taken = Cardinality(On(line, "admitted")), FillSlots(line, taken, limit),
         NEW v \in On(line, "waiting") \ returned, NEW w \in On(line, "waiting") \ returned,
         places[v] < places[w], visitors'[w] = "admitted"
  PROVE  visitors'[v] # "waiting"
<1>1. Lined(line)
  BY DEF SimulatorInv, Lined
<1>2. outside = Cardinality(On(line, "waiting")) /\ mode \in {"queue", "lottery"}
  BY DEF SimulatorInv
<1>3. PICK m \in SUBSET On(line, "waiting"), gone \in 0 .. Len(deque),
           read \in head .. Len(deque) : Takes(line, taken, SeatsFor(taken, limit), m, gone, read)
  BY <1>1, <1>2, Filled
<1>4. v \in Ids /\ w \in Ids /\ line[v] = "waiting" /\ line[w] = "waiting"
  BY DEF On
<1>5. /\ visitors'[w] = IF w \in m THEN "admitted" ELSE line[w]
      /\ visitors'[v] = IF v \in m THEN "admitted" ELSE line[v]
  BY <1>3, <1>4 DEF Takes
<1>6. w \in m
  BY <1>4, <1>5
<1>7. ASSUME v \notin m PROVE FALSE
  <2>1. PICK i \in Entries, j \in Entries : i < j /\ deque[i] = w /\ deque[j] = v
    BY <1>3, <1>6, <1>7 DEF Takes
  <2>2. places[w] < places[v]
    BY <2>1 DEF SimulatorInv
  <2>3. places[v] \in Nat /\ places[w] \in Nat
    BY <1>4, SimulatorAssumption DEF SimulatorInv
  <2> QED
    BY <2>2, <2>3
<1> QED
  BY <1>5, <1>7

LEMMA StepInOrder ==
  ASSUME SimulatorInv, [SimulatorNext]_simulatorVars, mode = "queue",
         NEW v \in With("waiting") \ returned, NEW w \in With("waiting") \ returned,
         places[v] < places[w], visitors'[w] = "admitted"
  PROVE  visitors'[v] # "waiting"
<1>1. /\ With("waiting") = On(visitors, "waiting") /\ v \in Ids /\ w \in Ids
      /\ visitors[v] = "waiting" /\ visitors[w] = "waiting" /\ visitors \in [Ids -> Statuses]
      /\ inside \in 0 .. Cap /\ inside = Cardinality(On(visitors, "admitted"))
  BY DEF With, On, SimulatorInv
<1>2. visitors' # visitors
  BY <1>1
<1>3. CASE TickSimulator
  <2>1. PICK budget \in 0 .. Budget : FillSlots(visitors, inside, budget)
    BY <1>3 DEF TickSimulator
  <2>2. budget \in Nat
    BY SimulatorAssumption
  <2> QED
    BY <1>1, <2>1, <2>2, FillInOrder
<1>4. CASE \E u \in Ids : Join(u)
  <2>1. PICK u \in Ids : Join(u)
    BY <1>4
  <2>2. u # w /\ visitors[u] = "gone"
    BY <1>1, <2>1 DEF Join
  <2>3. \/ visitors' = [visitors EXCEPT ![u] = "admitted"]
        \/ visitors' = [visitors EXCEPT ![u] = "waiting"]
    BY <2>1 DEF Join
  <2> QED
    BY <1>1, <2>2, <2>3
<1>5. CASE \E u \in Ids : LeaveSimulator(u)
  <2>1. PICK u \in Ids : LeaveSimulator(u)
    BY <1>5
  <2> DEFINE line == [visitors EXCEPT ![u] = "gone"]
  <2>2. visitors' # line
    BY <1>1
  <2>3. visitors[u] = "admitted" /\ FillSlots(line, inside - 1, 1)
    BY <2>1, <2>2 DEF LeaveSimulator
  <2>4. Moves(visitors, line, u, "gone") /\ line \in [Ids -> Statuses]
    BY <1>1 DEF Moves, Statuses
  <2> HIDE DEF line
  <2>5. On(line, "waiting") = On(visitors, "waiting")
    BY <2>3, <2>4, MovesPast
  <2>6. Cardinality(On(line, "admitted")) = inside - 1 /\ inside # 0
    <3>1. u \in On(visitors, "admitted") /\ On(visitors, "admitted") \in SUBSET Ids
      BY <2>3 DEF On
    <3>2. Cardinality(On(visitors, "admitted")) # 0
      BY <3>1, IdsFinite, FS_EmptySet
    <3>3. Cardinality(On(line, "admitted")) = Cardinality(On(visitors, "admitted")) - 1
      BY <2>3, <2>4, MovesFrom
    <3> QED
      BY <1>1, <3>2, <3>3
  <2> DEFINE taken == inside - 1
  <2>7. taken \in 0 .. Cap /\ taken = Cardinality(On(line, "admitted"))
    BY <1>1, <2>6, SimulatorAssumption
  <2>8. FillSlots(line, taken, 1)
    BY <2>3
  <2> HIDE DEF taken
  <2> QED
    BY <1>1, <2>4, <2>5, <2>7, <2>8, FillInOrder
<1> QED
  BY <1>2, <1>3, <1>4, <1>5 DEF SimulatorNext, simulatorVars

-----------------------------------------------------------------------------
LEMMA SimulatorShape ==
  ASSUME SimulatorInv
  PROVE  SimulatorTypeOK
<1>1. joins \in Nat /\ MaxJoins \in Nat /\ joins <= MaxJoins
  BY SimulatorAssumption DEF SimulatorInv
<1>2. places \in [Ids -> 0 .. MaxJoins] /\ outside \in 0 .. MaxJoins
  BY <1>1 DEF SimulatorInv
<1>3. deque \in Seq(Ids) /\ Len(deque) <= joins /\ Len(deque) \in Nat
  BY DEF SimulatorInv
<1>4. Len(deque) <= MaxJoins /\ \A i \in DOMAIN deque : deque[i] \in Ids
  BY <1>1, <1>3
<1> QED
  BY <1>1, <1>2, <1>4 DEF SimulatorInv, SimulatorTypeOK, Statuses

\* The simulator's maps, deque and counters stay in their ranges: no more than the cap
\* is ever in, and the head never passes the end of the deque.
THEOREM SimulatorTyped == SimulatorSpec => []SimulatorTypeOK
<1> QED
  BY SimulatorShape, SimulatorInitInv, SimulatorStepInv, PTL DEF SimulatorSpec

\* The simulator's counters are the sizes of its line and of its site, however many
\* entries of visitors that left or came back its deque holds, and nobody waits beside
\* a free seat.
THEOREM CountsAlwaysExact == SimulatorSpec => []CountsExact
<1>1. SimulatorInv => CountsExact
  BY DEF SimulatorInv, CountsExact, With, On
<1> QED
  BY <1>1, SimulatorInitInv, SimulatorStepInv, PTL DEF SimulatorSpec

\* Queue Mode of the simulator never lets one visitor that waited through pass another.
THEOREM AlwaysServedInOrder == SimulatorSpec => ServedInOrder
<1>1. SimulatorInv /\ [SimulatorNext]_simulatorVars =>
        [mode = "queue" =>
           \A v, w \in With("waiting") \ returned :
             places[v] < places[w] /\ visitors'[w] = "admitted" =>
               visitors'[v] # "waiting"]_simulatorVars
  BY StepInOrder
<1> QED
  BY <1>1, SimulatorInitInv, SimulatorStepInv, PTL DEF SimulatorSpec, ServedInOrder

-----------------------------------------------------------------------------
(***************************************************************************)
(* The worker's parts together.                                            *)
(***************************************************************************)
\* Whichever part is at work, a step leaves the others alone: the settings, their copies and
\* the visits keep their shape, and the simulated site its capacity, in the behaviours that
\* the runs check.
THEOREM WorkerTyped == WorkerSpec => []WorkerTypeOK
<1>1. WorkerInit => RulesInv /\ SimulatorInv
  BY RulesInitInv, SimulatorInitInv DEF WorkerInit
<1>2. ASSUME RulesInv, SimulatorInv,
             [WorkerNext]_<<rulesVars, tokenVars, simulatorVars, part>>
      PROVE  RulesInv' /\ SimulatorInv'
  <2>1. [RulesNext]_rulesVars /\ [SimulatorNext]_simulatorVars
    BY <1>2 DEF WorkerNext
  <2> QED
    BY <1>2, <2>1, RulesNextInv, SimulatorStepInv
<1>3. RulesInv /\ SimulatorInv => WorkerTypeOK
  BY InvImplies, SimulatorShape DEF WorkerTypeOK
<1> QED
  BY <1>1, <1>2, <1>3, PTL DEF WorkerSpec
=============================================================================
