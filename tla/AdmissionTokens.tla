-------------------------- MODULE AdmissionTokens --------------------------
(***************************************************************************)
(* Admission tokens (src/routes/queue.ts, src/auth): the Worker turns a    *)
(* confirmed seat of the room into a signed token with a lifetime and a    *)
(* revocation epoch, and the access gate checks the token again at every   *)
(* request to the protected site.                                          *)
(*                                                                         *)
(* A request is a process: each call to the room is one atomic step of the *)
(* room, and other requests, the room's own alarm, the operator and time   *)
(* act between a request's steps.  Signatures are ideal: a token that      *)
(* verifies is one that was signed.  A visitor is whoever holds its        *)
(* ticket; instants are seconds, as in the claims.                         *)
(***************************************************************************)
EXTENDS Naturals, FiniteSets

CONSTANTS
  Visitor,     \* visitor ids
  Guest,       \* subject of tokens issued without a seat
  Request,     \* concurrent requests
  TokenTtl,    \* TOKEN_TTL_SECONDS
  Hold,        \* admit_hold_seconds
  Latency,     \* bound: how long one request may take
  Lag,         \* bound: how long the room's alarm handler awaits
  MaxEpoch,    \* bound: revocations of the instance
  MaxTokens,   \* bound: tokens signed in the instance
  MaxClock     \* bound: last instant of the instance

VARIABLES
  clock,      \* Date.now() / 1000
  seat,       \* the room's row of each visitor, as far as the routes read it
  epoch,      \* meta token_epoch of the room
  tokens,     \* every token signed so far
  request,    \* the requests in flight
  confirmed   \* history: every seat that was confirmed, with its epoch

vars == <<clock, seat, epoch, tokens, request, confirmed>>

ASSUME TokenAssumption ==
  /\ Guest \notin Visitor
  /\ TokenTtl \in Nat \ {0} /\ Hold \in Nat \ {0}
  /\ Latency \in Nat /\ Lag \in Nat /\ MaxEpoch \in Nat /\ MaxTokens \in Nat /\ MaxClock \in Nat

Seat == [status: {"none", "waiting", "admitted", "gone"}, at: Nat, entered: BOOLEAN]

\* The claims of a token; `by' is history, the operation that issued it.
Op == {"join", "status", "enter", "pass"}
Token == [sub: Visitor \cup {Guest}, exp: Nat, epoch: Nat, by: Op]
NoToken == [sub |-> Guest, exp |-> 0, epoch |-> 0, by |-> "pass"]

NoSeat == [status |-> "none", at |-> 0, entered |-> FALSE]
WaitingSeat == [NoSeat EXCEPT !.status = "waiting"]
GoneSeat == [NoSeat EXCEPT !.status = "gone"]
Given(t, entered) == [status |-> "admitted", at |-> t, entered |-> entered]

-----------------------------------------------------------------------------
(***************************************************************************)
(* The room, as the routes see it.                                         *)
(***************************************************************************)
Lapsed(s, t) ==
  s.status = "admitted" /\ s.at + (IF s.entered THEN TokenTtl ELSE Hold) <= t

SweptAt(t) == [v \in Visitor |-> IF Lapsed(seat[v], t) THEN GoneSeat ELSE seat[v]]
Swept == SweptAt(clock)

IsConfirmed(s) == s.status = "admitted" /\ s.entered

\* Every write of the rows goes through here, which records confirmations.
SetSeats(s) ==
  /\ seat' = s
  /\ confirmed' = confirmed \cup
       {[sub |-> v, at |-> s[v].at, epoch |-> epoch] :
          v \in {u \in Visitor : IsConfirmed(s[u]) /\ s[u] # seat[u]}}

\* The instants the alarm handler may have read.
Recent == {t \in 1 .. clock : clock <= t + Lag}

\* What the room does between the calls of the routes: somebody in line is
\* given a seat, confirmed at once unless the room asks for a click; a waiter
\* misses its check-in; lapsed seats go; a terminal row is purged.  The alarm
\* handler stamps and sweeps with the instant it read before its awaits.
RoomAdmits(v) ==
  /\ seat[v].status = "waiting"
  /\ \E t \in Recent, entered \in BOOLEAN :
       SetSeats([seat EXCEPT ![v] = Given(t, entered)])

RoomExpires(v) == seat[v].status = "waiting" /\ SetSeats([seat EXCEPT ![v] = GoneSeat])

RoomSweeps == \E t \in Recent : SetSeats(SweptAt(t))

RoomPurges(v) == seat[v].status = "gone" /\ SetSeats([seat EXCEPT ![v] = NoSeat])

Room ==
  /\ \/ \E v \in Visitor : RoomAdmits(v) \/ RoomExpires(v) \/ RoomPurges(v)
     \/ RoomSweeps
  /\ UNCHANGED <<clock, epoch, tokens, request>>

\* bumpTokenEpoch
Revoke ==
  /\ epoch < MaxEpoch
  /\ epoch' = epoch + 1
  /\ UNCHANGED <<clock, seat, tokens, request, confirmed>>

-----------------------------------------------------------------------------
(***************************************************************************)
(* Requests that may issue a token.  pc is "seated" when the room has      *)
(* answered with a confirmed seat given at `at', "epoch" when it has also  *)
(* answered with its epoch.  `since' and `begun' are history: the instant  *)
(* and the epoch at which the request began.                               *)
(***************************************************************************)
Idle == [pc |-> "idle", op |-> "pass", sub |-> Guest, at |-> 0,
         since |-> 0, begun |-> 0, epoch |-> 0, token |-> NoToken]

Begin(r, q) ==
  /\ request[r].pc = "idle"
  /\ request' = [request EXCEPT ![r] = [q EXCEPT !.since = clock, !.begun = epoch]]

NoAnswer(r) == request[r].pc = "idle" /\ UNCHANGED request

\* canIssueAccessToken
CanIssue(s) == s.status = "admitted" /\ s.entered

\* The route goes on with the view the room returned, or ends without token.
Answer(r, op, v, view) ==
  IF CanIssue(view)
  THEN Begin(r, [Idle EXCEPT !.pc = "seated", !.op = op, !.sub = v, !.at = view.at])
  ELSE NoAnswer(r)

\* The seats join may leave v with after its sweep: its live one, or a new one.
\* A terminal row makes the insert fail, and a full line refuses.
Joined(v) ==
  CASE Swept[v].status \in {"waiting", "admitted"} -> {Swept[v]}
    [] Swept[v].status = "none" ->
         {NoSeat, WaitingSeat, Given(clock, TRUE), Given(clock, FALSE)}
    [] Swept[v].status = "gone" -> {GoneSeat}

HandleJoin(r, v) ==
  \E s \in Joined(v) :
    SetSeats([Swept EXCEPT ![v] = s]) /\ Answer(r, "join", v, s)

\* status sweeps at most once per second.
HandleStatus(r, v) ==
  \E s \in {seat, Swept} : SetSeats(s) /\ Answer(r, "status", v, s[v])

HandleEnter(r, v) ==
  IF Swept[v].status = "admitted"
  THEN LET s == [Swept EXCEPT ![v].entered = TRUE]
       IN SetSeats(s) /\ Answer(r, "enter", v, s[v])
  ELSE SetSeats(Swept) /\ NoAnswer(r)

HandleLeave(r, v) ==
  /\ NoAnswer(r)
  /\ SetSeats([Swept EXCEPT ![v] =
       IF @.status \in {"waiting", "admitted"} THEN GoneSeat ELSE @])

\* An operator's pass or an allowlisted address: a token without a seat.
HandlePass(r) ==
  Begin(r, [Idle EXCEPT !.pc = "seated"]) /\ UNCHANGED <<seat, confirmed>>

\* room.getTokenEpoch, called by the routes above and by the access gate.
ReadEpoch(r, from, to) ==
  /\ request[r].pc = from
  /\ request' = [request EXCEPT ![r].pc = to, ![r].epoch = epoch]
  /\ UNCHANGED <<clock, seat, epoch, tokens, confirmed>>

\* Mutant: status counts the lifetime from now as well.
IssuedAtNow(q) == IF q.op = "enter" THEN q.at ELSE clock

\* iat: the seat's admission for status and enter, now for join and passes.
IssuedAt(q) == IF q.op \in {"status", "enter"} THEN q.at ELSE clock

Claims(q) == [sub |-> q.sub, exp |-> IssuedAt(q) + TokenTtl, epoch |-> q.epoch, by |-> q.op]

\* MaxTokens bounds the tokens of the instance.
Issue(r) ==
  /\ request[r].pc = "epoch"
  /\ Cardinality(tokens) < MaxTokens
  /\ tokens' = tokens \cup {Claims(request[r])}
  /\ request' = [request EXCEPT ![r] = Idle]
  /\ UNCHANGED <<clock, seat, epoch, confirmed>>

\* The browser never reads the answer.
Lose(r) ==
  /\ request[r].pc \in {"seated", "epoch"}
  /\ request' = [request EXCEPT ![r] = Idle]
  /\ UNCHANGED <<clock, seat, epoch, tokens, confirmed>>

-----------------------------------------------------------------------------
(***************************************************************************)
(* The access gate in front of the protected site (resolveAccessGate).     *)
(***************************************************************************)
Present(r, t) ==
  /\ Begin(r, [Idle EXCEPT !.pc = "gate", !.token = t])
  /\ UNCHANGED <<clock, seat, epoch, tokens, confirmed>>

\* Mutant: the gate verifies without the room's epoch.
VerifiesAnyEpoch(q) == clock < q.token.exp

\* verifyAccessToken, with the epoch the gate has read.
Verifies(q) == clock < q.token.exp /\ q.token.epoch = q.epoch

\* The request is served, or sent to the waiting room.
Verify(r) ==
  /\ request[r].pc = "verify"
  /\ request' = [request EXCEPT ![r] =
       IF Verifies(request[r]) THEN [@ EXCEPT !.pc = "served"] ELSE Idle]
  /\ UNCHANGED <<clock, seat, epoch, tokens, confirmed>>

Done(r) ==
  /\ request[r].pc = "served"
  /\ request' = [request EXCEPT ![r] = Idle]
  /\ UNCHANGED <<clock, seat, epoch, tokens, confirmed>>

\* Bound: no request takes longer than Latency.
Tick ==
  /\ clock < MaxClock
  /\ \A r \in Request : request[r].pc # "idle" => clock < request[r].since + Latency
  /\ clock' = clock + 1
  /\ UNCHANGED <<seat, epoch, tokens, request, confirmed>>

Init ==
  /\ clock = 1
  /\ seat = [v \in Visitor |-> NoSeat]
  /\ epoch = 0
  /\ tokens = {}
  /\ request = [r \in Request |-> Idle]
  /\ confirmed = {}

Handle(r) ==
  /\ \/ \E v \in Visitor :
          \/ HandleJoin(r, v) \/ HandleStatus(r, v)
          \/ HandleEnter(r, v) \/ HandleLeave(r, v)
     \/ HandlePass(r)
  /\ UNCHANGED <<clock, epoch, tokens>>

Next ==
  \/ \E r \in Request :
       \/ Handle(r)
       \/ ReadEpoch(r, "seated", "epoch") \/ Issue(r) \/ Lose(r)
       \/ \E t \in tokens : Present(r, t)
       \/ ReadEpoch(r, "gate", "verify") \/ Verify(r) \/ Done(r)
  \/ Room
  \/ Revoke
  \/ Tick

Spec == Init /\ [][Next]_vars

-----------------------------------------------------------------------------
(***************************************************************************)
(* Properties.                                                             *)
(***************************************************************************)
TypeOK ==
  /\ clock \in Nat \ {0}
  /\ seat \in [Visitor -> Seat]
  /\ epoch \in Nat
  /\ tokens \subseteq Token
  /\ request \in [Request -> [pc: {"idle", "seated", "epoch", "gate", "verify", "served"},
                              op: Op, sub: Visitor \cup {Guest}, at: Nat, since: Nat,
                              begun: Nat, epoch: Nat, token: Token]]
  /\ confirmed \subseteq [sub: Visitor, at: Nat, epoch: Nat]

OfVisitor == {t \in tokens : t.sub \in Visitor}

\* A visitor's token comes from a confirmed seat of that visitor, never from
\* a place in line or a held seat; a token of status or enter ends exactly with
\* the seat, however late it is signed and whatever became of the seat
\* meanwhile; a token of join outlives it by less than one lifetime and the
\* time the request took (canIssueAccessToken, buildAdmissionClaims, nowMs).
TokenFollowsSeat ==
  \A t \in OfVisitor : \E c \in confirmed :
    /\ c.sub = t.sub
    /\ t.by \in {"status", "enter"} => t.exp = c.at + TokenTtl
    /\ t.by = "join" => t.exp < c.at + TokenTtl + TokenTtl + Latency

\* A request to the protected site is never served with a token revoked
\* before the request began, whatever was revoked while it was checked.
GateCurrent ==
  \A r \in Request :
    request[r].pc = "served" => request[r].token.epoch >= request[r].begun
=============================================================================
