----------------------- MODULE WaitingRoomClientProofs -----------------------
(***************************************************************************)
(* Proofs about WaitingRoomClient: whatever the number of chains under way *)
(* and of requests lost, the page goes to the site only when the room has  *)
(* said so, and its timers and its panel follow what it is doing.          *)
(***************************************************************************)
EXTENDS WaitingRoomClient, TLAPS

Script == [id: BOOLEAN, timer: BOOLEAN, beat: BOOLEAN, hold: BOOLEAN, panel: BOOLEAN,
           entering: BOOLEAN, stopped: BOOLEAN, paused: BOOLEAN, going: BOOLEAN,
           started: BOOLEAN]

\* What a request of each kind may be answered.
Replies(at) ==
  CASE at = "challenge" -> {"sent", "fail"}
    [] at = "join" -> {"sent", "fail", "waiting", "held", "entered", "closed", "blocked"}
    [] at = "status" -> {"sent", "fail", "waiting", "held", "entered", "closed", "none"}
    [] at \in {"enter", "leave"} -> {"sent", "fail", "ok"}

Chain ==
  [for: {"none", "boot", "tick", "resume", "forfeit", "enter"},
   at: {"challenge", "join", "status", "enter", "leave"},
   answer: {"sent", "fail", "waiting", "held", "entered", "closed", "blocked", "none", "ok"}]

\* Only a click asks to enter.
Fit(k) == k.answer \in Replies(k.at) /\ (k.at = "enter" => k.for = "enter")

ShapeInv ==
  /\ setup \in Setup
  /\ page \in Script
  /\ tab \in {"visible", "hidden", "left"}
  /\ chains \in [Chains -> Chain]
  /\ \A c \in Chains : Fit(chains[c])
  /\ widget \in Chains \cup {Nowhere}
  /\ widget # Nowhere => chains[widget].at = "challenge" /\ chains[widget].answer = "sent"
  /\ seat \in Seats
  /\ confirmed \in BOOLEAN /\ overtaken \in BOOLEAN

\* An answer by which the page would go to the site was given by a room that
\* had confirmed the seat or let everybody pass.
Vouches(c) ==
  chains[c].at # "leave" /\ chains[c].answer \in {"entered", "closed", "ok"} => confirmed

\* The chains that set the timers again whatever happens to the others: with
\* fixed intervals a tick leaves its timer alone.
Rearming == IF setup.fixed THEN {"resume"} ELSE {"tick", "resume"}

\* A page that has set its timers and is neither stopped nor paused is about to
\* ask for its place, in view or not.
AsksInv ==
  page.started /\ ~page.stopped /\ ~page.paused /\ ~overtaken /\ tab # "left" =>
    page.timer \/ \E c \in Chains : chains[c].for \in Rearming

PageInv ==
  /\ page.stopped => ~page.timer /\ ~page.beat
  /\ page.paused => tab # "visible" /\ ~page.entering
  /\ page.panel /\ tab # "left" /\ ~page.going => page.hold
  /\ page.going => confirmed

IInv == ShapeInv /\ PageInv /\ AsksInv /\ \A c \in Chains : Vouches(c)

-----------------------------------------------------------------------------
(***************************************************************************)
(* The helpers of the page.                                                *)
(***************************************************************************)
\* What a page keeps to by itself.
Consistent(p) ==
  /\ p.stopped => ~p.timer /\ ~p.beat
  /\ p.panel /\ ~p.going => p.hold

LEMMA UnheldPage ==
  ASSUME NEW p \in Script
  PROVE  LET q == Unheld(p)
         IN /\ q \in Script /\ ~q.panel
            /\ q.id = p.id /\ q.timer = p.timer /\ q.beat = p.beat /\ q.entering = p.entering
            /\ q.stopped = p.stopped /\ q.paused = p.paused /\ q.going = p.going
            /\ q.started = p.started
BY DEF Unheld, Script

LEMMA StoppedPage ==
  ASSUME NEW p \in Script
  PROVE  LET q == Stopped(p)
         IN /\ q \in Script /\ q.stopped /\ ~q.timer /\ ~q.beat
            /\ q.id = p.id /\ q.hold = p.hold /\ q.panel = p.panel /\ q.entering = p.entering
            /\ q.paused = p.paused /\ q.going = p.going /\ q.started = p.started
BY DEF Stopped, Script

LEMMA RedirectedPage ==
  ASSUME NEW p \in Script
  PROVE  LET q == Redirected(p)
         IN /\ q \in Script /\ q.stopped /\ ~q.timer /\ ~q.beat /\ q.going
            /\ q.id = p.id /\ q.entering = p.entering /\ q.paused = p.paused
            /\ q.started = p.started
<1> DEFINE r == Stopped(p)
           q == [r EXCEPT !.going = TRUE]
<1>1. /\ r \in Script /\ r.stopped /\ ~r.timer /\ ~r.beat /\ r.id = p.id
      /\ r.entering = p.entering /\ r.paused = p.paused /\ r.started = p.started
  BY StoppedPage
<1> HIDE DEF r
<1>2. /\ q \in Script /\ q.stopped = r.stopped /\ q.timer = r.timer /\ q.beat = r.beat
      /\ q.going /\ q.id = r.id /\ q.entering = r.entering /\ q.paused = r.paused
      /\ q.started = r.started
  BY <1>1 DEF Script
<1> HIDE DEF q
<1>3. Redirected(p) = q
  BY DEF Redirected, q, r
<1> QED
  BY <1>1, <1>2, <1>3

\* An answer stops the page or leaves its timers alone, and sends it to the site
\* only when it is a confirmation or a pass.
LEMMA PaintedPage ==
  ASSUME NEW p \in Script, Consistent(p),
         NEW answer \in {"waiting", "held", "entered", "closed", "blocked"}
  PROVE  LET q == Painted(p, answer)
         IN /\ q \in Script /\ Consistent(q)
            /\ q.entering = p.entering /\ q.paused = p.paused /\ q.started = p.started
            /\ q.stopped \/ (~p.stopped /\ q.timer = p.timer)
            /\ q.going => p.going \/ answer \in {"entered", "closed"}
<1>1. CASE answer = "waiting"
  BY <1>1, UnheldPage DEF Painted, Consistent, Script
<1>2. CASE answer = "closed"
  <2>1. Painted(p, answer) = Redirected(Unheld(p))
    BY <1>2 DEF Painted
  <2> QED
    BY <1>2, <2>1, UnheldPage, RedirectedPage DEF Consistent
<1>3. CASE answer = "held"
  <2> DEFINE q == [p EXCEPT !.panel = TRUE, !.hold = TRUE]
  <2>1. /\ q \in Script /\ q.hold /\ q.timer = p.timer /\ q.beat = p.beat
        /\ q.entering = p.entering /\ q.stopped = p.stopped /\ q.paused = p.paused
        /\ q.going = p.going /\ q.started = p.started
    BY DEF Script
  <2>2. Painted(p, answer) = q
    BY <1>3 DEF Painted
  <2> HIDE DEF q
  <2> QED
    BY <2>1, <2>2 DEF Consistent, Script
<1>4. CASE answer = "entered"
  <2>1. Painted(p, answer) = Redirected(p)
    BY <1>4 DEF Painted
  <2> QED
    BY <1>4, <2>1, RedirectedPage DEF Consistent
<1>5. CASE answer = "blocked"
  <2>1. Painted(p, answer) = Stopped(Unheld(p))
    BY <1>5 DEF Painted
  <2> QED
    BY <2>1, UnheldPage, StoppedPage DEF Consistent
<1> QED
  BY <1>1, <1>2, <1>3, <1>4, <1>5

\* At the end of a chain the timers are set, unless the page was stopped meanwhile or the
\* chain has none to set.
LEMMA RearmedPage ==
  ASSUME setup \in Setup, NEW p \in Script, Consistent(p),
         NEW for \in {"boot", "tick", "resume", "forfeit", "enter"},
         NEW q, \E slow \in BOOLEAN : q = Rearmed(p, for, slow)
  PROVE  /\ q \in Script /\ Consistent(q)
         /\ q.entering = p.entering /\ q.stopped = p.stopped /\ q.paused = p.paused
         /\ q.going = p.going
         /\ q.timer \/ (q.timer = p.timer /\ q.started = p.started)
         /\ for \in Rearming /\ ~p.stopped => q.timer
<1>1. PICK slow \in BOOLEAN : q = Rearmed(p, for, slow)
  OBVIOUS
<1>2. CASE p.stopped \/ for \in {"forfeit", "enter"} \/ (for = "tick" /\ setup.fixed)
  <2>1. q = p
    BY <1>1, <1>2 DEF Rearmed
  <2> QED
    BY <1>2, <2>1 DEF Rearming
<1>3. CASE ~(p.stopped \/ for \in {"forfeit", "enter"} \/ (for = "tick" /\ setup.fixed))
  <2> DEFINE b == setup.fixed \/ slow
             t == [p EXCEPT !.timer = TRUE, !.beat = b, !.started = TRUE]
  <2>1. b \in BOOLEAN
    OBVIOUS
  <2> HIDE DEF b
  <2>2. /\ t \in Script /\ t.timer /\ t.hold = p.hold /\ t.panel = p.panel
        /\ t.entering = p.entering /\ t.stopped = p.stopped /\ t.paused = p.paused
        /\ t.going = p.going
    BY <2>1 DEF Script
  <2>3. q = t
    BY <1>1, <1>3 DEF Rearmed, b
  <2> HIDE DEF t
  <2> QED
    BY <1>3, <2>2, <2>3 DEF Consistent
<1> QED
  BY <1>2, <1>3

-----------------------------------------------------------------------------
LEMMA NewChain ==
  ASSUME NEW for \in {"boot", "tick", "resume", "forfeit", "enter"},
         NEW at \in {"challenge", "join", "status", "enter", "leave"},
         at = "enter" => for = "enter"
  PROVE  LET k == Opening(for, at)
         IN /\ k \in Chain /\ k.for = for /\ k.at = at /\ k.answer = "sent"
            /\ Fit(k)
BY DEF Opening, Chain, Fit, Replies

LEMMA FreeChain ==
  Free \in Chain /\ Free.for = "none" /\ Free.at = "join" /\ Free.answer = "sent"
    /\ Fit(Free)
BY DEF Free, Chain, Fit, Replies

LEMMA InitInv == ClientInit => IInv
<1> SUFFICES ASSUME ClientInit PROVE IInv
  OBVIOUS
<1> DEFINE c == CHOOSE d \in Chains : TRUE
<1>1. c \in Chains
  BY ClientAssumption
<1>2. setup \in Setup /\ JoinAt \in {"challenge", "join"}
  BY ClientAssumption DEF ClientInit, JoinAt
<1>3. \A d \in Chains : chains[d] = IF d = c THEN Opening("boot", JoinAt) ELSE Free
  BY DEF ClientInit
<1>4. chains \in [Chains -> Chain]
  BY <1>2, NewChain, FreeChain, ZenonT(40) DEF ClientInit
<1>5. widget = IF setup.sitekey THEN c ELSE Nowhere
  BY DEF ClientInit
<1> HIDE DEF c
<1>6. ASSUME NEW d \in Chains
      PROVE  chains[d].answer = "sent" /\ Fit(chains[d])
  <2> DEFINE k == Opening("boot", JoinAt)
  <2>1. k.answer = "sent" /\ Fit(k)
    BY <1>2, NewChain
  <2> HIDE DEF k
  <2>2. chains[d] = k \/ chains[d] = Free
    BY <1>3 DEF k
  <2> QED
    BY <2>1, <2>2, FreeChain
<1>7. widget # Nowhere => chains[widget].at = "challenge" /\ chains[widget].answer = "sent"
  BY <1>1, <1>2, <1>3, <1>5, NewChain DEF JoinAt
<1>8. ShapeInv
  <2>1. page \in Script
    BY <1>2 DEF ClientInit, Script, Setup
  <2> QED
    BY <1>1, <1>2, <1>4, <1>5, <1>6, <1>7, <2>1 DEF ClientInit, ShapeInv, Seats
<1>9. PageInv /\ AsksInv
  BY DEF ClientInit, PageInv, AsksInv
<1> QED
  BY <1>6, <1>8, <1>9 DEF IInv, Vouches

-----------------------------------------------------------------------------
(***************************************************************************)
(* The steps of the chains.                                                *)
(***************************************************************************)
\* One chain becomes k, and the widget may change hands.
LEMMA OneChain ==
  ASSUME ShapeInv, \A d \in Chains : Vouches(d),
         NEW c \in Chains, NEW k \in Chain, Fit(k),
         k.at # "leave" /\ k.answer \in {"entered", "closed", "ok"} => confirmed',
         chains' = [chains EXCEPT ![c] = k], setup' = setup, confirmed => confirmed',
         widget' = widget \/ widget' = Nowhere,
         widget' = c => k.at = "challenge" /\ k.answer = "sent"
  PROVE  /\ chains' \in [Chains -> Chain]
         /\ \A d \in Chains : Fit(chains'[d])
         /\ widget' \in Chains \cup {Nowhere}
         /\ widget' # Nowhere => chains'[widget'].at = "challenge" /\ chains'[widget'].answer = "sent"
         /\ (\A d \in Chains : Vouches(d))'
<1>1. \A d \in Chains : chains'[d] = IF d = c THEN k ELSE chains[d]
  BY DEF ShapeInv
<1>2. chains' \in [Chains -> Chain]
  BY DEF ShapeInv
<1>3. \A d \in Chains : Fit(chains'[d])
  BY <1>1 DEF ShapeInv
<1>4. /\ widget' \in Chains \cup {Nowhere}
      /\ widget' # Nowhere => chains'[widget'].at = "challenge" /\ chains'[widget'].answer = "sent"
  BY <1>1 DEF ShapeInv
<1>5. ASSUME NEW d \in Chains PROVE Vouches(d)'
  BY <1>1 DEF Vouches
<1> QED
  BY <1>2, <1>3, <1>4, <1>5

\* A chain that starts on nothing but the page's own account leaves every other as it is.
LEMMA StartedChain ==
  ASSUME IInv, NEW c \in Chains, Starts(c), NEW p \in Script,
         NEW for \in {"tick", "resume", "forfeit", "enter"}, NEW at \in {"status", "enter", "leave"},
         at = "enter" => for = "enter", page' = p, chains' = [chains EXCEPT ![c] = Opening(for, at)],
         UNCHANGED <<setup, widget, seat, confirmed, overtaken>>,
         tab' \in {"visible", "hidden"},
         Consistent(p), p.going => confirmed, p.paused => tab' # "visible" /\ ~p.entering,
         \/ for \in Rearming
         \/ p.timer
         \/ p.stopped
         \/ /\ p.timer = page.timer /\ p.started = page.started /\ tab # "left"
            /\ p.stopped = page.stopped /\ p.paused = page.paused
  PROVE  IInv'
<1> DEFINE k == Opening(for, at)
<1>1. chains[c] = Free
  BY DEF Starts
<1>2. k \in Chain /\ k.for = for /\ k.at = at /\ k.answer = "sent" /\ Fit(k)
  BY NewChain
<1>3. widget # c
  BY <1>1, FreeChain, ClientAssumption DEF IInv, ShapeInv
<1> HIDE DEF k
<1>4. chains' = [chains EXCEPT ![c] = k]
  BY DEF k
<1>5. /\ chains' \in [Chains -> Chain]
      /\ \A d \in Chains : Fit(chains'[d])
      /\ widget' \in Chains \cup {Nowhere}
      /\ widget' # Nowhere => chains'[widget'].at = "challenge" /\ chains'[widget'].answer = "sent"
      /\ (\A d \in Chains : Vouches(d))'
  <2>1. k.at # "leave" /\ k.answer \in {"entered", "closed", "ok"} => confirmed'
    BY <1>2
  <2>2. widget' = widget
    OBVIOUS
  <2>3. ShapeInv /\ (\A d \in Chains : Vouches(d)) /\ setup' = setup /\ (confirmed => confirmed')
    BY DEF IInv
  <2> QED
    BY <1>2, <1>3, <1>4, <2>1, <2>2, <2>3, OneChain
<1>6. ShapeInv'
  BY <1>5 DEF IInv, ShapeInv
<1>7. PageInv'
  BY DEF PageInv, Consistent
<1>8. AsksInv'
  <2> SUFFICES ASSUME p.started, ~p.stopped, ~p.paused, ~overtaken
               PROVE  p.timer \/ \E d \in Chains : chains'[d].for \in Rearming'
    BY DEF AsksInv
  <2>1. chains'[c].for = for /\ Rearming' = Rearming
    BY <1>2, <1>4 DEF IInv, ShapeInv, Rearming
  <2>2. CASE for \in Rearming
    BY <2>1, <2>2
  <2>3. CASE /\ p.timer = page.timer /\ p.started = page.started /\ tab # "left"
             /\ p.stopped = page.stopped /\ p.paused = page.paused
    <3>1. page.timer \/ \E d \in Chains : chains[d].for \in Rearming
      BY <2>3 DEF IInv, AsksInv
    <3>2. ASSUME NEW d \in Chains, chains[d].for \in Rearming
          PROVE  chains'[d].for \in Rearming
      <4>1. d # c
        BY <1>1, <3>2, FreeChain DEF Rearming
      <4> QED
        BY <1>4, <3>2, <4>1 DEF IInv, ShapeInv
    <3> QED
      BY <2>1, <2>3, <3>1, <3>2
  <2> QED
    BY <2>2, <2>3
<1> QED
  BY <1>5, <1>6, <1>7, <1>8 DEF IInv

LEMMA FireInv ==
  ASSUME IInv, NEW c \in Chains, Fire(c)
  PROVE  IInv'
<1> DEFINE p == [page EXCEPT !.timer = setup.fixed]
<1>1. page \in Script /\ setup \in Setup /\ setup.fixed \in BOOLEAN /\ tab \in {"visible", "hidden"}
  BY DEF Fire, IInv, ShapeInv, Setup
<1>2. page.timer /\ ~page.stopped
  BY DEF Fire, IInv, PageInv
<1>3. /\ p \in Script /\ p.timer = setup.fixed /\ p.hold = page.hold /\ p.panel = page.panel
      /\ p.entering = page.entering /\ p.stopped = page.stopped /\ p.paused = page.paused
      /\ p.going = page.going
  BY <1>1 DEF Script
<1>4. page' = p /\ chains' = [chains EXCEPT ![c] = Opening("tick", "status")] /\ Starts(c)
      /\ UNCHANGED <<setup, tab, widget, seat, confirmed, overtaken>>
  BY DEF Fire
<1> HIDE DEF p
<1>5. "tick" \in Rearming \/ p.timer
  BY <1>1, <1>3 DEF Rearming
<1>6. /\ Consistent(p) /\ (p.going => confirmed)
      /\ p.paused => tab # "visible" /\ ~p.entering
  BY <1>1, <1>2, <1>3 DEF Consistent, IInv, PageInv
<1> QED
  BY <1>1, <1>3, <1>4, <1>5, <1>6, StartedChain

LEMMA CountdownInv ==
  ASSUME IInv, NEW c \in Chains, Countdown(c)
  PROVE  IInv'
<1> DEFINE p == Unheld(page)
<1>1. page \in Script /\ tab \in {"visible", "hidden"} /\ tab # "left"
  BY DEF Countdown, IInv, ShapeInv
<1>2. /\ p \in Script /\ ~p.panel /\ p.timer = page.timer /\ p.beat = page.beat
      /\ p.entering = page.entering /\ p.stopped = page.stopped /\ p.paused = page.paused
      /\ p.going = page.going /\ p.started = page.started
  BY <1>1, UnheldPage
<1>3. page' = p /\ chains' = [chains EXCEPT ![c] = Opening("forfeit", "leave")] /\ Starts(c)
      /\ UNCHANGED <<setup, tab, widget, seat, confirmed, overtaken>>
  BY DEF Countdown
<1> HIDE DEF p
<1>4. /\ Consistent(p) /\ (p.going => confirmed)
      /\ p.paused => tab # "visible" /\ ~p.entering
  BY <1>1, <1>2 DEF Consistent, IInv, PageInv
<1> QED
  BY <1>1, <1>2, <1>3, <1>4, StartedChain

LEMMA ClickInv ==
  ASSUME IInv, NEW c \in Chains, Click(c)
  PROVE  IInv'
<1> DEFINE p == [page EXCEPT !.entering = TRUE]
<1>1. page \in Script /\ tab = "visible"
  BY DEF Click, IInv, ShapeInv
<1>2. /\ p \in Script /\ p.hold = page.hold /\ p.panel = page.panel
      /\ p.timer = page.timer /\ p.beat = page.beat
      /\ p.stopped = page.stopped /\ p.paused = page.paused
      /\ p.going = page.going /\ p.started = page.started
  BY <1>1 DEF Script
<1>3. page' = p /\ chains' = [chains EXCEPT ![c] = Opening("enter", "enter")] /\ Starts(c)
      /\ UNCHANGED <<setup, tab, widget, seat, confirmed, overtaken>>
  BY DEF Click
<1> HIDE DEF p
<1>4. Consistent(p) /\ (p.going => confirmed) /\ ~p.paused
  BY <1>1, <1>2 DEF Consistent, IInv, PageInv
<1> QED
  BY <1>1, <1>2, <1>3, <1>4, StartedChain

\* A chain gets on, and the page knows nothing of it yet.
LEMMA UnseenInv ==
  ASSUME IInv, NEW c \in Chains, NEW k \in Chain, k.for = chains[c].for,
         Fit(k),
         k.at # "leave" /\ k.answer \in {"entered", "closed", "ok"} => confirmed',
         chains' = [chains EXCEPT ![c] = k], UNCHANGED <<setup, page, tab, overtaken>>,
         confirmed => confirmed', confirmed' \in BOOLEAN, seat' \in Seats,
         widget' = widget \/ widget' = Nowhere, widget' = c => k.at = "challenge" /\ k.answer = "sent"
  PROVE  IInv'
<1>1. ShapeInv /\ \A d \in Chains : Vouches(d)
  BY DEF IInv
<1>2. setup' = setup
  OBVIOUS
<1>3. /\ chains' \in [Chains -> Chain]
      /\ \A d \in Chains : Fit(chains'[d])
      /\ widget' \in Chains \cup {Nowhere}
      /\ widget' # Nowhere => chains'[widget'].at = "challenge" /\ chains'[widget'].answer = "sent"
      /\ (\A d \in Chains : Vouches(d))'
  BY <1>1, <1>2, OneChain
<1>4. ShapeInv'
  BY <1>1, <1>3 DEF ShapeInv
<1>5. PageInv'
  BY DEF IInv, PageInv
<1>6. AsksInv'
  <2>1. \A d \in Chains : chains'[d].for = chains[d].for
    BY <1>1 DEF ShapeInv
  <2> QED
    BY <2>1 DEF IInv, AsksInv, Rearming
<1> QED
  BY <1>3, <1>4, <1>5, <1>6 DEF IInv

LEMMA SolveInv ==
  ASSUME IInv, Solve
  PROVE  IInv'
<1>1. widget \in Chains /\ chains[widget].at = "challenge" /\ chains[widget] \in Chain
  BY DEF Solve, IInv, ShapeInv
<1> DEFINE k == [chains[widget] EXCEPT !.at = "join"]
<1>2. k \in Chain /\ k.at = "join" /\ k.for = chains[widget].for /\ k.answer = chains[widget].answer
  BY <1>1 DEF Chain
<1> HIDE DEF k
<1>3. chains[widget].answer \in {"sent", "fail"}
  BY <1>1 DEF IInv, ShapeInv, Fit, Replies
<1>4. Fit(k)
  BY <1>2, <1>3 DEF Fit, Replies
<1>5. chains' = [chains EXCEPT ![widget] = k] /\ widget' = Nowhere
      /\ UNCHANGED <<setup, page, tab, seat, confirmed, overtaken>>
  BY DEF Solve, k
<1>6. confirmed \in BOOLEAN /\ seat \in Seats /\ widget' # widget
  BY <1>1, <1>5, ClientAssumption DEF IInv, ShapeInv
<1> QED
  BY <1>1, <1>2, <1>3, <1>4, <1>5, <1>6, UnseenInv

\* What a room answers fits the request, and vouches for what it sends to the site.
LEMMA AnswersFit ==
  ASSUME seat \in Seats, NEW at \in {"join", "status", "enter", "leave"},
         NEW served \in Answers(at)
  PROVE  /\ served[1] \in Seats /\ served[2] \in Replies(at)
         /\ at # "leave" /\ served[2] \in {"entered", "closed", "ok"} =>
              served[1] = "entered" \/ served[2] = "closed"
<1>1. CASE at = "join"
  <2>1. \A s \in Places : s \in {"waiting", "held", "entered"}
    BY DEF Places, Seats
  <2>2. CASE served = <<seat, "blocked">>
    BY <1>1, <2>2 DEF Replies
  <2>3. CASE \E s \in Places : served \in {<<s, s>>, <<s, "closed">>}
    <3>1. PICK s \in Places : served \in {<<s, s>>, <<s, "closed">>}
      BY <2>3
    <3> QED
      BY <1>1, <2>1, <3>1 DEF Replies, Seats
  <2>4. served = <<seat, "blocked">> \/ \E s \in Places : served \in Told(s)
    BY <1>1 DEF Answers
  <2>5. \A s \in Places : Told(s) \subseteq {<<s, s>>, <<s, "closed">>}
    BY <2>1 DEF Told
  <2> QED
    BY <2>2, <2>3, <2>4, <2>5
<1>2. CASE at = "status"
  <2>1. served \in {<<seat, seat>>, <<seat, "closed">>}
    BY <1>2 DEF Answers, Told
  <2> QED
    BY <1>2, <2>1 DEF Fit, Replies, Seats
<1>3. CASE at = "enter"
  <2>1. served = <<"entered", "ok">> \/ served = <<seat, "fail">>
    BY <1>3 DEF Answers
  <2> QED
    BY <1>3, <2>1 DEF Fit, Replies, Seats
<1>4. CASE at = "leave"
  <2>1. served = <<"none", "ok">>
    BY <1>4 DEF Answers
  <2> QED
    BY <1>4, <2>1 DEF Fit, Replies, Seats
<1> QED
  BY <1>1, <1>2, <1>3, <1>4

LEMMA ServeInv ==
  ASSUME IInv, NEW c \in Chains, Serve(c)
  PROVE  IInv'
<1>1. chains[c] \in Chain /\ seat \in Seats /\ confirmed \in BOOLEAN
      /\ chains[c].at \in {"join", "status", "enter", "leave"}
  BY DEF Serve, IInv, ShapeInv, Chain
<1>2. PICK served \in Answers(chains[c].at) :
        /\ seat' = served[1] /\ chains' = [chains EXCEPT ![c].answer = served[2]]
        /\ confirmed' = (confirmed \/ served[1] = "entered" \/ served[2] = "closed")
  BY DEF Serve
<1>3. UNCHANGED <<setup, page, tab, widget, overtaken>>
  BY DEF Serve
<1>4. /\ served[1] \in Seats /\ served[2] \in Replies(chains[c].at)
      /\ chains[c].at # "leave" /\ served[2] \in {"entered", "closed", "ok"} => confirmed'
  BY <1>1, <1>2, AnswersFit
<1> DEFINE k == [chains[c] EXCEPT !.answer = served[2]]
<1>5. served[2] \in {"sent", "fail", "waiting", "held", "entered", "closed", "blocked",
                      "none", "ok"}
  BY <1>1, <1>4 DEF Fit, Replies
<1>6. k \in Chain /\ k.for = chains[c].for /\ k.at = chains[c].at /\ k.answer = served[2]
  BY <1>1, <1>5 DEF Chain
<1> HIDE DEF k
<1>f. Fit(k)
  <2>1. Fit(chains[c])
    BY DEF IInv, ShapeInv
  <2> QED
    BY <1>4, <1>6, <2>1 DEF Fit
<1>g. k.at # "leave" /\ k.answer \in {"entered", "closed", "ok"} => confirmed'
  BY <1>4, <1>6
<1>7. chains' = [chains EXCEPT ![c] = k]
  BY <1>2 DEF k
<1>8. widget' # c
  BY <1>1, <1>3, ClientAssumption DEF IInv, ShapeInv
<1>9. confirmed' \in BOOLEAN /\ (confirmed => confirmed')
  BY <1>2
<1> QED
  BY <1>2, <1>3, <1>4, <1>6, <1>f, <1>g, <1>7, <1>8, <1>9, UnseenInv

LEMMA LoseAnswerInv ==
  ASSUME IInv, NEW c \in Chains, LoseAnswer(c)
  PROVE  IInv'
<1>1. chains[c] \in Chain /\ seat \in Seats /\ confirmed \in BOOLEAN
  BY DEF IInv, ShapeInv
<1> DEFINE k == [chains[c] EXCEPT !.answer = "fail"]
<1>2. k \in Chain /\ k.for = chains[c].for /\ k.at = chains[c].at /\ k.answer = "fail"
  BY <1>1 DEF Chain
<1> HIDE DEF k
<1>3. Fit(k)
  <2>1. Fit(chains[c]) /\ chains[c].at \in {"challenge", "join", "status", "enter", "leave"}
    BY <1>1 DEF IInv, ShapeInv, Chain
  <2> QED
    BY <1>2, <2>1 DEF Fit, Replies
<1>4. chains' = [chains EXCEPT ![c] = k]
      /\ widget' = (IF widget = c THEN Nowhere ELSE widget)
      /\ UNCHANGED <<setup, page, tab, seat, confirmed, overtaken>>
  BY DEF LoseAnswer, k
<1>5. widget' # c
  BY <1>4, ClientAssumption
<1> QED
  BY <1>1, <1>2, <1>3, <1>4, <1>5, UnseenInv

-----------------------------------------------------------------------------
(***************************************************************************)
(* What the page does with an answer.                                      *)
(***************************************************************************)
\* The answer to a chain that is under way.
LEMMA Heard ==
  ASSUME IInv, NEW c \in Chains, Receive(c)
  PROVE  /\ chains[c] \in Chain /\ Fit(chains[c])
         /\ chains[c].for \in {"boot", "tick", "resume", "forfeit", "enter"}
         /\ chains[c].answer # "sent" /\ tab \in {"visible", "hidden"} /\ tab # "left"
         /\ page \in Script /\ Consistent(page) /\ setup \in Setup
         /\ UNCHANGED <<setup, tab, seat, confirmed>>
         /\ chains[c].at # "leave" /\ chains[c].answer \in {"entered", "closed", "ok"} => confirmed
<1>1. /\ chains[c] \in Chain /\ Fit(chains[c])
      /\ tab \in {"visible", "hidden"} /\ page \in Script /\ setup \in Setup
  BY DEF Receive, IInv, ShapeInv
<1>2. chains[c].for \in {"boot", "tick", "resume", "forfeit", "enter"}
  BY <1>1 DEF Receive, Chain
<1>3. Consistent(page)
  BY <1>1 DEF IInv, PageInv, Consistent
<1>4. Vouches(c)
  BY DEF IInv
<1> QED
  BY <1>1, <1>2, <1>3, <1>4 DEF Receive, Vouches

\* A chain ends, and the page becomes p and then sets its timers.
LEMMA EndsInv ==
  ASSUME IInv, NEW c \in Chains, Receive(c), NEW p \in Script, Ends(c, p), Consistent(p),
         p.entering = page.entering, p.paused = page.paused, p.started = page.started,
         p.stopped \/ (~page.stopped /\ p.timer = page.timer),
         p.going => confirmed,
         widget # c
  PROVE  IInv'
<1> DEFINE q == page'
<1>1. PICK for \in {"boot", "tick", "resume", "forfeit", "enter"} : for = chains[c].for
  BY Heard
<1>2. /\ q \in Script /\ Consistent(q)
      /\ q.entering = p.entering /\ q.stopped = p.stopped /\ q.paused = p.paused
      /\ q.going = p.going
      /\ q.timer \/ (q.timer = p.timer /\ q.started = p.started)
      /\ for \in Rearming /\ ~p.stopped => q.timer
  <2>1. setup \in Setup
    BY Heard
  <2>2. \E slow \in BOOLEAN : q = Rearmed(p, for, slow)
    BY <1>1 DEF Ends
  <2> QED
    BY <2>1, <2>2, RearmedPage
<1>3. chains' = [chains EXCEPT ![c] = Free] /\ UNCHANGED <<widget, overtaken>>
  BY DEF Ends
<1>4. ShapeInv /\ (\A d \in Chains : Vouches(d)) /\ setup' = setup /\ (confirmed => confirmed')
  BY Heard DEF IInv
<1>5. /\ chains' \in [Chains -> Chain]
      /\ \A d \in Chains : Fit(chains'[d])
      /\ widget' \in Chains \cup {Nowhere}
      /\ widget' # Nowhere => chains'[widget'].at = "challenge" /\ chains'[widget'].answer = "sent"
      /\ (\A d \in Chains : Vouches(d))'
  BY <1>3, <1>4, FreeChain, OneChain
<1>6. ShapeInv'
  BY <1>2, <1>3, <1>4, <1>5, Heard DEF ShapeInv
<1>7. PageInv'
  BY <1>2, <1>3, Heard DEF IInv, PageInv, Consistent
<1>8. AsksInv'
  <2> SUFFICES ASSUME q.started, ~q.stopped, ~q.paused, ~overtaken, ~q.timer
               PROVE  \E d \in Chains : chains'[d].for \in Rearming'
    BY <1>3 DEF AsksInv
  <2>1. page.started /\ ~page.stopped /\ ~page.paused /\ ~page.timer /\ chains[c].for \notin Rearming
    BY <1>1, <1>2
  <2>2. PICK d \in Chains : chains[d].for \in Rearming
    BY <2>1, Heard DEF IInv, AsksInv
  <2>3. d # c /\ Rearming' = Rearming
    BY <1>4, <2>1, <2>2 DEF Rearming
  <2> QED
    BY <1>3, <1>4, <2>2, <2>3 DEF ShapeInv
<1> QED
  BY <1>5, <1>6, <1>7, <1>8 DEF IInv

\* The widget is not with a chain that has been answered.
LEMMA AnsweredElsewhere ==
  ASSUME IInv, NEW c \in Chains, Receive(c)
  PROVE  widget # c
BY ClientAssumption DEF IInv, ShapeInv, Receive

LEMMA PaintedInv ==
  ASSUME IInv, NEW c \in Chains, Receive(c), chains[c].at \in {"join", "status"},
         chains[c].answer \notin {"fail", "none"},
         NEW b \in BOOLEAN, Ends(c, Painted([page EXCEPT !.id = b], chains[c].answer))
  PROVE  IInv'
<1> DEFINE r == [page EXCEPT !.id = b]
           q == Painted(r, chains[c].answer)
<1>1. /\ page \in Script /\ Consistent(page) /\ widget # c
      /\ chains[c].answer \in {"waiting", "held", "entered", "closed", "blocked"}
      /\ chains[c].answer \in {"entered", "closed"} => confirmed
  BY Heard, AnsweredElsewhere DEF Fit, Replies
<1>2. /\ r \in Script /\ r.timer = page.timer /\ r.beat = page.beat /\ r.hold = page.hold
      /\ r.panel = page.panel /\ r.entering = page.entering /\ r.stopped = page.stopped
      /\ r.paused = page.paused /\ r.going = page.going /\ r.started = page.started
  BY <1>1 DEF Script
<1> HIDE DEF r
<1>3. Consistent(r)
  BY <1>1, <1>2 DEF Consistent
<1>4. /\ q \in Script /\ Consistent(q)
      /\ q.entering = r.entering /\ q.paused = r.paused /\ q.started = r.started
      /\ q.stopped \/ (~r.stopped /\ q.timer = r.timer)
      /\ q.going => r.going \/ chains[c].answer \in {"entered", "closed"}
  BY <1>1, <1>2, <1>3, PaintedPage
<1>5. Ends(c, q)
  BY DEF r
<1> HIDE DEF q
<1>6. page.going => confirmed
  BY DEF IInv, PageInv
<1> QED
  BY <1>1, <1>2, <1>4, <1>5, <1>6, EndsInv

\* The page stays as it is but for its timers.
LEMMA GivenUpInv ==
  ASSUME IInv, NEW c \in Chains, Receive(c), Ends(c, page)
  PROVE  IInv'
<1>1. page \in Script /\ Consistent(page) /\ (page.going => confirmed)
  BY Heard DEF IInv, PageInv
<1>2. page.stopped \/ (~page.stopped /\ page.timer = page.timer)
  OBVIOUS
<1> QED
  BY <1>1, <1>2, AnsweredElsewhere, EndsInv

\* A chain joins again, and may take the widget from another.
LEMMA RejoiningInv ==
  ASSUME IInv, NEW c \in Chains, Receive(c), Rejoining(c), page' \in Script, Consistent(page'),
         page'.entering = page.entering, page'.paused = page.paused,
         page'.started = page.started, page'.stopped = page.stopped,
         page'.timer = page.timer, page'.going = page.going
  PROVE  IInv'
<1> DEFINE k == Opening(chains[c].for, JoinAt)
<1>1. JoinAt = (IF setup.sitekey THEN "challenge" ELSE "join") /\ JoinAt \in {"challenge", "join"}
  BY DEF JoinAt
<1>2. /\ k \in Chain /\ k.for = chains[c].for /\ k.at = JoinAt /\ k.answer = "sent"
      /\ Fit(k)
  <2>1. chains[c].for \in {"boot", "tick", "resume", "forfeit", "enter"}
    BY Heard
  <2> QED
    BY <1>1, <2>1, NewChain
<1> HIDE DEF k
<1>3. /\ \A d \in Chains : chains'[d] = IF d = c THEN k
                                       ELSE IF setup.sitekey /\ d = widget THEN Free ELSE chains[d]
      /\ widget' = IF setup.sitekey THEN c ELSE widget
      /\ overtaken' = (overtaken \/ (setup.sitekey /\ widget # Nowhere))
  BY DEF Rejoining, k
<1>4. chains' \in [Chains -> Chain]
  <2>1. \A d \in Chains : chains'[d] \in Chain
    BY <1>2, <1>3, FreeChain DEF IInv, ShapeInv
  <2>2. chains' = [d \in Chains |-> chains'[d]]
    BY DEF Rejoining
  <2> QED
    BY <2>1, <2>2
<1>5. \A d \in Chains : Fit(chains'[d])
  BY <1>2, <1>3, FreeChain DEF IInv, ShapeInv
<1>6. widget # c /\ UNCHANGED <<setup, tab, seat, confirmed>> /\ tab # "left"
  BY Heard, AnsweredElsewhere
<1>7. /\ widget' \in Chains \cup {Nowhere}
      /\ widget' # Nowhere => chains'[widget'].at = "challenge" /\ chains'[widget'].answer = "sent"
  <2>1. CASE setup.sitekey
    BY <1>1, <1>2, <1>3, <2>1
  <2>2. CASE ~setup.sitekey
    BY <1>3, <1>6, <2>2 DEF IInv, ShapeInv
  <2> QED
    BY <2>1, <2>2
<1>8. overtaken' \in BOOLEAN
  BY <1>3
<1>9. ShapeInv'
  BY <1>4, <1>5, <1>6, <1>7, <1>8 DEF IInv, ShapeInv
<1>10. ASSUME NEW d \in Chains PROVE Vouches(d)'
  BY <1>2, <1>3, <1>6, FreeChain DEF IInv, Vouches
<1>11. PageInv'
  BY <1>6 DEF IInv, PageInv, Consistent
<1>12. AsksInv'
  <2> SUFFICES ASSUME page.started, ~page.stopped, ~page.paused, ~overtaken', ~page.timer
               PROVE  \E d \in Chains : chains'[d].for \in Rearming'
    BY DEF AsksInv
  <2>1. ~overtaken /\ ~(setup.sitekey /\ widget # Nowhere)
    BY <1>3
  <2>2. PICK d \in Chains : chains[d].for \in Rearming
    BY <1>6, <2>1 DEF IInv, AsksInv
  <2>3. chains'[d].for = chains[d].for
    BY <1>2, <1>3, <2>1, ClientAssumption
  <2>4. Rearming' = Rearming
    BY <1>6 DEF Rearming
  <2> QED
    BY <2>2, <2>3, <2>4
<1> QED
  BY <1>9, <1>10, <1>11, <1>12 DEF IInv

LEMMA JoinedInv ==
  ASSUME IInv, NEW c \in Chains, Receive(c), Joined(c)
  PROVE  IInv'
<1>1. chains[c].at \in {"challenge", "join"}
  BY DEF Joined
<1>2. CASE chains[c].answer = "fail" /\ chains[c].for = "boot"
  <2>1. chains' = [chains EXCEPT ![c] = Free] /\ UNCHANGED <<page, widget, overtaken>>
    BY <1>2 DEF Joined
  <2>2. ShapeInv /\ (\A d \in Chains : Vouches(d)) /\ setup' = setup /\ (confirmed => confirmed')
    BY Heard DEF IInv
  <2>3. widget # c /\ UNCHANGED <<tab, seat, confirmed>>
    BY Heard, AnsweredElsewhere
  <2>4. /\ chains' \in [Chains -> Chain]
        /\ \A d \in Chains : Fit(chains'[d])
        /\ widget' \in Chains \cup {Nowhere}
        /\ widget' # Nowhere => chains'[widget'].at = "challenge" /\ chains'[widget'].answer = "sent"
        /\ (\A d \in Chains : Vouches(d))'
    BY <2>1, <2>2, <2>3, FreeChain, OneChain
  <2>5. ShapeInv' /\ PageInv'
    BY <2>1, <2>2, <2>3, <2>4 DEF IInv, ShapeInv, PageInv
  <2>6. AsksInv'
    <3>1. ASSUME NEW d \in Chains, chains[d].for \in Rearming
          PROVE  chains'[d].for \in Rearming'
      BY <1>2, <2>1, <2>2, <3>1 DEF ShapeInv, Rearming
    <3> QED
      BY <2>1, <2>3, <3>1 DEF IInv, AsksInv
  <2> QED
    BY <2>4, <2>5, <2>6 DEF IInv
<1>3. CASE chains[c].answer = "fail" /\ chains[c].for # "boot"
  BY <1>3, GivenUpInv DEF Joined
<1>4. CASE chains[c].answer # "fail"
  <2>1. chains[c].at = "join" /\ chains[c].answer # "none"
    BY <1>1, <1>4, Heard DEF Fit, Replies
  <2>2. Ends(c, Painted(IF chains[c].answer = "blocked" THEN page
                        ELSE [page EXCEPT !.id = TRUE], chains[c].answer))
    BY <1>4 DEF Joined
  <2>3. page \in Script /\ page = [page EXCEPT !.id = page.id] /\ page.id \in BOOLEAN
    BY Heard DEF Script
  <2>4. CASE chains[c].answer = "blocked"
    BY <1>4, <2>1, <2>2, <2>3, <2>4, PaintedInv
  <2>5. CASE chains[c].answer # "blocked"
    BY <1>4, <2>1, <2>2, <2>5, PaintedInv
  <2> QED
    BY <2>4, <2>5
<1> QED
  BY <1>2, <1>3, <1>4

LEMMA PolledInv ==
  ASSUME IInv, NEW c \in Chains, Receive(c), Polled(c)
  PROVE  IInv'
<1>1. chains[c].at = "status" /\ page \in Script
  BY Heard DEF Polled
<1>2. CASE chains[c].answer = "fail"
  BY <1>2, GivenUpInv DEF Polled
<1>3. CASE chains[c].answer = "none"
  <2> DEFINE r == Unheld(page)
             q == [r EXCEPT !.id = FALSE]
  <2>1. page' = q /\ Rejoining(c)
    BY <1>3 DEF Polled
  <2>2. /\ r \in Script /\ ~r.panel /\ r.timer = page.timer /\ r.beat = page.beat
        /\ r.entering = page.entering /\ r.stopped = page.stopped /\ r.paused = page.paused
        /\ r.going = page.going /\ r.started = page.started
    BY <1>1, UnheldPage
  <2> HIDE DEF r
  <2>3. /\ q \in Script /\ ~q.panel /\ q.timer = r.timer /\ q.beat = r.beat
        /\ q.entering = r.entering /\ q.stopped = r.stopped /\ q.paused = r.paused
        /\ q.going = r.going /\ q.started = r.started
    BY <2>2 DEF Script
  <2> HIDE DEF q
  <2>4. Consistent(q)
    BY <2>2, <2>3, Heard DEF Consistent
  <2> QED
    BY <2>1, <2>2, <2>3, <2>4, RejoiningInv
<1>4. CASE chains[c].answer \notin {"fail", "none"}
  <2>1. page = [page EXCEPT !.id = page.id] /\ page.id \in BOOLEAN
    BY <1>1 DEF Script
  <2>2. Ends(c, Painted([page EXCEPT !.id = page.id], chains[c].answer))
    BY <1>4, <2>1 DEF Polled
  <2> QED
    BY <1>1, <1>4, <2>1, <2>2, PaintedInv
<1> QED
  BY <1>2, <1>3, <1>4

LEMMA ForfeitedInv ==
  ASSUME IInv, NEW c \in Chains, Receive(c), Forfeited(c)
  PROVE  IInv'
<1> DEFINE q == [page EXCEPT !.id = FALSE]
<1>1. page' = q /\ Rejoining(c) /\ page \in Script
  BY Heard DEF Forfeited
<1>2. /\ q \in Script /\ q.panel = page.panel /\ q.timer = page.timer /\ q.beat = page.beat
      /\ q.entering = page.entering /\ q.stopped = page.stopped /\ q.paused = page.paused
      /\ q.going = page.going /\ q.started = page.started /\ q.hold = page.hold
  BY <1>1 DEF Script
<1> HIDE DEF q
<1>3. Consistent(q)
  BY <1>2, Heard DEF Consistent
<1> QED
  BY <1>1, <1>2, <1>3, RejoiningInv

LEMMA EnteredInv ==
  ASSUME IInv, NEW c \in Chains, Receive(c), Entered(c)
  PROVE  IInv'
<1>1. /\ page \in Script /\ Consistent(page) /\ widget # c /\ chains[c].at = "enter"
      /\ chains[c].for = "enter" /\ (chains[c].answer # "fail" => confirmed)
  <2>1. chains[c].at = "enter" /\ Fit(chains[c]) /\ chains[c].answer # "sent"
    BY Heard DEF Entered
  <2>2. chains[c].answer \in {"fail", "ok"}
    BY <2>1 DEF Fit, Replies
  <2> QED
    BY <2>1, <2>2, Heard, AnsweredElsewhere DEF Fit
<1>2. page' \in Script /\ Consistent(page') /\ (page'.going => confirmed)
      /\ page'.paused = page.paused /\ (page'.entering => page.entering)
      /\ \/ page'.stopped
         \/ /\ ~page.stopped /\ page'.timer = page.timer
            /\ page'.started = page.started
  <2>1. CASE chains[c].answer = "fail"
    <3> DEFINE q == [page EXCEPT !.entering = FALSE]
    <3>1. /\ q \in Script /\ q.panel = page.panel /\ q.timer = page.timer /\ q.beat = page.beat
          /\ ~q.entering /\ q.stopped = page.stopped /\ q.paused = page.paused
          /\ q.going = page.going /\ q.started = page.started /\ q.hold = page.hold
      BY <1>1 DEF Script
    <3>2. page' = q
      BY <2>1 DEF Entered
    <3> HIDE DEF q
    <3>3. page.stopped => q.stopped
      BY <3>1
    <3> QED
      BY <1>1, <3>1, <3>2, <3>3 DEF Consistent, IInv, PageInv
  <2>2. CASE chains[c].answer # "fail"
    <3> DEFINE r == [page EXCEPT !.hold = FALSE]
               q == Redirected(r)
    <3>1. r \in Script /\ r.entering = page.entering /\ r.paused = page.paused
      BY <1>1 DEF Script
    <3>2. page' = q
      BY <2>2 DEF Entered
    <3> HIDE DEF r
    <3>3. q \in Script /\ q.stopped /\ ~q.timer /\ ~q.beat /\ q.going
          /\ q.entering = r.entering /\ q.paused = r.paused
      BY <3>1, RedirectedPage
    <3> HIDE DEF q
    <3> QED
      BY <1>1, <2>2, <3>1, <3>2, <3>3 DEF Consistent
  <2> QED
    BY <2>1, <2>2
<1>3. chains' = [chains EXCEPT ![c] = Free] /\ UNCHANGED <<widget, overtaken>>
  BY DEF Entered
<1>4. ShapeInv /\ (\A d \in Chains : Vouches(d)) /\ setup' = setup /\ (confirmed => confirmed')
      /\ UNCHANGED <<tab, seat, confirmed>>
  BY Heard DEF IInv
<1>5. /\ chains' \in [Chains -> Chain]
      /\ \A d \in Chains : Fit(chains'[d])
      /\ widget' \in Chains \cup {Nowhere}
      /\ widget' # Nowhere => chains'[widget'].at = "challenge" /\ chains'[widget'].answer = "sent"
      /\ (\A d \in Chains : Vouches(d))'
  BY <1>1, <1>3, <1>4, FreeChain, OneChain
<1>6. ShapeInv' /\ PageInv'
  <2>1. ShapeInv'
    BY <1>2, <1>3, <1>4, <1>5 DEF ShapeInv
  <2>2. PageInv
    BY DEF IInv
  <2>3. PageInv'
    BY <1>2, <1>4, <2>2 DEF PageInv, Consistent
  <2> QED
    BY <2>1, <2>3
<1>7. AsksInv'
  <2> SUFFICES ASSUME page'.started, ~page'.stopped, ~page'.paused, ~overtaken, ~page'.timer,
                      tab # "left"
               PROVE  \E d \in Chains : chains'[d].for \in Rearming'
    BY <1>3, <1>4 DEF AsksInv
  <2>1. page.started /\ ~page.stopped /\ ~page.paused /\ ~page.timer
    BY <1>2
  <2>2. PICK d \in Chains : chains[d].for \in Rearming
    BY <2>1 DEF IInv, AsksInv
  <2>3. d # c /\ Rearming' = Rearming
    BY <1>1, <1>4, <2>2 DEF Rearming
  <2> QED
    BY <1>3, <1>4, <2>2, <2>3 DEF ShapeInv
<1> QED
  BY <1>5, <1>6, <1>7 DEF IInv

LEMMA ReceiveInv ==
  ASSUME IInv, NEW c \in Chains, Receive(c)
  PROVE  IInv'
<1>1. Joined(c) \/ Polled(c) \/ Forfeited(c) \/ Entered(c)
  BY DEF Receive
<1> QED
  BY <1>1, JoinedInv, PolledInv, ForfeitedInv, EnteredInv

-----------------------------------------------------------------------------
(***************************************************************************)
(* The steps of the tab and of the room.                                   *)
(***************************************************************************)
LEMMA HideInv ==
  ASSUME IInv, Hide
  PROVE  IInv'
<1> DEFINE q == [page EXCEPT !.paused = TRUE, !.timer = FALSE, !.beat = FALSE]
<1>1. page \in Script /\ tab = "visible" /\ tab' = "hidden"
      /\ UNCHANGED <<setup, chains, widget, seat, confirmed, overtaken>>
  BY DEF Hide, IInv, ShapeInv
<1>2. /\ q \in Script /\ q.paused /\ ~q.timer /\ ~q.beat /\ q.entering = page.entering
      /\ q.panel = page.panel /\ q.hold = page.hold /\ q.stopped = page.stopped
      /\ q.going = page.going
  BY <1>1 DEF Script
<1>3. page' = IF page.stopped \/ page.entering THEN page ELSE q
  BY DEF Hide
<1> HIDE DEF q
<1>4. ShapeInv'
  BY <1>1, <1>2, <1>3 DEF IInv, ShapeInv
<1>5. PageInv'
  <2>1. PageInv
    BY DEF IInv
  <2>2. CASE page' = page
    BY <1>1, <2>1, <2>2 DEF PageInv
  <2>3. CASE page' = q /\ ~page.entering
    BY <1>1, <1>2, <2>1, <2>3 DEF PageInv
  <2> QED
    BY <1>3, <2>2, <2>3
<1>6. AsksInv'
  <2> SUFFICES ASSUME page' = page, chains' = chains
               PROVE  AsksInv'
    BY <1>1, <1>2, <1>3 DEF AsksInv
  <2>1. Rearming' = Rearming
    BY <1>1 DEF Rearming
  <2> QED
    BY <1>1, <2>1 DEF IInv, AsksInv
<1>7. ASSUME NEW c \in Chains PROVE Vouches(c)'
  BY <1>1 DEF IInv, Vouches
<1> QED
  BY <1>4, <1>5, <1>6, <1>7 DEF IInv

LEMMA ShowInv ==
  ASSUME IInv, NEW c \in Chains, Show(c)
  PROVE  IInv'
<1> DEFINE again == [page EXCEPT !.stopped = FALSE, !.paused = FALSE]
<1>1. /\ page \in Script /\ setup \in Setup /\ tab = "hidden" /\ tab' = "visible"
      /\ Starts(c) /\ PageInv /\ AsksInv
      /\ UNCHANGED <<setup, widget, seat, confirmed, overtaken>>
  BY DEF Show, IInv, ShapeInv
<1>2. /\ again \in Script /\ ~again.stopped /\ ~again.paused
      /\ again.panel = page.panel /\ again.hold = page.hold /\ again.going = page.going
  BY <1>1 DEF Script
<1>3. \/ ~(page.paused \/ page.stopped) /\ page' = page /\ chains' = chains
      \/ page.entering /\ page' = page /\ chains' = chains
      \/ page' = again /\ chains' = [chains EXCEPT ![c] = Opening("resume", "status")]
      \/ (\E slow \in BOOLEAN : page' = Rearmed(again, "resume", slow)) /\ chains' = chains
  BY DEF Show
<1> HIDE DEF again
<1>4. Consistent(again) /\ (again.going => confirmed) /\ "resume" \in Rearming
  BY <1>1, <1>2 DEF PageInv, Consistent, Rearming
<1>5. ASSUME chains' = chains, page' \in Script, PageInv', AsksInv' PROVE IInv'
  <2>1. ShapeInv'
    BY <1>1, <1>5 DEF IInv, ShapeInv
  <2>2. ASSUME NEW d \in Chains PROVE Vouches(d)'
    BY <1>1, <1>5 DEF IInv, Vouches
  <2> QED
    BY <1>5, <2>1, <2>2 DEF IInv
<1>6. CASE page' = page /\ chains' = chains /\ ~page.paused
  <2>1. Rearming' = Rearming
    BY <1>1 DEF Rearming
  <2>2. AsksInv'
    BY <1>1, <1>6, <2>1 DEF AsksInv
  <2>3. PageInv'
    BY <1>1, <1>6 DEF PageInv
  <2> QED
    BY <1>1, <1>5, <1>6, <2>2, <2>3
<1>7. CASE page' = again /\ chains' = [chains EXCEPT ![c] = Opening("resume", "status")]
  BY <1>1, <1>2, <1>4, <1>7, StartedChain
<1>8. CASE /\ \E slow \in BOOLEAN : page' = Rearmed(again, "resume", slow)
           /\ chains' = chains
  <2>1. /\ page' \in Script /\ Consistent(page')
        /\ page'.paused = again.paused /\ page'.going = again.going /\ page'.timer
    BY <1>1, <1>2, <1>4, <1>8, RearmedPage
  <2>2. PageInv'
    BY <1>1, <1>2, <1>4, <2>1 DEF PageInv, Consistent
  <2>3. AsksInv'
    BY <2>1 DEF AsksInv
  <2> QED
    BY <1>5, <1>8, <2>1, <2>2, <2>3
<1>9. page.entering => ~page.paused
  BY <1>1 DEF PageInv
<1> QED
  BY <1>3, <1>6, <1>7, <1>8, <1>9

LEMMA UnloadInv ==
  ASSUME IInv, Unload
  PROVE  IInv'
<1> DEFINE r == Stopped(page)
           q == [r EXCEPT !.hold = FALSE]
<1>1. page \in Script /\ tab' = "left" /\ chains' = [c \in Chains |-> Free]
      /\ widget' = Nowhere /\ UNCHANGED <<setup, seat, confirmed, overtaken>>
  BY DEF Unload, IInv, ShapeInv
<1>2. /\ r \in Script /\ r.stopped /\ ~r.timer /\ ~r.beat /\ r.entering = page.entering
      /\ r.paused = page.paused /\ r.going = page.going
  BY <1>1, StoppedPage
<1> HIDE DEF r
<1>3. /\ q \in Script /\ q.stopped = r.stopped /\ q.timer = r.timer /\ q.beat = r.beat
      /\ q.entering = r.entering /\ q.paused = r.paused /\ q.going = r.going
  BY <1>2 DEF Script
<1>4. page' = q
  BY DEF Unload, r
<1> HIDE DEF q
<1>5. chains' \in [Chains -> Chain] /\ \A c \in Chains : chains'[c] = Free
  BY <1>1, FreeChain
<1>6. ShapeInv'
  BY <1>1, <1>2, <1>3, <1>4, <1>5, FreeChain DEF IInv, ShapeInv
<1>7. PageInv'
  BY <1>1, <1>2, <1>3, <1>4 DEF IInv, PageInv
<1>8. AsksInv'
  BY <1>1 DEF AsksInv
<1>9. ASSUME NEW c \in Chains PROVE Vouches(c)'
  BY <1>5, FreeChain DEF Vouches
<1> QED
  BY <1>6, <1>7, <1>8, <1>9 DEF IInv

LEMMA RoomStepInv ==
  ASSUME IInv, Admit \/ Lapse
  PROVE  IInv'
<1>1. /\ UNCHANGED <<setup, page, tab, chains, widget, overtaken>>
      /\ seat' \in Seats /\ confirmed' \in BOOLEAN /\ (confirmed => confirmed')
  BY DEF Admit, Lapse, IInv, ShapeInv, Seats
<1>2. ShapeInv'
  BY <1>1 DEF IInv, ShapeInv
<1>3. PageInv'
  BY <1>1 DEF IInv, PageInv
<1>4. AsksInv'
  BY <1>1 DEF IInv, AsksInv, Rearming
<1>5. ASSUME NEW c \in Chains PROVE Vouches(c)'
  BY <1>1 DEF IInv, Vouches
<1> QED
  BY <1>2, <1>3, <1>4, <1>5 DEF IInv

LEMMA NextInv ==
  ASSUME IInv, [ClientNext]_clientVars
  PROVE  IInv'
<1>1. CASE UNCHANGED clientVars
  BY <1>1 DEF clientVars, IInv, ShapeInv, PageInv, AsksInv, Rearming, Vouches
<1>2. CASE Solve \/ Hide \/ Unload \/ Admit \/ Lapse
  BY <1>2, SolveInv, HideInv, UnloadInv, RoomStepInv
<1>3. ASSUME NEW c \in Chains,
             \/ Fire(c) \/ Countdown(c) \/ Click(c) \/ Serve(c) \/ LoseAnswer(c)
             \/ Receive(c) \/ Show(c)
      PROVE  IInv'
  BY <1>3, FireInv, CountdownInv, ClickInv, ServeInv, LoseAnswerInv, ReceiveInv, ShowInv
<1> QED
  BY <1>1, <1>2, <1>3 DEF ClientNext

-----------------------------------------------------------------------------
(***************************************************************************)
(* A page without a visitor joins, or was stranded.                        *)
(***************************************************************************)
Joins(c) == chains[c].for # "none" /\ chains[c].at \in {"challenge", "join"}

JoinsInv == tab # "left" /\ ~page.id /\ ~stranded => \E c \in Chains : Joins(c)

LEMMA InitJoins == ClientInit => JoinsInv
<1> SUFFICES ASSUME ClientInit PROVE JoinsInv
  OBVIOUS
<1> DEFINE c == CHOOSE d \in Chains : TRUE
<1>1. c \in Chains
  BY ClientAssumption
<1>2. chains[c] = Opening("boot", JoinAt)
  BY <1>1 DEF ClientInit
<1>3. chains[c].for = "boot" /\ chains[c].at = JoinAt
  BY <1>2 DEF Opening
<1> QED
  BY <1>1, <1>3 DEF JoinsInv, Joins, JoinAt

\* A visitor, and the chains that join, are kept by whatever leaves them alone.
LEMMA JoinsKept ==
  ASSUME JoinsInv, page'.id = page.id, stranded' = stranded, tab' # "left" => tab # "left",
         \A d \in Chains : Joins(d) => Joins(d)'
  PROVE  JoinsInv'
BY DEF JoinsInv

LEMMA StartKeepsJoins ==
  ASSUME IInv, NEW c \in Chains, Starts(c), NEW k, chains' = [chains EXCEPT ![c] = k],
         NEW d \in Chains, Joins(d)
  PROVE  Joins(d)'
<1>1. chains[c] = Free
  BY DEF Starts
<1>2. d # c
  BY <1>1, FreeChain DEF Joins
<1> QED
  BY <1>2 DEF Joins, IInv, ShapeInv

\* A chain that goes on or is answered joins as before.
LEMMA AnswerKeepsJoins ==
  ASSUME IInv, NEW c \in Chains,
         \/ chains' = [chains EXCEPT ![c].at = "join"]
         \/ \E a : chains' = [chains EXCEPT ![c].answer = a],
         NEW d \in Chains, Joins(d)
  PROVE  Joins(d)'
<1>1. chains \in [Chains -> Chain]
  BY DEF IInv, ShapeInv
<1>2. chains'[d].for = chains[d].for /\ chains'[d].at \in {chains[d].at, "join"}
  <2>1. CASE chains' = [chains EXCEPT ![c].at = "join"]
    BY <1>1, <2>1 DEF Chain
  <2>2. CASE \E a : chains' = [chains EXCEPT ![c].answer = a]
    BY <1>1, <2>2 DEF Chain
  <2> QED
    BY <2>1, <2>2
<1> QED
  BY <1>2 DEF Joins

\* No answer to a status and no end of a chain forgets the visitor.
LEMMA PaintedVisitor ==
  ASSUME NEW p \in Script, NEW answer \in {"waiting", "held", "entered", "closed", "blocked"}
  PROVE  Painted(p, answer) \in Script /\ Painted(p, answer).id = p.id
<1>1. CASE answer = "held"
  BY <1>1 DEF Painted, Script
<1>2. CASE answer # "held"
  BY <1>2, UnheldPage, StoppedPage, RedirectedPage DEF Painted
<1> QED
  BY <1>1, <1>2

LEMMA RearmedVisitor ==
  ASSUME NEW p \in Script, NEW for, NEW slow
  PROVE  Rearmed(p, for, slow).id = p.id
BY DEF Rearmed, Script

LEMMA EndKeepsJoins ==
  ASSUME IInv, JoinsInv, NEW c \in Chains, Receive(c), chains[c].at \in {"status", "enter"},
         page'.id = page.id, chains' = [chains EXCEPT ![c] = Free]
  PROVE  JoinsInv'
<1> SUFFICES ASSUME tab' # "left", ~page'.id, ~stranded'
             PROVE  \E d \in Chains : Joins(d)'
  BY DEF JoinsInv
<1>1. ~stranded /\ tab # "left"
  BY DEF Receive
<1>2. PICK d \in Chains : Joins(d)
  BY <1>1 DEF JoinsInv
<1>3. d # c
  BY <1>2 DEF Joins
<1> QED
  BY <1>2, <1>3 DEF Joins, IInv, ShapeInv

LEMMA RejoiningJoins ==
  ASSUME IInv, NEW c \in Chains, Receive(c), Rejoining(c)
  PROVE  JoinsInv'
<1>1. chains'[c] = Opening(chains[c].for, JoinAt)
  BY DEF Rejoining
<1>2. chains'[c].for = chains[c].for /\ chains'[c].at = JoinAt /\ JoinAt \in {"challenge", "join"}
  BY <1>1 DEF Opening, JoinAt
<1>3. chains[c].for # "none"
  BY DEF Receive
<1> QED
  BY <1>2, <1>3 DEF JoinsInv, Joins

LEMMA ReceiveJoins ==
  ASSUME IInv, JoinsInv, NEW c \in Chains, Receive(c)
  PROVE  JoinsInv'
<1>1. page \in Script /\ Fit(chains[c]) /\ chains[c].answer # "sent"
  BY DEF IInv, ShapeInv, Receive
<1>2. CASE Joined(c)
  <2>1. chains[c].at \in {"challenge", "join"}
    BY <1>2 DEF Joined
  <2>2. stranded' = (~page'.id /\ (stranded \/ TRUE))
    BY <2>1 DEF Receive
  <2> QED
    BY <2>2 DEF JoinsInv
<1>3. CASE Polled(c)
  <2>1. chains[c].at = "status"
    BY <1>3 DEF Polled
  <2>2. CASE chains[c].answer = "none"
    <3>1. Rejoining(c)
      BY <1>3, <2>2 DEF Polled
    <3> QED
      BY <3>1, RejoiningJoins
  <2>3. CASE chains[c].answer # "none"
    <3>1. PICK p \in Script : Ends(c, p) /\ p.id = page.id
      <4>1. CASE chains[c].answer = "fail"
        BY <1>1, <1>3, <4>1 DEF Polled
      <4>2. CASE chains[c].answer # "fail"
        <5>1. chains[c].answer \in {"waiting", "held", "entered", "closed"}
          BY <1>1, <2>1, <2>3, <4>2 DEF Fit, Replies
        <5>2. Ends(c, Painted(page, chains[c].answer))
          BY <1>3, <5>1 DEF Polled
        <5> QED
          BY <1>1, <5>1, <5>2, PaintedVisitor
      <4> QED
        BY <4>1, <4>2
    <3>2. PICK slow \in BOOLEAN : page' = Rearmed(p, chains[c].for, slow)
      BY <3>1 DEF Ends
    <3>3. page'.id = page.id /\ chains' = [chains EXCEPT ![c] = Free]
      BY <3>1, <3>2, RearmedVisitor DEF Ends
    <3> QED
      BY <2>1, <3>3, EndKeepsJoins
  <2> QED
    BY <2>2, <2>3
<1>4. CASE Forfeited(c)
  BY <1>4, RejoiningJoins DEF Forfeited
<1>5. CASE Entered(c)
  <2> DEFINE r == [page EXCEPT !.hold = FALSE]
             q == [page EXCEPT !.entering = FALSE]
  <2>1. r \in Script /\ r.id = page.id /\ q.id = page.id
    BY <1>1 DEF Script
  <2>2. page' = q \/ page' = Redirected(r)
    BY <1>5 DEF Entered
  <2> HIDE DEF r, q
  <2>3. page'.id = page.id
    BY <2>1, <2>2, RedirectedPage
  <2>4. chains[c].at = "enter" /\ chains' = [chains EXCEPT ![c] = Free]
    BY <1>5 DEF Entered
  <2> QED
    BY <2>3, <2>4, EndKeepsJoins
<1> QED
  BY <1>2, <1>3, <1>4, <1>5 DEF Receive

LEMMA ScriptStepJoins ==
  ASSUME IInv, JoinsInv, NEW c \in Chains, Fire(c) \/ Countdown(c) \/ Click(c) \/ Show(c)
  PROVE  JoinsInv'
<1>1. page \in Script
  BY DEF IInv, ShapeInv
<1>2. /\ stranded' = stranded /\ Starts(c)
      /\ tab' # "left" => tab # "left"
      /\ chains' = chains \/ \E k : chains' = [chains EXCEPT ![c] = k]
  BY DEF Fire, Countdown, Click, Show
<1>3. page'.id = page.id
  <2>1. CASE Fire(c)
    BY <1>1, <2>1 DEF Fire, Script
  <2>2. CASE Countdown(c)
    BY <1>1, <2>2, UnheldPage DEF Countdown
  <2>3. CASE Click(c)
    BY <1>1, <2>3 DEF Click, Script
  <2>4. CASE Show(c)
    <3> DEFINE again == [page EXCEPT !.stopped = FALSE, !.paused = FALSE]
    <3>1. again \in Script /\ again.id = page.id
      BY <1>1 DEF Script
    <3>2. page' = page \/ page' = again \/ \E slow \in BOOLEAN : page' = Rearmed(again, "resume", slow)
      BY <2>4 DEF Show
    <3> HIDE DEF again
    <3> QED
      BY <3>1, <3>2, RearmedVisitor
  <2> QED
    BY <2>1, <2>2, <2>3, <2>4
<1>4. ASSUME NEW d \in Chains, Joins(d) PROVE Joins(d)'
  <2>1. CASE chains' = chains
    BY <1>4, <2>1 DEF Joins
  <2>2. CASE \E k : chains' = [chains EXCEPT ![c] = k]
    BY <1>2, <1>4, <2>2, StartKeepsJoins
  <2> QED
    BY <1>2, <2>1, <2>2
<1> QED
  BY <1>2, <1>3, <1>4, JoinsKept

LEMMA NextJoins ==
  ASSUME IInv, JoinsInv, [ClientNext]_clientVars
  PROVE  JoinsInv'
<1>1. CASE UNCHANGED clientVars
  BY <1>1 DEF clientVars, JoinsInv, Joins
<1>2. CASE Hide \/ Admit \/ Lapse
  <2>1. chains' = chains /\ stranded' = stranded /\ (tab' # "left" => tab # "left")
    BY <1>2 DEF Hide, Admit, Lapse
  <2>2. page'.id = page.id
    BY <1>2 DEF Hide, Admit, Lapse, IInv, ShapeInv, Script
  <2> QED
    BY <2>1, <2>2, JoinsKept DEF Joins
<1>3. CASE Unload
  BY <1>3 DEF Unload, JoinsInv
<1>4. CASE Solve
  <2>1. UNCHANGED <<page, stranded, tab>> /\ widget \in Chains
        /\ chains' = [chains EXCEPT ![widget].at = "join"]
    BY <1>4 DEF Solve, IInv, ShapeInv
  <2>2. ASSUME NEW d \in Chains, Joins(d) PROVE Joins(d)'
    BY <2>1, <2>2, AnswerKeepsJoins
  <2> QED
    BY <2>1, <2>2, JoinsKept
<1>5. ASSUME NEW c \in Chains, Serve(c) \/ LoseAnswer(c)
      PROVE  JoinsInv'
  <2>1. UNCHANGED <<page, stranded, tab>>
        /\ \E a : chains' = [chains EXCEPT ![c].answer = a]
    BY <1>5 DEF Serve, LoseAnswer
  <2>2. ASSUME NEW d \in Chains, Joins(d) PROVE Joins(d)'
    BY <2>1, <2>2, AnswerKeepsJoins
  <2> QED
    BY <2>1, <2>2, JoinsKept
<1> QED
  BY <1>1, <1>2, <1>3, <1>4, <1>5, ReceiveJoins, ScriptStepJoins DEF ClientNext

-----------------------------------------------------------------------------
LEMMA ClientInductive == ClientSpec => []IInv
<1>1. IInv /\ [ClientNext]_clientVars => IInv'
  BY NextInv
<1> QED
  BY <1>1, InitInv, PTL DEF ClientSpec

\* However many chains are under way and however late their answers are, the page goes to
\* the site only after the room confirmed its seat or let everybody pass
\* (handleAdmitted, confirmEnter).
THEOREM OnlyConfirmedPagesGo == ClientSpec => []RedirectsEntered
<1>1. IInv => RedirectsEntered
  BY DEF IInv, PageInv, RedirectsEntered
<1> QED
  BY <1>1, ClientInductive, PTL

LEMMA ClientJoins == ClientSpec => []JoinsInv
<1>1. IInv /\ JoinsInv /\ [ClientNext]_clientVars => JoinsInv'
  BY NextJoins
<1> QED
  BY <1>1, InitJoins, ClientInductive, PTL DEF ClientSpec

\* A stopped page asks for nothing.  A page in view that has a visitor and has set its
\* timers has a timer or a chain that asks for its place, unless a challenge was overtaken;
\* one that has lost its visitor is joining again, unless its join failed or was refused.
\* Continue is offered only while its countdown runs (stopPolling, resumePolling,
\* scheduleAdaptive, poll, forfeitHold, showEnterPanel, renderWaiting).
THEOREM TimersAlwaysFollow == ClientSpec => []TimersFollow
<1>1. ASSUME IInv, JoinsInv PROVE TimersFollow
  <2>1. PageInv /\ AsksInv /\ page \in Script
    BY <1>1 DEF IInv, ShapeInv
  <2>2. ASSUME Awake, page.id, page.started, ~page.entering, ~overtaken
        PROVE  page.timer \/ \E c \in Chains : chains[c].for \in {"boot", "tick", "resume"}
    <3>1. ~page.stopped /\ ~page.paused /\ tab # "left"
      BY <2>1, <2>2 DEF Awake, PageInv
    <3>2. page.timer \/ \E c \in Chains : chains[c].for \in Rearming
      BY <2>1, <2>2, <3>1 DEF AsksInv
    <3> QED
      BY <3>2 DEF Rearming
  <2>3. ASSUME tab # "left", ~page.id, ~stranded
        PROVE  \E c \in Chains : chains[c].for # "none" /\ chains[c].at \in {"challenge", "join"}
    BY <1>1, <2>3 DEF JoinsInv, Joins
  <2> QED
    BY <2>1, <2>2, <2>3 DEF TimersFollow, PageInv
<1> QED
  BY <1>1, ClientInductive, ClientJoins, PTL
=============================================================================
