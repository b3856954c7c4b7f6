-------------------------- MODULE WaitingRoomClient --------------------------
(***************************************************************************)
(* The script of the waiting-room page (src/html/waiting-room-client.ts):  *)
(* it joins, asks for its place at each check-in, shows Continue while a   *)
(* spot is held, confirms or gives the spot up, and goes to the site.      *)
(* Every async function is a chain of requests; the answers of one chain   *)
(* arrive between the steps of another, and the tab is hidden, shown and   *)
(* closed at any time.  The room is what the routes answer: the ticket     *)
(* cookie makes all joins of one browser continue one visitor, so the room *)
(* has one seat for the page.                                              *)
(* Left out: what is painted, sounds, notifications, and the dedicated     *)
(* heartbeat's request, whose answer the page ignores.                     *)
(***************************************************************************)
EXTENDS Naturals

CONSTANTS
  Chains,   \* chains at work at a time
  Nowhere,  \* no chain
  Setups,   \* what the page may be served with
  MaxFailed   \* bound: requests that fail

VARIABLES
  setup,      \* what was written into the page when it was served
  page,       \* the script's variables
  tab,        \* the browser tab
  chains,     \* the async functions under way
  widget,     \* turnstileResolve: the chain that the challenge will wake
  seat,       \* the room's seat of this browser
  failed,     \* requests that failed
  confirmed,  \* history: the room confirmed the seat, or let everybody pass
  overtaken,  \* history: a second challenge took the place of one that was awaited
  stranded    \* history: the last join of a page without a visitor failed or was refused

clientVars == <<setup, page, tab, chains, widget, seat, failed, confirmed, overtaken, stranded>>

Seats == {"none", "waiting", "held", "entered"}

\* `fixed': useFixedIntervals; `sitekey': joins are challenged; `click': the
\* room requires a click to enter; `known': the browser remembers a visitor;
\* `abroad': a country block may meet its joins.
Setup == [fixed: BOOLEAN, sitekey: BOOLEAN, click: BOOLEAN, known: BOOLEAN, abroad: BOOLEAN]

ASSUME ClientAssumption ==
  Chains # {} /\ Nowhere \notin Chains /\ Setups \subseteq Setup /\ MaxFailed \in Nat

\* `id': visitorId is set.  `timer', `beat', `hold': the poll, heartbeat and
\* hold timers.  `going': the page was told to go to another address.  `started': it has
\* set its timers.
\* `for': the function that began the chain (boot, tick, resume, forfeit, enter), which
\* decides what comes after it; `at': the request it awaits, or the challenge; `answer':
\* "sent" until there is one.
Free == [for |-> "none", at |-> "join", answer |-> "sent"]

\* A new chain takes any idle slot, always the same one.
Starts(c) ==
  LET idle == {d \in Chains : chains[d] = Free} IN idle # {} /\ c = CHOOSE d \in idle : TRUE
JoinAt == IF setup.sitekey THEN "challenge" ELSE "join"
Opening(for, at) == [for |-> for, at |-> at, answer |-> "sent"]

-----------------------------------------------------------------------------
(***************************************************************************)
(* The page's helpers, from one value of its variables to the next.        *)
(***************************************************************************)
Stopped(p) == [p EXCEPT !.stopped = TRUE, !.timer = FALSE, !.beat = FALSE]
Redirected(p) == [Stopped(p) EXCEPT !.going = TRUE]

\* The offer to enter is withdrawn with its countdown.
Unheld(p) == [p EXCEPT !.panel = FALSE, !.hold = FALSE]

\* Mutant: a spot that is held is taken for one that was confirmed.
PaintedHeld(p, answer) ==
  CASE answer = "waiting" -> Unheld(p)
    [] answer = "blocked" -> Stopped(Unheld(p))
    [] OTHER -> Redirected(p)

\* Mutant: every admitted visitor is offered Continue, the confirmed ones too.
PaintedOffer(p, answer) ==
  CASE answer = "waiting" -> Unheld(p)
    [] answer = "closed" -> Redirected(Unheld(p))
    [] answer \in {"held", "entered"} -> [p EXCEPT !.panel = TRUE, !.hold = TRUE]
    [] answer = "blocked" -> Stopped(Unheld(p))

\* What the page does with the answer to a join or a status.
Painted(p, answer) ==
  CASE answer = "waiting" -> Unheld(p)
    [] answer = "closed" -> Redirected(Unheld(p))
    [] answer = "held" -> [p EXCEPT !.panel = TRUE, !.hold = TRUE]
    [] answer = "entered" -> Redirected(p)
    [] answer = "blocked" -> Stopped(Unheld(p))

\* Mutant: a chain sets the timers whatever happened while it was under way.
RearmedAnyway(p, for, slow) ==
  IF for \in {"forfeit", "enter"} \/ (for = "tick" /\ setup.fixed)
  THEN p
  ELSE [p EXCEPT !.timer = TRUE, !.beat = setup.fixed \/ slow, !.started = TRUE]

\* What follows the chain: scheduleAdaptive, startFixed, or nothing.  `slow': the
\* next check-in is too far off for the heartbeat timeout.
Rearmed(p, for, slow) ==
  IF p.stopped \/ for \in {"forfeit", "enter"} \/ (for = "tick" /\ setup.fixed)
  THEN p
  ELSE [p EXCEPT !.timer = TRUE, !.beat = setup.fixed \/ slow, !.started = TRUE]

-----------------------------------------------------------------------------
\* The page is loaded; a browser that remembers a visitor may have a seat.
ClientInit ==
  /\ setup \in Setups
  /\ page = [id |-> setup.known, timer |-> FALSE, beat |-> FALSE, hold |-> FALSE,
             panel |-> FALSE, entering |-> FALSE, stopped |-> FALSE, paused |-> FALSE,
             going |-> FALSE, started |-> FALSE]
  /\ tab = "visible"
  /\ LET c == CHOOSE d \in Chains : TRUE IN
       /\ chains = [d \in Chains |-> IF d = c THEN Opening("boot", JoinAt) ELSE Free]
       /\ widget = IF setup.sitekey THEN c ELSE Nowhere
  /\ seat \in {"none"} \cup (IF setup.known THEN {"waiting", "entered"} ELSE {})
                      \cup (IF setup.known /\ setup.click THEN {"held"} ELSE {})
  /\ failed = 0 /\ confirmed = (seat = "entered") /\ overtaken = FALSE /\ stranded = FALSE

\* Where a chain goes to join: a challenge takes the widget from the chain that
\* awaited it, whose promise is then never settled.
Rejoining(c) ==
  /\ chains' = [d \in Chains |->
                  IF d = c THEN Opening(chains[c].for, JoinAt)
                  ELSE IF setup.sitekey /\ d = widget THEN Free ELSE chains[d]]
  /\ widget' = IF setup.sitekey THEN c ELSE widget
  /\ overtaken' = (overtaken \/ (setup.sitekey /\ widget # Nowhere))

\* The poll timer fires: tick.  Without a visitor, or while entering, poll returns
\* at once and the timer is set again.
Fire(c) ==
  /\ page.timer /\ tab # "left" /\ page.id /\ ~page.entering
  /\ Starts(c)
  /\ page' = [page EXCEPT !.timer = setup.fixed]
  /\ chains' = [chains EXCEPT ![c] = Opening("tick", "status")]
  /\ UNCHANGED <<setup, tab, widget, seat, failed, confirmed, overtaken, stranded>>

\* The countdown of the hold reaches zero: forfeitHold.
Countdown(c) ==
  /\ page.hold /\ tab # "left"
  /\ Starts(c)
  /\ page' = Unheld(page)
  /\ chains' = [chains EXCEPT ![c] = Opening("forfeit", "leave")]
  /\ UNCHANGED <<setup, tab, widget, seat, failed, confirmed, overtaken, stranded>>

\* The visitor clicks Continue: confirmEnter.
Click(c) ==
  /\ tab = "visible" /\ page.panel /\ page.id /\ ~page.entering
  /\ Starts(c)
  /\ page' = [page EXCEPT !.entering = TRUE]
  /\ chains' = [chains EXCEPT ![c] = Opening("enter", "enter")]
  /\ UNCHANGED <<setup, tab, widget, seat, failed, confirmed, overtaken, stranded>>

\* The challenge calls back with a token, and its chain goes on to join.
Solve ==
  /\ widget # Nowhere /\ tab # "left"
  /\ chains' = [chains EXCEPT ![widget].at = "join"]
  /\ widget' = Nowhere
  /\ UNCHANGED <<setup, page, tab, seat, failed, confirmed, overtaken, stranded>>

\* A waiting visitor may be told that the room is closed and lets everybody pass.
Told(s) == {<<s, s>>} \cup (IF s = "waiting" THEN {<<s, "closed">>} ELSE {})

\* Where a join finds the visitor: a newcomer waits, or is called up at once.
Places ==
  IF seat = "none" THEN {"waiting", IF setup.click THEN "held" ELSE "entered"} ELSE {seat}

\* What the Worker may do with a request: the seat, and the answer that sets out.
Answers(at) ==
  CASE at = "join" -> (UNION {Told(s) : s \in Places})
                        \cup (IF setup.abroad THEN {<<seat, "blocked">>} ELSE {})
    [] at = "status" -> Told(seat)
    [] at = "enter" ->
         {IF seat \in {"held", "entered"} THEN <<"entered", "ok">> ELSE <<seat, "fail">>}
    [] at = "leave" -> {<<"none", "ok">>}

Serve(c) ==
  /\ chains[c].for # "none" /\ chains[c].answer = "sent" /\ chains[c].at # "challenge"
  /\ \E served \in Answers(chains[c].at) :
       /\ seat' = served[1]
       /\ chains' = [chains EXCEPT ![c].answer = served[2]]
       /\ confirmed' = (confirmed \/ served[1] = "entered" \/ served[2] = "closed")
  /\ UNCHANGED <<setup, page, tab, widget, failed, overtaken, stranded>>

\* A challenge or request fails, before or after it took effect.
LoseAnswer(c) ==
  /\ failed < MaxFailed
  /\ chains[c].for # "none" /\ chains[c].answer # "fail"
  /\ chains[c].at = "challenge" => widget = c
  /\ chains' = [chains EXCEPT ![c].answer = "fail"]
  /\ widget' = IF widget = c THEN Nowhere ELSE widget
  /\ failed' = failed + 1
  /\ UNCHANGED <<setup, page, tab, seat, confirmed, overtaken, stranded>>

Ends(c, p) ==
  /\ \E slow \in BOOLEAN : page' = Rearmed(p, chains[c].for, slow)
  /\ chains' = [chains EXCEPT ![c] = Free]
  /\ UNCHANGED <<widget, overtaken>>

\* join's answer.  Only the first join of the page has nobody to set a timer
\* when it fails; a tick is caught and goes on.
Joined(c) ==
  /\ chains[c].at \in {"challenge", "join"}
  /\ IF chains[c].answer = "fail"
     THEN IF chains[c].for = "boot"
          THEN /\ chains' = [chains EXCEPT ![c] = Free]
               /\ UNCHANGED <<page, widget, overtaken>>
          ELSE Ends(c, page)
     ELSE Ends(c, Painted(IF chains[c].answer = "blocked" THEN page
                          ELSE [page EXCEPT !.id = TRUE], chains[c].answer))

\* status's answer: a visitor the room does not have any more joins again.
Polled(c) ==
  /\ chains[c].at = "status"
  /\ CASE chains[c].answer = "fail" -> Ends(c, page)
       [] chains[c].answer = "none" -> page' = [Unheld(page) EXCEPT !.id = FALSE] /\ Rejoining(c)
       [] OTHER -> Ends(c, Painted(page, chains[c].answer))

\* leave's answer, whatever it is: forfeitHold joins again.
Forfeited(c) ==
  /\ chains[c].at = "leave"
  /\ page' = [page EXCEPT !.id = FALSE]
  /\ Rejoining(c)

\* enter's answer.
Entered(c) ==
  /\ chains[c].at = "enter"
  /\ page' = IF chains[c].answer = "fail" THEN [page EXCEPT !.entering = FALSE]
             ELSE Redirected([page EXCEPT !.hold = FALSE])
  /\ chains' = [chains EXCEPT ![c] = Free]
  /\ UNCHANGED <<widget, overtaken>>

Receive(c) ==
  /\ chains[c].for # "none" /\ chains[c].answer # "sent" /\ tab # "left"
  /\ Joined(c) \/ Polled(c) \/ Forfeited(c) \/ Entered(c)
  /\ stranded' = (~page'.id /\ (stranded \/ chains[c].at \in {"challenge", "join"}))
  /\ UNCHANGED <<setup, tab, seat, failed, confirmed>>

-----------------------------------------------------------------------------
(***************************************************************************)
(* The tab, and the room.                                                  *)
(***************************************************************************)
Hide ==
  /\ tab = "visible" /\ tab' = "hidden"
  /\ page' = IF page.stopped \/ page.entering THEN page
             ELSE [page EXCEPT !.paused = TRUE, !.timer = FALSE, !.beat = FALSE]
  /\ UNCHANGED <<setup, chains, widget, seat, failed, confirmed, overtaken, stranded>>

\* resumePolling: a tick at once, and then the timers.
Show(c) ==
  /\ tab = "hidden" /\ tab' = "visible"
  /\ Starts(c)
  /\ LET again == [page EXCEPT !.stopped = FALSE, !.paused = FALSE] IN
     IF ~(page.paused \/ page.stopped) \/ page.entering
     THEN UNCHANGED <<page, chains>>
     ELSE IF page.id
     THEN page' = again /\ chains' = [chains EXCEPT ![c] = Opening("resume", "status")]
     ELSE /\ \E slow \in BOOLEAN : page' = Rearmed(again, "resume", slow)
          /\ UNCHANGED chains
  /\ UNCHANGED <<setup, widget, seat, failed, confirmed, overtaken, stranded>>

\* pagehide: the page is left for the site, or closed.
Unload ==
  /\ tab # "left" /\ tab' = "left"
  /\ page' = [Stopped(page) EXCEPT !.hold = FALSE]
  /\ chains' = [c \in Chains |-> Free]
  /\ widget' = Nowhere
  /\ UNCHANGED <<setup, seat, failed, confirmed, overtaken, stranded>>

\* The room calls the visitor up.
Admit ==
  /\ seat = "waiting" /\ tab # "left"
  /\ seat' = IF setup.click THEN "held" ELSE "entered"
  /\ confirmed' = (confirmed \/ ~setup.click)
  /\ UNCHANGED <<setup, page, tab, chains, widget, failed, overtaken, stranded>>

\* The room drops the seat: a missed check-in, a hold or a token that ran out, a reset.
Lapse ==
  /\ seat # "none" /\ tab # "left"
  /\ seat' = "none"
  /\ UNCHANGED <<setup, page, tab, chains, widget, failed, confirmed, overtaken, stranded>>

ClientNext ==
  \/ Solve \/ Hide \/ Unload \/ Admit \/ Lapse
  \/ \E c \in Chains :
       Fire(c) \/ Countdown(c) \/ Click(c) \/ Serve(c) \/ LoseAnswer(c) \/ Receive(c) \/ Show(c)

\* Timers fire, requests are answered and challenges are solved or fail; a tab need
\* not be shown again, nobody has to click, and the room need not call anybody.
ClientFairness ==
  /\ WF_clientVars(Solve)
  /\ WF_clientVars(page.going /\ Unload)
  /\ \A c \in Chains :
       WF_clientVars(Fire(c)) /\ WF_clientVars(Serve(c)) /\ WF_clientVars(Receive(c))

ClientSpec == ClientInit /\ [][ClientNext]_clientVars /\ ClientFairness

-----------------------------------------------------------------------------
(***************************************************************************)
(* What should be so.                                                      *)
(***************************************************************************)
Awake == tab = "visible" /\ ~page.stopped

\* A page only goes to the site after the room confirmed its seat or let everybody
\* pass: with click-to-enter no answer to a status, however late, is taken for a
\* confirmation (handleAdmitted, confirmEnter).
RedirectsEntered == page.going => confirmed

\* Once polling is stopped no timer asks for anything any more, although chains that set
\* the timers again are still under way when it is stopped.  A page that has a visitor, has
\* once set its timers and is shown is about to ask for its place: the timer is set, or a
\* chain that will set it is under way, unless a second challenge made such a chain wait
\* for ever.  A page that has lost its visitor is on its way to a new one, unless its join
\* failed or was refused: its timer then runs on and asks for nothing (poll).  Continue is
\* offered only while the countdown that ends the offer is running (stopPolling,
\* resumePolling, scheduleAdaptive, forfeitHold, showEnterPanel, renderWaiting).
TimersFollow ==
  /\ page.stopped => ~page.timer /\ ~page.beat
  /\ Awake /\ page.id /\ page.started /\ ~page.entering /\ ~overtaken
       => page.timer \/ \E c \in Chains : chains[c].for \in {"boot", "tick", "resume"}
  /\ tab # "left" /\ ~page.id /\ ~stranded
       => \E c \in Chains : chains[c].for # "none" /\ chains[c].at \in {"challenge", "join"}
  /\ page.panel /\ tab # "left" /\ ~page.going => page.hold

\* A visitor whose seat is confirmed, and whose page stays in view, gets to the site
\* unless the seat is lost meanwhile.
ConfirmedArrives ==
  (seat = "entered" /\ page.id /\ Awake /\ page.started /\ ~overtaken)
    ~> (page.going \/ seat # "entered" \/ ~page.id \/ ~Awake \/ overtaken)
=============================================================================
