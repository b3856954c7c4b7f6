------------------------------ MODULE AdminApp ------------------------------
(***************************************************************************)
(* The admin application in a browser (admin/src/components/App.tsx,       *)
(* SetupWizard.tsx and views/setup) against the worker that is being set   *)
(* up: which view is shown, where the wizard stands, what it resumes from  *)
(* after a reload, and requests whose answers are lost.  A request is one  *)
(* step of the worker here; AdminAccounts and CloudflareSetup tell of what *)
(* may come in between.  Passwords are right, there is one account, the    *)
(* worker is not reset, and a request under way is answered before the     *)
(* wizard is left to sign in.                                              *)
(***************************************************************************)
EXTENDS Naturals

CONSTANTS
  Invited,     \* the address has an invite
  MaxReleases, \* bound: new versions of the terms
  MaxLost      \* bound: requests that fail and sessions that expire

ASSUME AppAssumption ==
  Invited \in BOOLEAN /\ MaxReleases \in Nat /\ MaxLost \in Nat

VARIABLES
  server,     \* the records of the worker
  page,       \* the page of one operator
  releases,   \* versions of the terms released
  failed,     \* requests that failed and sessions that expired
  unproxied   \* history: a site known to be attached, strict or proxied was found not proxied

appVars == <<server, page, releases, failed, unproxied>>

\* toSetupPendingPublic: what of the setup is behind.  "linked": the site is attached or strict.
Progress == [{"token", "zone", "proxy", "linked", "widget", "verified"} -> BOOLEAN]
Blank == [f \in DOMAIN CHOOSE p \in Progress : TRUE |-> FALSE]
Server == [claimed : BOOLEAN, complete : BOOLEAN, accepted : BOOLEAN, pending : Progress]
NewServer == [claimed |-> FALSE, complete |-> FALSE, accepted |-> FALSE, pending |-> Blank]

Phases == {"token", "zone", "ssl", "domain"}
WizardOps == {"token", "zone", "fix", "ssl", "attach", "provision", "challenge", "finish"}
Flows == {"boot", "first", "auth", "tos", "complete", "invite"}

\* `session': a valid cookie.  `known': what the last bootstrap said, none at first.
\* `signed', `step', `phase', `tokenOk', `found' (of the proxy), `widget', `verified':
\* the wizard's state.
Page == [view : {"loading", "login", "invite", "wizard", "dashboard", "tos"}, session : BOOLEAN,
         known : {"none", "open", "complete"}, signed : BOOLEAN, step : 1..5,
         phase : Phases, tokenOk : BOOLEAN, found : {"none", "no", "ok"},
         widget : BOOLEAN, verified : BOOLEAN]

\* A request: what goes on after a bootstrap or a state (`flow'), the bootstrap it has
\* to go by, and the answer.
NoCall == [op |-> "none", flow |-> "none", boot |-> NewServer, got |-> "none"]
AppCall(op, flow) == [NoCall EXCEPT !.op = op, !.flow = flow]

Opened(session) ==
  [view |-> "loading", session |-> session, known |-> "none", signed |-> FALSE, step |-> 1,
   phase |-> "token", tokenOk |-> FALSE, found |-> "none",
   widget |-> FALSE, verified |-> FALSE, call |-> AppCall("bootstrap", "boot")]

\* setView: what the former view kept is gone.
Show(p, view) == [Opened(p.session) EXCEPT !.view = view, !.known = p.known, !.call = NoCall]

AppInit ==
  /\ server = NewServer
  /\ page = Opened(FALSE)
  /\ releases = 0 /\ failed = 0 /\ unproxied = FALSE

-----------------------------------------------------------------------------
(***************************************************************************)
(* Views and answers.                                                      *)
(***************************************************************************)
\* Mutant: the steps are counted from none.
InitialStepFromNone(boot) == IF ~boot.claimed THEN 0 ELSE 2

\* initialStep, initialCfPhase and the wizard's first state.
InitialStep(boot) ==
  IF ~boot.claimed THEN 1
  ELSE IF boot.pending["verified"] THEN 4
  ELSE IF boot.pending["proxy"] THEN 3 ELSE 2

InitialPhase(pending) ==
  IF pending["linked"] THEN "domain"
  ELSE IF pending["proxy"] THEN "ssl"
  ELSE IF pending["token"] \/ pending["zone"] THEN "zone" ELSE "token"

OpenWizard(p, boot) ==
  [p EXCEPT !.view = "wizard", !.signed = boot.claimed, !.step = InitialStep(boot),
   !.phase = InitialPhase(boot.pending), !.tokenOk = boot.pending["token"],
   !.found = IF boot.pending["proxy"] THEN "ok" ELSE "none",
   !.widget = boot.pending["widget"], !.verified = boot.pending["verified"]]

Known(boot) == IF boot.complete THEN "complete" ELSE "open"

\* boot, afterAuth, onAccepted, onComplete and onSuccess, once the bootstrap is there.
AfterBootstrap(p, flow, boot, invited) ==
  IF flow = "first" THEN [p EXCEPT !.call = AppCall("bootstrap", "auth")]
  ELSE IF flow = "boot" /\ ~boot.claimed THEN OpenWizard(p, boot)
  ELSE IF flow = "boot" /\ invited /\ boot.complete THEN Show(p, "invite")
  ELSE IF flow = "auth" /\ ~boot.accepted THEN Show(p, "tos")
  ELSE IF flow \in {"auth", "tos"} /\ ~boot.complete THEN OpenWizard(p, boot)
  ELSE IF flow = "boot" THEN [p EXCEPT !.call = [AppCall("state", flow) EXCEPT !.boot = boot]]
  ELSE [p EXCEPT !.call = AppCall("state", flow)]

\* Where a flow ends with the state of the dashboard, or without it.
AfterState(p, flow, boot, got) ==
  IF got = "ok" /\ flow = "boot" /\ ~boot.complete THEN OpenWizard(p, boot)
  ELSE IF got = "ok" THEN Show(p, "dashboard")
  ELSE IF got = "403" /\ flow \in {"boot", "auth"} THEN Show(p, "tos")
  ELSE IF flow = "boot" \/ (got = "401" /\ flow = "complete") THEN Show(p, "login")
  ELSE p

\* Mutant: the wizard goes on whatever the site's verification says.
AfterStepUnproxied(p, op, got) ==
  IF op = "attach" THEN [p EXCEPT !.step = 3]
  ELSE IF op \in {"zone", "fix"} THEN [p EXCEPT !.found = "ok", !.phase = "ssl"]
  ELSE IF op = "token" THEN [p EXCEPT !.tokenOk = TRUE, !.phase = "zone"] ELSE p

\* verifyToken, verifyZone, fixProxy, setSsl, attachDomain, onProvision, onVerify: the
\* step that an answer leads to, wherever the operator has gone meanwhile.
AfterStep(p, op, got) ==
  CASE op = "token" /\ got = "ok" -> [p EXCEPT !.tokenOk = TRUE, !.phase = "zone"]
    [] op \in {"zone", "fix"} /\ got = "ok" ->
         [p EXCEPT !.found = "ok", !.phase = "ssl"]
    [] op \in {"zone", "fix"} /\ got = "no" -> [p EXCEPT !.found = "no"]
    [] op = "ssl" /\ got = "ok" -> [p EXCEPT !.phase = "domain"]
    [] op = "attach" /\ got = "ok" -> [p EXCEPT !.step = 3]
    [] op = "provision" /\ got = "ok" -> [p EXCEPT !.widget = TRUE]
    [] op = "challenge" /\ got = "ok" -> [p EXCEPT !.verified = TRUE, !.step = 4]
    [] op = "finish" /\ got = "ok" -> [p EXCEPT !.call = AppCall("bootstrap", "complete")]
    [] got = "401" -> Show(p, "login")
    [] OTHER -> p

-----------------------------------------------------------------------------
(***************************************************************************)
(* The operator.                                                           *)
(***************************************************************************)
Turns(p) ==
  /\ page' = p
  /\ UNCHANGED <<server, releases, failed, unproxied>>

Sends(op) == Turns([page EXCEPT !.call = AppCall(op, "none")])
Quiet == page.call = NoCall

\* The page is loaded again; what was under way is not waited for.
Reload == page # Opened(page.session) /\ Turns(Opened(page.session))

\* The buttons that go from step to step, whether or not a request is under way.
Navigate ==
  LET p == page IN
  /\ p.view = "wizard"
  /\ \E step \in 1..5, phase \in Phases :
       /\ \/ p.step = 1 /\ p.signed /\ step = 2 /\ phase = "token"
          \/ p.step = 2 /\ p.phase = "token" /\ step = 1 /\ phase = p.phase
          \/ p.step = 2 /\ p.phase = "token" /\ p.tokenOk /\ step = 2 /\ phase = "zone"
          \/ p.step = 2 /\ p.phase \in {"zone", "ssl", "domain"} /\ step = 2
             /\ phase = [zone |-> "token", ssl |-> "zone", domain |-> "ssl"][p.phase]
          \/ p.step = 2 /\ p.phase = "ssl" /\ step = 2 /\ phase = "domain"
          \/ p.step = 2 /\ p.phase = "domain" /\ step = 3 /\ phase = p.phase
          \/ p.step = 3 /\ step = 2 /\ phase = "domain"
          \/ p.step = 3 /\ p.verified /\ step = 4 /\ phase = p.phase
          \/ p.step = 4 /\ step \in {3, 5} /\ phase = p.phase
          \/ p.step = 5 /\ step = 4 /\ phase = p.phase
       /\ Turns([p EXCEPT !.step = step, !.phase = phase])

\* "Use a different token".
OtherToken ==
  /\ page.view = "wizard" /\ page.step = 2 /\ page.phase = "token" /\ page.tokenOk
  /\ Turns([page EXCEPT !.tokenOk = FALSE])

\* The buttons that ask the worker for something.
Press ==
  LET p == page IN
  /\ Quiet
  /\ \E op \in WizardOps \cup {"claim", "login", "invite", "tos"} :
       /\ \/ op \in {"login", "invite", "tos"} /\ p.view = op
          \/ p.view = "wizard" /\
             \/ op = "claim" /\ p.step = 1 /\ ~p.signed
             \/ op = "token" /\ p.step = 2 /\ p.phase = "token" /\ ~p.tokenOk
             \/ op = "zone" /\ p.step = 2 /\ p.phase = "zone"
             \/ op = "fix" /\ p.step = 2 /\ p.phase = "zone" /\ p.found = "no"
             \/ op = "ssl" /\ p.step = 2 /\ p.phase = "ssl"
             \/ op = "attach" /\ p.step = 2 /\ p.phase = "domain"
             \/ op = "provision" /\ p.step = 3
             \/ op = "challenge" /\ p.step = 3 /\ p.widget
             \/ op = "finish" /\ p.step = 5
       /\ Sends(op)

\* "Sign in" of the first step, and the dashboard's "Log out".
SignOut ==
  /\ Quiet
  /\ \/ page.view = "wizard" /\ page.step = 1 /\ page.signed
        /\ Turns(Show(page, "login"))
     \/ page.view = "dashboard" /\ Turns(Show([page EXCEPT !.session = FALSE], "login"))

ExpireSession ==
  /\ page.session /\ failed < MaxLost
  /\ failed' = failed + 1
  /\ page' = [page EXCEPT !.session = FALSE]
  /\ UNCHANGED <<server, releases, unproxied>>

-----------------------------------------------------------------------------
(***************************************************************************)
(* The worker.                                                             *)
(***************************************************************************)
Answers(got) == page' = [page EXCEPT !.call.got = got]
Awaits(op) == page.call.op = op /\ page.call.got = "none"

\* handleAdminBootstrap: terms accepted are those of the session's account.  What it
\* says is there at once; what is decided by it comes to its state later.
Bootstrap ==
  /\ Awaits("bootstrap")
  /\ LET p == page
         boot == [server EXCEPT !.accepted = @ /\ p.session] IN
     Turns(AfterBootstrap([p EXCEPT !.known = Known(boot), !.call = NoCall],
                             p.call.flow, boot, Invited))

\* requireAdminSession.
Standing(p) == IF ~p.session THEN "401" ELSE IF ~server.accepted THEN "403" ELSE "ok"

\* handleAdminState.
State ==
  /\ Awaits("state")
  /\ Answers(IF Standing(page) = "ok" /\ ~server.claimed THEN "404" ELSE Standing(page))
  /\ UNCHANGED <<server, releases, failed, unproxied>>

\* handleAdminClaim, from this page or from another one.
ClaimWorker ==
  /\ Awaits("claim")
  /\ IF server.claimed THEN Answers("409") /\ UNCHANGED server
     ELSE /\ server' = [NewServer EXCEPT !.claimed = TRUE, !.accepted = TRUE,
                                    !.pending = server.pending]
          /\ page' = [page EXCEPT !.call.got = "ok", !.session = TRUE]
  /\ UNCHANGED <<releases, failed, unproxied>>

\* handleAdminLogin, handleAdminRecoverPassword: once the setup is complete they want the
\* challenge, which the page shows only when its own bootstrap says so.  An invite
\* brings its challenge and the acceptance of the terms.
SignIn ==
  /\ Awaits("login") \/ Awaits("invite")
  /\ LET p == page IN
     IF ~server.claimed THEN Answers("404")
     ELSE IF server.complete /\ p.known # "complete" THEN Answers("401")
     ELSE page' = [page EXCEPT !.call.got = "ok", !.session = TRUE]
  /\ UNCHANGED <<server, releases, failed, unproxied>>

\* handleAdminTosAccept.
AcceptTos ==
  /\ Awaits("tos")
  /\ IF ~page.session THEN Answers("401") /\ UNCHANGED server
     ELSE IF ~server.claimed THEN Answers("404") /\ UNCHANGED server
     ELSE Answers("ok") /\ server' = [server EXCEPT !.accepted = TRUE]
  /\ UNCHANGED <<releases, failed, unproxied>>

\* requireSetupWizardSession.
WizardGate(p) ==
  IF server.complete THEN "409" ELSE IF ~server.claimed THEN "401" ELSE Standing(p)

\* What a step of the wizard needs of the steps before it.
Has(op) ==
  LET has == server.pending IN
  CASE op = "token" -> TRUE
    [] op = "zone" -> has["token"]
    [] op \in {"fix", "ssl", "attach"} -> has["zone"]
    [] op = "provision" -> has["proxy"]
    [] op = "challenge" -> has["widget"]
    [] op = "finish" -> has["proxy"] /\ has["widget"] /\ has["verified"]

\* What it may find and leaves: whether the site is proxied, and with it whether it
\* is strict and attached, is what Cloudflare says at the time.
Leaves(op) ==
  LET has == server.pending IN
  CASE op \in {"zone", "fix"} ->
         {p \in Progress : p["zone"] /\ \A f \in {"token", "widget", "verified"} : p[f] = has[f]}
    [] op = "token" -> {[has EXCEPT !["token"] = TRUE]}
    [] op \in {"ssl", "attach"} -> {[has EXCEPT !["linked"] = TRUE]}
    [] op = "provision" -> {[has EXCEPT !["widget"] = TRUE]}
    [] op = "challenge" -> {[has EXCEPT !["verified"] = TRUE]}
    [] op = "finish" -> {Blank}

\* What a step leaves behind.
Becomes(op, next) ==
  /\ server' = [server EXCEPT !.pending = next, !.complete = (op = "finish")]
  /\ unproxied' = (unproxied \/ (op \in {"zone", "fix"} /\ ~next["proxy"]
                                 /\ (server.pending["proxy"] \/ next["linked"])))

\* The handlers of setup-cloudflare.ts, and handleAdminSetup at the end.
SetUp ==
  /\ \E op \in WizardOps :
       /\ Awaits(op)
       /\ IF WizardGate(page) # "ok"
            THEN Answers(WizardGate(page)) /\ UNCHANGED <<server, unproxied>>
          ELSE IF ~Has(op) THEN Answers("400") /\ UNCHANGED <<server, unproxied>>
          ELSE \E next \in Leaves(op) :
            /\ Becomes(op, next)
            /\ Answers(IF op \in {"zone", "fix"} /\ ~next["proxy"] THEN "no" ELSE "ok")
  /\ UNCHANGED <<releases, failed>>

\* A step of the same setup that is done from another page, whose wizard comes to the
\* optional ones by way of a proxied site.
Elsewhere ==
  /\ server.claimed /\ ~server.complete
  /\ \E op \in {o \in WizardOps : Has(o)} :
       /\ op \in {"ssl", "attach"} => server.pending["proxy"] \/ unproxied
       /\ \E next \in Leaves(op) : Becomes(op, next)
  /\ UNCHANGED <<page, releases, failed>>

\* A request fails before or after it took effect.
LoseCall ==
  /\ ~Quiet /\ page.call.got # "lost" /\ failed < MaxLost
  /\ failed' = failed + 1
  /\ Answers("lost")
  /\ UNCHANGED <<server, releases, unproxied>>

\* A new version of the terms is deployed.
Release ==
  /\ releases < MaxReleases /\ releases' = releases + 1
  /\ server' = [server EXCEPT !.accepted = FALSE]
  /\ UNCHANGED <<page, failed, unproxied>>

-----------------------------------------------------------------------------
(***************************************************************************)
(* The answers.                                                            *)
(***************************************************************************)
Hear ==
  LET call == page.call
      got == call.got
      p == [page EXCEPT !.call = NoCall] IN
  /\ ~Quiet /\ got # "none"
  /\ Turns(
       CASE call.op = "bootstrap" -> IF call.flow = "boot" THEN Show(p, "login") ELSE p
         [] call.op = "state" -> AfterState(p, call.flow, call.boot, got)
         [] call.op = "claim" /\ got = "ok" ->
              [p EXCEPT !.signed = TRUE, !.step = 2, !.phase = "token"]
         [] call.op = "login" /\ got = "ok" ->
              [p EXCEPT !.call = AppCall("bootstrap", IF p.known = "none" THEN "first" ELSE "auth")]
         [] call.op \in {"invite", "tos"} /\ got = "ok" ->
              [p EXCEPT !.call = AppCall("bootstrap", call.op)]
         [] call.op \in WizardOps -> AfterStep(p, call.op, got)
         [] OTHER -> p)

AppNext ==
  \/ Reload \/ Navigate \/ OtherToken \/ Press \/ SignOut \/ ExpireSession
  \/ Bootstrap \/ State \/ ClaimWorker \/ SignIn \/ AcceptTos \/ SetUp \/ LoseCall \/ Hear
  \/ Release \/ Elsewhere

AppSpec == AppInit /\ [][AppNext]_appVars

-----------------------------------------------------------------------------
(***************************************************************************)
(* Properties.                                                             *)
(***************************************************************************)
\* The shape of the state.
AppTypeOK ==
  /\ server \in Server /\ releases \in 0..MaxReleases /\ failed \in 0..MaxLost
  /\ unproxied \in BOOLEAN
  /\ [f \in DOMAIN page \ {"call"} |-> page[f]] \in Page
  /\ page.call.flow \in Flows \cup {"none"}

\* A dashboard is shown only of a worker whose setup was finished, by whatever way in
\* it was come to: a start, a sign-in, the terms, an invite or the wizard (App).
\* A wizard that asks for the challenge has a proxied site behind it, and one that is past
\* the challenge has it solved: with other wizards at work, late answers and reloads,
\* unless a site that was attached, strict or proxied was found not to be proxied
\* (SetupWizard, initialStep, initialCfPhase).
PageEarned ==
  /\ page.view = "dashboard" => server.complete
  /\ page.view = "wizard" /\ ~server.complete /\ ~unproxied =>
       /\ page.step >= 3 => server.pending["proxy"]
       /\ page.step >= 4 => server.pending["verified"]

=============================================================================
