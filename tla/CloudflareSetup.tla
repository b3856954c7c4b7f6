--------------------------- MODULE CloudflareSetup ---------------------------
(***************************************************************************)
(* The setup wizard after the claim (src/routes/admin/setup-cloudflare.ts, *)
(* handleAdminSetup in auth.ts, src/admin/setup-pending-store.ts,          *)
(* cloudflare-api.ts, turnstile-store.ts, handleAdminTurnstileRotate).     *)
(* Its steps are requests of their own: each reads one pending record,     *)
(* calls the provider, reads the record again and puts the whole of it     *)
(* back; Finish promotes the record, one key after another.  Any request   *)
(* may fail or be cut short between two calls.  A read of the pending      *)
(* record that fails is taken for an empty record (readSetupPending), and  *)
(* one of the administrators for an unclaimed worker (readAdminConfig).    *)
(***************************************************************************)
EXTENDS Naturals, Sequences

CONSTANTS
  Wizards,    \* requests in flight at a time
  Zones,      \* a zone with its hostname, account and service
  Widgets,    \* Turnstile widgets, each a sitekey and a secret
  None,       \* nothing stored
  MaxWizards  \* bound: requests that begin

VARIABLES
  config,   \* admin:config: not there, claimed, or setup complete
  pending,  \* admin:setup-pending
  link,     \* the zone of admin:bypass, which then has a token too
  gate,     \* admin:turnstile, asked of every login when it is there
  wizards,  \* the request each worker is serving
  steps,    \* requests that have begun
  proxied,  \* history: zones whose hostname was seen proxied
  made,     \* history: widgets created by the wizard
  rotated,  \* history: widgets created by a rotation
  solved,   \* history: widgets whose challenge somebody solved
  misjudged, \* history: widgets that the challenge of another one marked as verified
  crossed   \* history: the record was put back by a request that had not read it as it
            \* was, a widget was lost, two were being made at a time, one was being made
            \* when the setup was finished or reset, or the setup went on when complete

setupVars == <<config, pending, link, gate, wizards, steps, proxied, made,
               rotated, solved, misjudged, crossed>>

\* `old': sealed with the former key.  A zone that is not known yet is None.
Access == [zone: Zones \cup {None}, ok: BOOLEAN, old: BOOLEAN]
Widget == [widget: Widgets, verified: BOOLEAN, old: BOOLEAN]
Pending == [cf: Access \cup {None}, ts: Widget \cup {None}]
Empty == [cf |-> None, ts |-> None]

ASSUME SetupAssumption ==
  MaxWizards \in Nat /\ None \notin Zones \cup Widgets \cup Access \cup Widget

Idle == [op |-> "none"]

\* The calls of each handler in their order.  `option' is both
\* handleAdminSetupCloudflareAttachDomain and ...Ssl.
Path(op) ==
  CASE op = "token" -> <<"gate", "remote", "read", "put">>
    [] op = "zone" -> <<"gate", "token", "remote", "read", "put">>
    [] op \in {"fix", "option", "provision"} ->
         <<"gate", "first", "token", "remote", "read", "put">>
    [] op = "solve" -> <<"gate", "secret", "first", "remote", "read", "put">>
    [] op = "finish" -> <<"gate", "first", "token", "secret", "done", "link", "widget", "clear">>
    [] op = "rotate" -> <<"gate", "remote", "widget">>
    [] op = "reset" -> <<"done", "link", "widget", "clear">>

Ops == {"token", "zone", "fix", "option", "provision", "solve", "finish", "rotate", "reset"}

\* `first' is what was read before the provider was called, `copy' what will be
\* put back, `sealing' that a secret is being sealed again.
Wizard == [op: Ops, zone: Zones \cup {None}, at: 1 .. 8, sealing: BOOLEAN,
           first: Pending, copy: Pending,
           ok: BOOLEAN, widget: Widgets \cup {None}]

SetupAt(r, step) ==
  wizards[r] # Idle /\ Path(wizards[r].op)[wizards[r].at] = step

Quit(r) == wizards' = [wizards EXCEPT ![r] = Idle]

\* The request goes on, as q, to its next call, or is done.
Onward(r, q) ==
  wizards' = [wizards EXCEPT ![r] =
    IF q.at = Len(Path(q.op)) THEN Idle
    ELSE [q EXCEPT !.at = @ + 1, !.sealing = FALSE]]

-----------------------------------------------------------------------------
(***************************************************************************)
(* The decisions.                                                          *)
(***************************************************************************)
\* Mutant: a widget need not be verified.
ReadyUnsolved(p) == p.cf # None /\ p.cf.zone # None /\ p.cf.ok /\ p.ts # None

\* isSetupPendingReady.
Ready(p) ==
  /\ p.cf # None /\ p.cf.zone # None /\ p.cf.ok
  /\ p.ts # None /\ p.ts.verified

\* requireSetupWizardSession, and what finish, rotate and reset ask instead.
Admits(op) ==
  CASE op = "rotate" -> config # "none" /\ link # None
    [] op = "reset" -> TRUE
    [] OTHER -> config = "claimed"

\* The refusals once the token is open; a widget already there is used again.
Continues(q) ==
  /\ q.op \in {"fix", "option", "provision"} => q.first.cf # None
  /\ q.op = "provision" => q.first.cf.ok /\ q.first.ts = None

\* Mutant: only the flag is written, into the record as it now is.
BackMerged(q) ==
  IF q.copy.cf = None THEN q.copy ELSE [q.copy EXCEPT !.cf.ok = q.ok]

\* handleAdminSetupCloudflareFix, ...AttachDomain, ...Ssl: writeSetupPendingCloudflare
\* of the zone read before the remote call.
Back(q) == [q.copy EXCEPT !.cf = [zone |-> q.first.cf.zone, ok |-> q.ok, old |-> FALSE]]

\* markSetupPendingTurnstileVerified marks the widget that the record now has, which need
\* not be the one whose challenge was solved.
Mistaken(q) ==
  IF q.op = "solve" /\ q.copy.ts.widget # q.widget THEN {q.copy.ts.widget} ELSE {}

\* The record a request puts.  writeSetupPendingApiToken keeps the zone and its
\* verdict under the new token.
Written(q) ==
  CASE q.op = "token" ->
         IF q.copy.cf = None
         THEN [q.copy EXCEPT !.cf = [zone |-> None, ok |-> FALSE, old |-> FALSE]]
         ELSE [q.copy EXCEPT !.cf.old = FALSE]
    [] q.op = "zone" -> [q.copy EXCEPT !.cf = [zone |-> q.zone, ok |-> q.ok, old |-> FALSE]]
    [] q.op \in {"fix", "option"} -> Back(q)
    [] q.op = "provision" ->
         [q.copy EXCEPT !.ts = [widget |-> q.widget, verified |-> FALSE, old |-> FALSE]]
    [] q.op = "solve" -> [q.copy EXCEPT !.ts.verified = TRUE]

-----------------------------------------------------------------------------
(***************************************************************************)
(* The calls of a request.                                                 *)
(***************************************************************************)
\* MaxWizards bounds the instance.
Begin(r, op, z) ==
  /\ wizards[r] = Idle /\ steps < MaxWizards
  /\ op = "zone" <=> z # None
  /\ wizards' = [wizards EXCEPT ![r] =
       [op |-> op, zone |-> z, at |-> 1, sealing |-> FALSE, first |-> Empty, copy |-> Empty,
        ok |-> FALSE, widget |-> None]]
  /\ steps' = steps + 1
  /\ crossed' = (crossed \/ (op = "provision" /\ \E o \in Wizards : wizards[o].op = "provision"))
  /\ UNCHANGED <<config, pending, link, gate, proxied, made, rotated, solved, misjudged>>

\* isAdminSetupComplete takes an error for an unfinished setup, and the steps go on.
SetupGate(r) ==
  /\ SetupAt(r, "gate")
  /\ \/ /\ IF Admits(wizards[r].op) THEN Onward(r, wizards[r]) ELSE Quit(r)
        /\ UNCHANGED crossed
     \/ /\ config = "done" /\ wizards[r].op # "rotate"
        /\ Onward(r, wizards[r])
        /\ crossed' = TRUE
  /\ UNCHANGED <<config, pending, link, gate, steps, proxied, made, rotated, solved, misjudged>>

\* What readSetupPending returns: an error of the store is an empty record.
Reads == {pending, Empty}

\* readSetupPending before anything is done.
ReadFirst(r) ==
  /\ SetupAt(r, "first")
  /\ \E read \in Reads :
       LET q == [wizards[r] EXCEPT !.first = read]
       IN IF \/ q.op = "finish" /\ ~Ready(read)
             \/ q.op = "solve" /\ read.ts = None
          THEN Quit(r) ELSE Onward(r, q)
  /\ UNCHANGED <<config, pending, link, gate, steps, proxied, made, rotated, solved, misjudged, crossed>>

\* openSetupPendingApiToken: the record is read for its token, and put back with
\* the token sealed anew if need be.  A zone may come with its own token.  A read that
\* fails gives no token, and the request fails.
OpenToken(r) ==
  /\ SetupAt(r, "token")
  /\ LET q == wizards[r]
     IN IF q.sealing
        THEN /\ pending' = [q.copy EXCEPT !.cf.old = FALSE]
             /\ crossed' = (crossed \/ pending # q.copy)
             /\ IF Continues(q) THEN Onward(r, [q EXCEPT !.copy = Empty]) ELSE Quit(r)
        ELSE /\ UNCHANGED <<pending, crossed>>
             /\ \/ q.op = "zone" /\ Onward(r, q)
                \/ IF pending.cf = None THEN Quit(r)
                   ELSE IF pending.cf.old
                   THEN wizards' = [wizards EXCEPT ![r].sealing = TRUE, ![r].copy = pending]
                   ELSE IF Continues(q) THEN Onward(r, q) ELSE Quit(r)
  /\ UNCHANGED <<config, link, gate, steps, proxied, made, rotated, solved, misjudged>>

\* openSetupPendingTurnstileSecret: likewise.
OpenSecret(r) ==
  /\ SetupAt(r, "secret")
  /\ LET q == wizards[r]
     IN IF q.sealing
        THEN /\ pending' = [q.copy EXCEPT !.ts.old = FALSE]
             /\ crossed' = (crossed \/ pending # q.copy)
             /\ Onward(r, [q EXCEPT !.widget = q.copy.ts.widget, !.copy = Empty])
        ELSE /\ UNCHANGED <<pending, crossed>>
             /\ IF pending.ts = None THEN Quit(r)
                ELSE IF pending.ts.old
                THEN wizards' = [wizards EXCEPT ![r].sealing = TRUE, ![r].copy = pending]
                ELSE Onward(r, [q EXCEPT !.widget = pending.ts.widget])
  /\ UNCHANGED <<config, link, gate, steps, proxied, made, rotated, solved, misjudged>>

\* verifyCloudflareAccess of a zone, or enableHostnameProxy of the one just read, finds
\* the hostname proxied or not: its records are edited at the provider at any time.
CallZone(r) ==
  /\ SetupAt(r, "remote") /\ wizards[r].op \in {"zone", "fix"}
  /\ LET q == wizards[r]
         z == IF q.op = "zone" THEN q.zone ELSE q.first.cf.zone
     IN /\ z # None
        /\ \E ok \in BOOLEAN :
             /\ proxied' = IF ok THEN proxied \cup {z} ELSE proxied
             /\ Onward(r, [q EXCEPT !.ok = ok])
  /\ UNCHANGED <<config, pending, link, gate, steps, made, rotated, solved, misjudged, crossed>>

\* verifyApiToken; attachWorkerDomain or setSslMode, which keep the verdict read.
CallOption(r) ==
  /\ SetupAt(r, "remote") /\ wizards[r].op \in {"token", "option"}
  /\ LET q == wizards[r]
     IN /\ q.op = "option" => q.first.cf.zone # None
        /\ Onward(r, IF q.op = "option" THEN [q EXCEPT !.ok = q.first.cf.ok] ELSE q)
  /\ UNCHANGED <<config, pending, link, gate, steps, proxied, made, rotated, solved, misjudged, crossed>>

\* createTurnstileWidget.
CallWidget(r, w) ==
  /\ SetupAt(r, "remote") /\ wizards[r].op \in {"provision", "rotate"}
  /\ w \notin made \cup rotated
  /\ IF wizards[r].op = "provision"
     THEN made' = made \cup {w} /\ UNCHANGED rotated
     ELSE rotated' = rotated \cup {w} /\ UNCHANGED made
  /\ Onward(r, [wizards[r] EXCEPT !.widget = w])
  /\ UNCHANGED <<config, pending, link, gate, steps, proxied, solved, misjudged, crossed>>

\* verifyTurnstileToken, with the secret that was opened.
CallChallenge(r) ==
  /\ SetupAt(r, "remote") /\ wizards[r].op = "solve"
  /\ solved' = solved \cup {wizards[r].widget}
  /\ Onward(r, wizards[r])
  /\ UNCHANGED <<config, pending, link, gate, steps, proxied, made, rotated, misjudged, crossed>>

\* The read inside a write function.
ReadAgain(r) ==
  /\ SetupAt(r, "read")
  /\ \E read \in Reads :
       IF \/ wizards[r].op = "provision" /\ read.cf = None
          \/ wizards[r].op = "solve" /\ read.ts = None
       THEN /\ Quit(r)
            /\ crossed' = (crossed \/ wizards[r].op = "provision")
       ELSE /\ Onward(r, [wizards[r] EXCEPT !.copy = read])
            /\ UNCHANGED crossed
  /\ UNCHANGED <<config, pending, link, gate, steps, proxied, made, rotated, solved, misjudged>>

PutPending(r) ==
  /\ SetupAt(r, "put")
  /\ pending' = Written(wizards[r])
  /\ crossed' = (crossed \/ pending # wizards[r].copy)
  /\ misjudged' = misjudged \cup Mistaken(wizards[r])
  /\ Onward(r, wizards[r])
  /\ UNCHANGED <<config, link, gate, steps, proxied, made, rotated, solved>>

-----------------------------------------------------------------------------
(***************************************************************************)
(* What handleAdminSetup and handleAdminReset put or delete, in this order.*)
(***************************************************************************)
SetConfig(r) ==
  /\ SetupAt(r, "done")
  /\ config' = IF wizards[r].op = "finish" THEN "done" ELSE "none"
  /\ crossed' = (crossed \/ wizards[r].op = "reset")
  /\ Onward(r, wizards[r])
  /\ UNCHANGED <<pending, link, gate, steps, proxied, made, rotated, solved, misjudged>>

SetLink(r) ==
  /\ SetupAt(r, "link")
  /\ link' = IF wizards[r].op = "finish" THEN wizards[r].first.cf.zone ELSE None
  /\ Onward(r, wizards[r])
  /\ UNCHANGED <<config, pending, gate, steps, proxied, made, rotated, solved, misjudged, crossed>>

\* writeTurnstileSettings: Finish takes the sitekey from the record it checked and
\* the secret from the one it opened.
SetWidget(r) ==
  /\ SetupAt(r, "widget")
  /\ LET q == wizards[r]
     IN gate' = CASE q.op = "finish" -> [key |-> q.first.ts.widget, secret |-> q.widget]
                  [] q.op = "rotate" -> [key |-> q.widget, secret |-> q.widget]
                  [] q.op = "reset" -> None
  /\ Onward(r, wizards[r])
  /\ UNCHANGED <<config, pending, link, steps, proxied, made, rotated, solved, misjudged, crossed>>

ClearPending(r) ==
  /\ SetupAt(r, "clear")
  /\ pending' = Empty
  /\ crossed' = (crossed \/ \E o \in Wizards : wizards[o].op = "provision" /\ wizards[o].at > 1)
  /\ Onward(r, wizards[r])
  /\ UNCHANGED <<config, link, gate, steps, proxied, made, rotated, solved, misjudged>>

\* A remote call fails, the store throws, or the Worker is stopped.
Fail(r) ==
  /\ wizards[r] # Idle
  /\ Quit(r)
  /\ crossed' = (crossed \/ (wizards[r].op = "provision" /\ wizards[r].widget # None))
  /\ UNCHANGED <<config, pending, link, gate, steps, proxied, made, rotated, solved, misjudged>>

\* A Worker that was reset is claimed again, or one whose record cannot be read just
\* then (isAdminClaimed).
ClaimAgain ==
  /\ config # "claimed"
  /\ config' = "claimed"
  /\ crossed' = (crossed \/ config = "done")
  /\ UNCHANGED <<pending, link, gate, wizards, steps, proxied, made, rotated, solved, misjudged>>

\* A deployment, between requests, whose ADMIN_SECRET is new.
Redeploy ==
  /\ \A r \in Wizards : wizards[r] = Idle
  /\ pending' = [cf |-> IF pending.cf = None THEN None ELSE [pending.cf EXCEPT !.old = TRUE],
                 ts |-> IF pending.ts = None THEN None ELSE [pending.ts EXCEPT !.old = TRUE]]
  /\ pending' # pending
  /\ UNCHANGED <<config, link, gate, wizards, steps, proxied, made, rotated, solved, misjudged, crossed>>

\* The Worker is claimed; one administrator, alone, may have got some way.
SetupInit ==
  /\ config = "claimed" /\ link = None /\ gate = None
  /\ wizards = [r \in Wizards |-> Idle] /\ steps = 0
  /\ rotated = {} /\ misjudged = {} /\ crossed = FALSE
  /\ \/ pending = Empty /\ proxied = {} /\ made = {} /\ solved = {}
     \/ \E z \in Zones, w \in Widgets, verified \in BOOLEAN :
          /\ pending = [cf |-> [zone |-> z, ok |-> TRUE, old |-> FALSE],
                        ts |-> [widget |-> w, verified |-> verified, old |-> FALSE]]
          /\ proxied = {z} /\ made = {w} /\ solved = IF verified THEN {w} ELSE {}

SetupNext ==
  \/ \E r \in Wizards :
       \/ \E op \in Ops, z \in Zones \cup {None} : Begin(r, op, z)
       \/ SetupGate(r) \/ ReadFirst(r) \/ OpenToken(r) \/ OpenSecret(r)
       \/ CallZone(r) \/ CallOption(r) \/ \E w \in Widgets : CallWidget(r, w)
       \/ CallChallenge(r) \/ ReadAgain(r) \/ PutPending(r)
       \/ SetConfig(r) \/ SetLink(r) \/ SetWidget(r) \/ ClearPending(r)
       \/ Fail(r)
  \/ ClaimAgain \/ Redeploy

SetupSpec == SetupInit /\ [][SetupNext]_setupVars

-----------------------------------------------------------------------------
(***************************************************************************)
(* Properties.                                                             *)
(***************************************************************************)
\* Types.
SetupTypeOK ==
  /\ config \in {"none", "claimed", "done"}
  /\ pending \in Pending
  /\ link \in Zones \cup {None}
  /\ gate \in [key: Widgets, secret: Widgets] \cup {None}
  /\ wizards \in [Wizards -> Wizard \cup {Idle}]
  /\ steps \in 0 .. MaxWizards
  /\ proxied \in SUBSET Zones
  /\ made \in SUBSET Widgets /\ rotated \in SUBSET Widgets /\ solved \in SUBSET Widgets
  /\ misjudged \in SUBSET Widgets /\ crossed \in BOOLEAN

\* Finish links only a zone whose hostname a verification or a fix has seen
\* proxied, however the steps of the wizard overlap or are cut short
\* (isSetupPendingReady, writeSetupPendingCloudflare).
LinkProxied == link # None => link \in proxied

\* The sitekey that guards the login is one whose challenge was solved, the product of a
\* rotation, or one that was marked as verified by the challenge of the widget that the
\* record had before it; and its secret belongs to it, unless a second widget was made
\* while Finish was at work: otherwise nobody could log in any more (handleAdminSetup,
\* markSetupPendingTurnstileVerified).  As long as the wizard has made one widget neither
\* happens, and it makes a second one only beside another request that makes one, after a
\* change that was overwritten or a read that failed, after the failure of a request that
\* had made one, after a reset, or when it was at work as or after Finish ended the setup
\* (handleAdminSetupTurnstileProvision).
WidgetUsable ==
  LET one == \A v, w \in made : v = w
  IN /\ crossed \/ one
     /\ one => misjudged = {}
     /\ gate # None =>
          /\ gate.key \in solved \cup rotated \cup misjudged
          /\ one => gate.secret = gate.key
=============================================================================
