----------------------------- MODULE AccessRules -----------------------------
(***************************************************************************)
(* Who is let past the waiting room by the operator's settings, while the  *)
(* settings change (src/auth/access-gate.ts, src/routes/router.ts,         *)
(* pages.ts, src/admin/bypass-store.ts, geo-block-store.ts and the         *)
(* handlers that save them).  A setting is a record of a key-value store,  *)
(* and each isolate of the Worker keeps a copy for CACHE_TTL_MS.  A visit  *)
(* reads two of them, one after the other, with other calls of the same    *)
(* isolate in between; the handlers that save the allowlist or the         *)
(* Cloudflare access also start from the copy.  The origin proxy is on;    *)
(* its record and that of Turnstile are remembered in the same way.        *)
(* Visits with a valid token, or that a room rule lets through, end before *)
(* any of this and are left to AdmissionTokens.                            *)
(***************************************************************************)
EXTENDS Naturals, Sequences

CONSTANTS
  Isolates,   \* isolates of the Worker
  Slots,      \* calls in flight at a time
  Ttl,        \* CACHE_TTL_MS
  Slow,       \* the longest a call of the store takes
  BlockTime,  \* the longest a country block lasts in the instance
  MaxVisits   \* bound: calls that begin

ASSUME RulesAssumption ==
  Ttl \in Nat \ {0} /\ Slow \in Nat /\ BlockTime \in Nat /\ MaxVisits \in Nat

VARIABLES
  store,    \* the records admin:bypass and admin:geo-block
  caches,   \* what each isolate remembers of them
  visits,   \* the calls at work
  arrived,  \* calls that have begun
  age,      \* time since each record was last put, up to Ttl + Slow
  wrong     \* history: a visit ended otherwise than settled settings say

rulesVars == <<store, caches, visits, arrived, age, wrong>>

Keys == {"bypass", "geo"}

\* The office's address is on the list or not; `token': the same record has a
\* sealed API token.
Bypass == [office: BOOLEAN, token: BOOLEAN]

\* A block's expiresAt, as the time that is left; a block that is off has none.
Geo == 0 .. BlockTime
Store == [bypass: Bypass, geo: Geo]

\* What a reader makes of a record that cannot be read.
Defaults == [bypass |-> [office |-> FALSE, token |-> FALSE], geo |-> 0]

\* `fresh': how long the copy will be used; one that is no longer used is dropped.
\* `failed': it stands for a read that failed.
Stale(k) == [value |-> Defaults[k], fresh |-> 0, failed |-> FALSE]
Cold == [k \in Keys |-> Stale(k)]

Nobody == [op |-> "none"]

\* Who visits what; `open': a protected path, while its room is closed with
\* closeAction passthrough.
Caller == [office: BOOLEAN, foreign: BOOLEAN, open: BOOLEAN]
Anybody == [office |-> FALSE, foreign |-> FALSE, open |-> FALSE]

Savings == {"allowlist", "link", "geo", "reset"}

\* The settings a call needs, in the order in which it reads them, and then "end".
Reads(op) ==
  CASE op = "visit" -> <<"bypass", "geo", "again">>
    [] op \in {"allowlist", "link"} -> <<"bypass", "put">>
    [] OTHER -> <<"put">>

\* `seen': the settings the call has read and still needs.  `wait': `get' or `put', a call of the
\* store that is under way, since `slow'.  `steady': nothing has changed since
\* Ttl + Slow before the call began.
Visit ==
  [op: Savings \cup {"visit"}, who: Caller, on: Isolates, at: 1 .. 3,
   wait: {"no", "get", "put"}, slow: 0 .. Slow, seen: Store, steady: BOOLEAN, failed: BOOLEAN]

Step(c) == Reads(visits[c].op)[visits[c].at]
KeyOf(step) == IF step = "again" THEN "bypass" ELSE step
Settle(c) == visits' = [visits EXCEPT ![c] = Nobody]
Unsteady(v) == IF v = Nobody THEN v ELSE [v EXCEPT !.steady = FALSE]

-----------------------------------------------------------------------------
(***************************************************************************)
(* The decisions of a visit.                                               *)
(***************************************************************************)
\* What the docs promise: an admission without a seat for the office, then the
\* country block, then the closing, then the waiting room.
Law(s, who) ==
  IF who.office /\ s.bypass.office THEN "pass"
  ELSE IF who.foreign /\ s.geo > 0 THEN "blocked"
  ELSE IF who.open THEN "proxied" ELSE "waits"

\* Mutant: the region is asked before the address.
VerdictSwapped(step, s, who) ==
  CASE step = "bypass" -> IF who.office /\ s.bypass.office /\ ~who.foreign THEN "pass" ELSE "next"
    [] step = "geo" -> IF who.foreign /\ s.geo > 0 THEN "blocked"
                       ELSE IF who.open THEN "proxied" ELSE "waits"
    [] OTHER -> "blocked"

\* handleRequest, resolveAccessGate, handleWaitingRoom: what follows from a
\* setting just read.  evaluateGeoBlock looks for the address once more.
Verdict(step, s, who) ==
  LET beyond == IF who.open THEN "proxied" ELSE "waits"
  IN CASE step = "bypass" -> IF who.office /\ s.bypass.office THEN "pass" ELSE "next"
       [] step = "geo" -> IF s.geo > 0 THEN "next" ELSE beyond
       [] step = "again" ->
            IF who.foreign /\ ~(who.office /\ s.bypass.office) THEN "blocked" ELSE beyond

\* The call v, on c, has the settings of its step: it goes on or ends.
Advance(c, v) ==
  LET verdict == Verdict(Step(c), v.seen, v.who)
  IN IF v.op = "visit" /\ verdict # "next"
     THEN /\ Settle(c)
          /\ wrong' = (wrong \/ (v.steady /\ verdict # Law(store, v.who)))
     ELSE /\ visits' = [visits EXCEPT ![c] =
            [v EXCEPT !.at = @ + 1, !.wait = "no", !.slow = 0,
                      !.seen = IF v.op = "visit" THEN Defaults ELSE @]]
          /\ UNCHANGED wrong

-----------------------------------------------------------------------------
(***************************************************************************)
(* Reading through the isolate's copy.                                     *)
(***************************************************************************)
\* A call begins; a visit reads the room's schedule together with its epoch, before
\* anything else.  MaxVisits bounds the instance.
Arrive(c, op, who, i) ==
  /\ visits[c] = Nobody /\ arrived < MaxVisits
  /\ op # "visit" => who = Anybody
  /\ visits' = [visits EXCEPT ![c] =
       [op |-> op, who |-> who, on |-> i, at |-> 1, wait |-> "no", slow |-> 0,
        seen |-> Defaults, failed |-> FALSE,
        steady |-> op = "visit" /\ \A k \in Keys : age[k] = Ttl + Slow]]
  /\ arrived' = arrived + 1
  /\ UNCHANGED <<store, caches, age, wrong>>

\* Mutant: a copy that is used stays for another CACHE_TTL_MS.
RememberedAgain(entry) == [entry EXCEPT !.fresh = Ttl]

Remembered(entry) == entry

\* readBypassSettings, readGeoBlockSettings: the copy is used
\* while it is fresh; else the record is fetched.
Read(c) ==
  /\ visits[c] # Nobody /\ visits[c].wait = "no" /\ Step(c) # "put"
  /\ LET v == visits[c]
         k == KeyOf(Step(c))
         entry == caches[v.on][k]
     IN IF entry.fresh > 0
        THEN /\ caches' = [caches EXCEPT ![v.on][k] = Remembered(entry)]
             /\ Advance(c, [v EXCEPT !.seen[k] = entry.value, !.steady = @ /\ ~entry.failed])
        ELSE /\ \/ visits' = [visits EXCEPT ![c] = [v EXCEPT !.wait = "get", !.seen[k] = store[k]]]
                \/ visits' = [visits EXCEPT ![c] = [v EXCEPT !.wait = "get", !.failed = TRUE,
                                                            !.seen[k] = Defaults[k]]]
             /\ UNCHANGED <<caches, wrong>>
  /\ UNCHANGED <<store, arrived, age>>
\* The record has come, or the read has failed and counts as an empty record; the
\* isolate remembers it from now on, whatever it has remembered meanwhile.
Fetched(c) ==
  /\ visits[c] # Nobody /\ visits[c].wait = "get"
  /\ LET v == visits[c]
         k == KeyOf(Step(c))
     IN /\ caches' = [caches EXCEPT ![v.on][k] =
              [value |-> v.seen[k], fresh |-> Ttl, failed |-> v.failed]]
        /\ Advance(c, [v EXCEPT !.failed = FALSE, !.steady = @ /\ ~v.failed])
  /\ UNCHANGED <<store, arrived, age>>

-----------------------------------------------------------------------------
(***************************************************************************)
(* The handlers that save.                                                 *)
(***************************************************************************)
\* writeAllowlist, writeCloudflareLink, readCloudflareApiToken: the record that
\* was read, with a part of it changed.  The token is replaced, kept because the
\* field was left blank or sealed anew, or cleared.
NewBypass(op, b) ==
  CASE op = "allowlist" -> {[b EXCEPT !.office = o] : o \in BOOLEAN}
    [] op = "link" -> {[b EXCEPT !.token = t] : t \in BOOLEAN}

\* writeGeoBlockSettings and clearGeoBlockSettings; handleAdminReset.
Saves(v) ==
  CASE v.op = "geo" -> {[store EXCEPT !.geo = t] : t \in Geo}
    [] v.op = "reset" -> {Defaults}
    [] OTHER -> {[store EXCEPT !.bypass = b] : b \in NewBypass(v.op, v.seen.bypass)}

\* The put, or the deletion.
Put(c) ==
  /\ visits[c] # Nobody /\ visits[c].wait = "no" /\ Step(c) = "put"
  /\ LET v == visits[c]
     IN \E s \in Saves(v) :
          /\ store' = s
          /\ age' = [k \in Keys |-> IF s[k] = store[k] THEN age[k] ELSE 0]
          /\ visits' = [d \in Slots |->
               IF d = c THEN [v EXCEPT !.wait = "put", !.seen = s]
               ELSE IF s = store THEN visits[d] ELSE Unsteady(visits[d])]
  /\ UNCHANGED <<caches, arrived, wrong>>

\* The put is done: the isolate remembers what was put, or forgets its copy.
Stored(c) ==
  /\ visits[c] # Nobody /\ visits[c].wait = "put"
  /\ LET v == visits[c]
         k == IF v.op = "geo" THEN "geo" ELSE "bypass"
     IN caches' = [caches EXCEPT ![v.on] =
          IF v.op = "reset" THEN Cold
          ELSE [@ EXCEPT ![k] = [value |-> v.seen[k], fresh |-> Ttl, failed |-> FALSE]]]
  /\ Settle(c)
  /\ UNCHANGED <<store, arrived, age, wrong>>

-----------------------------------------------------------------------------
(***************************************************************************)
(* What else happens.                                                      *)
(***************************************************************************)
\* An isolate is evicted, with the calls it is serving.
Evict(i) ==
  /\ caches[i] # Cold
  /\ caches' = [caches EXCEPT ![i] = Cold]
  /\ visits' = [c \in Slots |->
       IF visits[c] # Nobody /\ visits[c].on = i THEN Nobody ELSE visits[c]]
  /\ UNCHANGED <<store, arrived, age, wrong>>

Older(s) == [s EXCEPT !.geo = IF @ = 0 THEN 0 ELSE @ - 1]

\* A unit of time.  No call of the store takes longer than Slow.
RulesTick ==
  /\ \A c \in Slots : visits[c] # Nobody /\ visits[c].wait # "no" => visits[c].slow < Slow
  /\ store' = Older(store)
  /\ caches' = [i \in Isolates |-> [k \in Keys |->
       IF caches[i][k].fresh <= 1 THEN Stale(k)
       ELSE [caches[i][k] EXCEPT !.fresh = @ - 1,
                                 !.value = IF k = "geo" /\ @ > 0 THEN @ - 1 ELSE @]]]
  /\ visits' = [c \in Slots |->
       IF visits[c] = Nobody THEN Nobody
       ELSE [visits[c] EXCEPT !.slow = IF visits[c].wait = "no" THEN 0 ELSE @ + 1,
                              !.seen = Older(@), !.steady = @ /\ store.geo # 1]]
  /\ age' = [k \in Keys |-> IF age[k] = Ttl + Slow THEN age[k] ELSE age[k] + 1]
  /\ UNCHANGED <<arrived, wrong>>

\* Settings of any kind, which no isolate has read yet.
RulesInit ==
  /\ store \in Store /\ store.geo \in {0, BlockTime}
  /\ caches = [i \in Isolates |-> Cold]
  /\ visits = [c \in Slots |-> Nobody] /\ arrived = 0
  /\ age = [k \in Keys |-> Ttl + Slow]
  /\ wrong = FALSE

RulesNext ==
  \/ \E c \in Slots :
       \/ \E op \in Savings \cup {"visit"}, who \in Caller, i \in Isolates : Arrive(c, op, who, i)
       \/ Read(c) \/ Fetched(c) \/ Put(c) \/ Stored(c)
  \/ \E i \in Isolates : Evict(i)
  \/ RulesTick

RulesSpec == RulesInit /\ [][RulesNext]_rulesVars

-----------------------------------------------------------------------------
(***************************************************************************)
(* Properties.                                                             *)
(***************************************************************************)
\* Types.
RulesTypeOK ==
  /\ store \in Store
  /\ \A i \in Isolates, k \in Keys :
       /\ caches[i][k].fresh \in 0 .. Ttl /\ caches[i][k].failed \in BOOLEAN
       /\ [Defaults EXCEPT ![k] = caches[i][k].value] \in Store
  /\ visits \in [Slots -> Visit \cup {Nobody}]
  /\ arrived \in 0 .. MaxVisits
  /\ age \in [Keys -> 0 .. Ttl + Slow]
  /\ wrong \in BOOLEAN

\* No isolate goes by a setting that was replaced more than CACHE_TTL_MS and one
\* call of the store ago, even if a slow read overwrites what a handler has just
\* saved (readBypassSettings, readGeoBlockSettings).
StalenessBounded ==
  \A i \in Isolates, k \in Keys :
    LET entry == caches[i][k]
    IN entry.fresh > 0 /\ ~entry.failed /\ entry.value # store[k] => age[k] < Ttl + Slow

\* A visit that begins when the settings have been settled for that long, and ends
\* before they change, is decided as they say, whichever copies it meets on its
\* way: the office passes even from a blocked country, and a blocked country is
\* refused even when the room is closed with passthrough (resolveAccessGate).
SettledVerdict == ~wrong
=============================================================================
