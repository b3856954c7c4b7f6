-------------------------- MODULE AccessRulesProofs --------------------------
(***************************************************************************)
(* Proofs about AccessRules: no isolate goes by a setting that was         *)
(* replaced longer ago than CACHE_TTL_MS and one call of the store, for    *)
(* any number of isolates and of calls in flight, any lifetime of a copy   *)
(* and any duration of a call; and a visit on settled settings is decided  *)
(* as they say.                                                            *)
(***************************************************************************)
EXTENDS AccessRules, TLAPS

Value(k) == IF k = "bypass" THEN Bypass ELSE Geo
Entry(k) == [value: Value(k), fresh: 0 .. Ttl, failed: BOOLEAN]
Copies == [bypass: Entry("bypass"), geo: Entry("geo")]

\* A call is at a step that its operation has.
Placed(v) ==
  \/ v.op = "visit"
  \/ v.op \in {"allowlist", "link"} /\ v.at \in 1 .. 2
  \/ v.op \in {"geo", "reset"} /\ v.at = 1

Served == {v \in Visit : Placed(v)}

ShapeInv ==
  /\ store \in Store
  /\ caches \in [Isolates -> Copies]
  /\ visits \in [Slots -> Served \cup {Nobody}]
  /\ \A c \in Slots : visits[c] # Nobody /\ visits[c].wait = "get" => Step(c) # "put"
  /\ arrived \in 0 .. MaxVisits
  /\ age \in [Keys -> 0 .. Ttl + Slow]
  /\ wrong \in BOOLEAN

\* A copy that is out of date was right when its read began: the record has been put
\* since then, and the copy ages as the put does.
Current(e, k) ==
  e.fresh > 0 /\ ~e.failed /\ e.value # store[k] => age[k] + e.fresh <= Ttl + Slow

\* So has the record a call is about to bring, or has just put.
Brings(v, k) ==
  /\ v.wait = "put" \/ (v.wait = "get" /\ ~v.failed)
  /\ v.seen[k] # store[k]
  => age[k] <= v.slow

\* What the call on c will leave in its isolate's copies.
Brought(c) == IF visits[c].wait = "get" THEN {KeyOf(Step(c))} ELSE Keys

CopiesInv == \A i \in Isolates, k \in Keys : Current(caches[i][k], k)
FlightsInv == \A c \in Slots : visits[c] # Nobody => \A k \in Brought(c) : Brings(visits[c], k)

RulesInv == ShapeInv /\ CopiesInv /\ FlightsInv

-----------------------------------------------------------------------------
LEMMA DefaultsTyped == Defaults \in Store /\ \A k \in Keys : Defaults[k] \in Value(k)
PROOF
<1>1. 0 \in Geo
  BY RulesAssumption DEF Geo
<1> QED
  BY <1>1 DEF Defaults, Store, Keys, Value, Bypass

LEMMA ColdTyped == Cold \in Copies /\ \A k \in Keys : Cold[k].fresh = 0 /\ Stale(k) \in Entry(k)
PROOF
<1>1. \A k \in Keys : Stale(k) \in Entry(k) /\ Stale(k).fresh = 0
  BY DefaultsTyped, RulesAssumption DEF Stale, Entry
<1> QED
  BY <1>1 DEF Cold, Copies, Keys

\* What a store or an isolate's copies hold under a key.
LEMMA Parts ==
  /\ \A s \in Store, k \in Keys : s[k] \in Value(k)
  /\ \A e \in Copies, k \in Keys : e[k] \in Entry(k)
PROOF
  BY DEF Store, Copies, Keys, Value

\* One copy is replaced.
LEMMA Remember ==
  ASSUME ShapeInv, NEW i \in Isolates, NEW k \in Keys, NEW e \in Entry(k)
  PROVE  LET n == [caches EXCEPT ![i][k] = e]
         IN /\ n \in [Isolates -> Copies]
            /\ \A j \in Isolates, l \in Keys :
                 n[j][l] = IF j = i /\ l = k THEN e ELSE caches[j][l]
PROOF
<1>1. CASE k = "bypass"
  BY <1>1 DEF ShapeInv, Copies, Keys
<1>2. CASE k = "geo"
  BY <1>2 DEF ShapeInv, Copies, Keys
<1> QED
  BY <1>1, <1>2 DEF Keys

\* The steps of the operations.
LEMMA Steps ==
  ASSUME NEW c \in Slots, visits[c] \in Served
  PROVE  /\ Step(c) \in {"bypass", "geo", "again", "put"}
         /\ Step(c) # "put" => KeyOf(Step(c)) \in Keys
         /\ visits[c].op = "visit" => Step(c) # "put"
         /\ visits[c].op = "visit" /\ Step(c) # "again" => visits[c].at \in 1 .. 2
         /\ visits[c].op # "visit" /\ Step(c) # "put" =>
              visits[c].op \in {"allowlist", "link"} /\ visits[c].at = 1
PROOF
<1> DEFINE v == visits[c]
<1>1. v.op \in Savings \cup {"visit"} /\ v.at \in 1 .. 3 /\ Placed(v)
  BY DEF Served, Visit
<1>2. CASE v.op = "visit"
  <2>1. Reads(v.op) = <<"bypass", "geo", "again">>
    BY <1>2 DEF Reads
  <2>2. v.at = 1 \/ v.at = 2 \/ v.at = 3
    BY <1>1
  <2> QED
    BY <1>2, <2>1, <2>2 DEF Step, KeyOf, Keys
<1>3. CASE v.op \in {"allowlist", "link"}
  <2>1. Reads(v.op) = <<"bypass", "put">>
    BY <1>3 DEF Reads
  <2>2. v.at = 1 \/ v.at = 2
    BY <1>1, <1>3 DEF Placed
  <2> QED
    BY <1>3, <2>1, <2>2 DEF Step, KeyOf, Keys
<1>4. CASE v.op \in {"geo", "reset"}
  <2>1. Reads(v.op) = <<"put">>
    BY <1>4 DEF Reads
  <2>2. v.at = 1
    BY <1>1, <1>4 DEF Placed
  <2> QED
    BY <1>4, <2>1, <2>2 DEF Step, KeyOf, Keys
<1> QED
  BY <1>1, <1>2, <1>3, <1>4 DEF Savings

LEMMA NobodyOut == Nobody \notin Served
PROOF
  BY DEF Nobody, Served, Visit, Savings

-----------------------------------------------------------------------------
\* A call at its next step, one that has found a setting in the copy, and one that
\* fetches it.
Onward(v, n, s) == [v EXCEPT !.at = n, !.wait = "no", !.slow = 0, !.seen = s]
Finds(v, k, x, b) == [v EXCEPT !.seen[k] = x, !.steady = @ /\ b]
Fetches(v, k, x, f) == [v EXCEPT !.wait = "get", !.failed = f, !.seen[k] = x]

LEMMA OnwardTyped ==
  ASSUME NEW v \in Visit, NEW n \in 1 .. 3, NEW s \in Store
  PROVE  LET w == Onward(v, n, s)
         IN w \in Visit /\ w.op = v.op /\ w.at = n /\ w.wait = "no"
PROOF
<1>1. 0 \in 0 .. Slow
  BY RulesAssumption
<1> QED
  BY <1>1 DEF Visit, Onward

LEMMA FindsTyped ==
  ASSUME NEW v \in Visit, NEW k \in Keys, NEW x \in Value(k), NEW b
  PROVE  LET u == Finds(v, k, x, b)
         IN u \in Visit /\ u.op = v.op /\ u.at = v.at
PROOF
<1>1. [v.seen EXCEPT ![k] = x] \in Store
  BY DEF Visit, Store, Keys, Value
<1>2. (v.steady /\ b) \in BOOLEAN
  OBVIOUS
<1> QED
  BY <1>1, <1>2 DEF Visit, Finds

LEMMA FetchesTyped ==
  ASSUME NEW v \in Visit, NEW k \in Keys, NEW x \in Value(k), NEW f \in BOOLEAN
  PROVE  LET w == Fetches(v, k, x, f)
         IN /\ w \in Visit /\ w.op = v.op /\ w.at = v.at /\ w.wait = "get"
            /\ w.failed = f /\ w.seen[k] = x
PROOF
<1>1. [v.seen EXCEPT ![k] = x] \in Store /\ [v.seen EXCEPT ![k] = x][k] = x
  BY DEF Visit, Store, Keys, Value
<1> QED
  BY <1>1 DEF Visit, Fetches

\* A call that has the settings of its step ends, or waits for nothing.
LEMMA Advances ==
  ASSUME ShapeInv, NEW c \in Slots, visits[c] \in Served, Step(c) # "put",
         NEW v \in Visit, v.op = visits[c].op, v.at = visits[c].at, Advance(c, v)
  PROVE  /\ wrong' \in BOOLEAN
         /\ \E w \in Served \cup {Nobody} :
              /\ visits' = [visits EXCEPT ![c] = w]
              /\ w # Nobody => w.wait = "no"
PROOF
<1> DEFINE verdict == Verdict(Step(c), v.seen, v.who)
           w == [v EXCEPT !.at = @ + 1, !.wait = "no", !.slow = 0,
                          !.seen = IF v.op = "visit" THEN Defaults ELSE @]
<1>1. CASE v.op = "visit" /\ verdict # "next"
  <2>1. visits' = [visits EXCEPT ![c] = Nobody] /\ wrong' \in BOOLEAN
    BY <1>1 DEF Advance, Settle
  <2> QED
    BY <2>1
<1>2. CASE ~(v.op = "visit" /\ verdict # "next")
  <2>1. visits' = [visits EXCEPT ![c] = w] /\ wrong' = wrong
    BY <1>2 DEF Advance
  <2>2. v.op = "visit" => Step(c) # "again"
    BY <1>2 DEF Verdict
  <2>3. v.at + 1 \in 1 .. 3 /\ (v.op \in {"allowlist", "link"} => v.at = 1)
        /\ v.op \in {"visit", "allowlist", "link"}
    <3>1. v.op = "visit" => v.at \in 1 .. 2
      BY <2>2, Steps
    <3>2. v.op # "visit" => v.op \in {"allowlist", "link"} /\ v.at = 1
      BY Steps
    <3> QED
      BY <3>1, <3>2
  <2>4. (IF v.op = "visit" THEN Defaults ELSE v.seen) \in Store
    BY DefaultsTyped DEF Visit
  <2>5. w \in Visit /\ w.op = v.op /\ w.at = v.at + 1 /\ w.wait = "no"
    <3>1. w = Onward(v, v.at + 1, IF v.op = "visit" THEN Defaults ELSE v.seen)
      BY DEF Onward
    <3> HIDE DEF w
    <3> QED
      BY <2>3, <2>4, <3>1, OnwardTyped, ZenonT(40)
  <2>6. w \in Served
    <3>1. v.at \in 1 .. 3
      BY DEF Visit
    <3> HIDE DEF w
    <3>2. Placed(w)
      BY <2>3, <2>5, <3>1 DEF Placed
    <3> QED
      BY <2>5, <3>2 DEF Served
  <2> QED
    BY <2>1, <2>5, <2>6 DEF ShapeInv
<1> QED
  BY <1>1, <1>2

\* The settings stay, and a call comes to wait for nothing.
LEMMA Waitless ==
  ASSUME ShapeInv, FlightsInv, NEW c \in Slots, NEW w \in Served \cup {Nobody},
         visits' = [visits EXCEPT ![c] = w], w # Nobody => w.wait = "no",
         store' = store, age' = age
  PROVE  /\ visits' \in [Slots -> Served \cup {Nobody}]
         /\ \A d \in Slots : visits'[d] # Nobody /\ visits'[d].wait = "get" => Step(d)' # "put"
         /\ FlightsInv'
PROOF
<1>1. visits' \in [Slots -> Served \cup {Nobody}]
  BY DEF ShapeInv
<1>2. \A d \in Slots : visits'[d] = IF d = c THEN w ELSE visits[d]
  BY DEF ShapeInv
<1>3. ASSUME NEW d \in Slots, visits'[d] # Nobody, visits'[d].wait # "no"
      PROVE  d # c /\ visits'[d] = visits[d]
  BY <1>2, <1>3
<1>4. \A d \in Slots : visits'[d] # Nobody /\ visits'[d].wait = "get" => Step(d)' # "put"
  BY <1>3 DEF Step, ShapeInv
<1>5. ASSUME NEW d \in Slots, visits'[d] # Nobody, NEW k \in Brought(d)'
      PROVE  Brings(visits[d], k)'
  <2>1. CASE visits'[d].wait = "no"
    BY <2>1 DEF Brings
  <2>2. CASE visits'[d].wait # "no"
    <3>1. visits'[d] = visits[d] /\ k \in Brought(d)
      BY <1>3, <1>5, <2>2 DEF Brought, Step
    <3> QED
      BY <1>5, <3>1 DEF Brings, FlightsInv
  <2> QED
    BY <2>1, <2>2
<1> QED
  BY <1>1, <1>4, <1>5 DEF FlightsInv

-----------------------------------------------------------------------------
LEMMA RulesInitInv == RulesInit => RulesInv
PROOF
<1> SUFFICES ASSUME RulesInit
             PROVE  RulesInv
  OBVIOUS
<1>1. caches \in [Isolates -> Copies] /\ \A i \in Isolates, k \in Keys : caches[i][k].fresh = 0
  BY ColdTyped DEF RulesInit
<1>2. age \in [Keys -> 0 .. Ttl + Slow]
  BY RulesAssumption DEF RulesInit
<1>3. ShapeInv
  <2>1. visits \in [Slots -> Served \cup {Nobody}] /\ \A c \in Slots : visits[c] = Nobody
    BY DEF RulesInit
  <2>2. arrived \in 0 .. MaxVisits /\ store \in Store
    BY RulesAssumption DEF RulesInit
  <2>3. wrong \in BOOLEAN
    BY DEF RulesInit
  <2> QED
    BY <1>1, <1>2, <2>1, <2>2, <2>3 DEF ShapeInv
<1>4. CopiesInv
  BY <1>1 DEF CopiesInv, Current
<1>5. FlightsInv
  BY DEF RulesInit, FlightsInv
<1> QED
  BY <1>3, <1>4, <1>5 DEF RulesInv

LEMMA ArriveInv ==
  ASSUME RulesInv, NEW c \in Slots, NEW op \in Savings \cup {"visit"}, NEW who \in Caller,
         NEW i \in Isolates, Arrive(c, op, who, i)
  PROVE  RulesInv'
PROOF
<1> DEFINE w == [op |-> op, who |-> who, on |-> i, at |-> 1, wait |-> "no", slow |-> 0,
                 seen |-> Defaults, failed |-> FALSE,
                 steady |-> op = "visit" /\ \A k \in Keys : age[k] = Ttl + Slow]
<1>1. visits' = [visits EXCEPT ![c] = w] /\ UNCHANGED <<store, caches, age, wrong>>
  BY DEF Arrive
<1>2. w \in Visit
  BY DefaultsTyped, RulesAssumption DEF Visit
<1>3. w \in Served /\ w.wait = "no"
  BY <1>2 DEF Served, Placed, Savings
<1>4. arrived' \in 0 .. MaxVisits
  BY RulesAssumption DEF Arrive, RulesInv, ShapeInv
<1>5. ShapeInv' /\ FlightsInv'
  BY <1>1, <1>3, <1>4, Waitless DEF RulesInv, ShapeInv
<1>6. CopiesInv'
  BY <1>1 DEF RulesInv, CopiesInv, Current
<1> QED
  BY <1>5, <1>6 DEF RulesInv

\* readBypassSettings, readGeoBlockSettings.
LEMMA ReadInv ==
  ASSUME RulesInv, NEW c \in Slots, Read(c)
  PROVE  RulesInv'
PROOF
<1>1. PICK v \in Served : v = visits[c]
  BY DEF Read, RulesInv, ShapeInv
<1>2. v.wait = "no" /\ Step(c) # "put" /\ UNCHANGED <<store, arrived, age>>
  BY <1>1 DEF Read
<1>3. PICK k \in Keys : k = KeyOf(Step(c))
  BY <1>1, <1>2, Steps
<1>4. v.on \in Isolates /\ v \in Visit
  BY DEF Served, Visit
<1>5. PICK entry \in Entry(k) : entry = caches[v.on][k]
  BY <1>3, <1>4, Parts DEF RulesInv, ShapeInv
<1>6. store[k] \in Value(k) /\ Defaults[k] \in Value(k)
  BY Parts, DefaultsTyped DEF RulesInv, ShapeInv
<1>7. CASE entry.fresh > 0
  <2> DEFINE u == [v EXCEPT !.seen[k] = entry.value, !.steady = @ /\ ~entry.failed]
  <2>1. caches' = [caches EXCEPT ![v.on][k] = entry] /\ Advance(c, u)
    BY <1>1, <1>2, <1>3, <1>5, <1>7 DEF Read, Remembered
  <2>2. caches' \in [Isolates -> Copies]
        /\ \A j \in Isolates, l \in Keys : caches'[j][l] = caches[j][l]
    BY <1>4, <1>5, <2>1, Remember DEF RulesInv
  <2>3. u \in Visit /\ u.op = v.op /\ u.at = v.at
    <3>1. entry.value \in Value(k)
      BY DEF Entry
    <3>2. u = Finds(v, k, entry.value, ~entry.failed)
      BY DEF Finds
    <3> HIDE DEF u
    <3> QED
      BY <1>4, <3>1, <3>2, FindsTyped
  <2> HIDE DEF u
  <2>4. PICK w \in Served \cup {Nobody} :
          visits' = [visits EXCEPT ![c] = w] /\ (w # Nobody => w.wait = "no")
    BY <1>1, <1>2, <2>1, <2>3, Advances DEF RulesInv
  <2>5. wrong' \in BOOLEAN
    BY <1>1, <1>2, <2>1, <2>3, Advances DEF RulesInv
  <2>6. ShapeInv' /\ FlightsInv'
    BY <1>2, <2>2, <2>4, <2>5, Waitless DEF RulesInv, ShapeInv
  <2>7. CopiesInv'
    BY <1>2, <2>2 DEF RulesInv, CopiesInv, Current
  <2> QED
    BY <2>6, <2>7 DEF RulesInv
<1>8. CASE ~(entry.fresh > 0)
  <2>1. /\ UNCHANGED <<caches, wrong>>
        /\ \/ visits' = [visits EXCEPT ![c] = [v EXCEPT !.wait = "get", !.seen[k] = store[k]]]
           \/ visits' = [visits EXCEPT ![c] = Fetches(v, k, Defaults[k], TRUE)]
    BY <1>1, <1>2, <1>3, <1>5, <1>8 DEF Read, Fetches
  <2>2. PICK w : \E x \in Value(k), f \in BOOLEAN :
          /\ visits' = [visits EXCEPT ![c] = w] /\ (~f => x = store[k])
          /\ w \in Visit /\ w.op = v.op /\ w.at = v.at /\ w.wait = "get"
          /\ w.failed = f /\ w.seen[k] = x
    <3>1. CASE visits' = [visits EXCEPT ![c] = [v EXCEPT !.wait = "get", !.seen[k] = store[k]]]
      <4>1. v.failed \in BOOLEAN
        BY <1>4 DEF Visit
      <4>2. [v EXCEPT !.wait = "get", !.seen[k] = store[k]] = Fetches(v, k, store[k], v.failed)
        BY <1>4 DEF Visit, Fetches
      <4>3. visits' = [visits EXCEPT ![c] = Fetches(v, k, store[k], v.failed)]
        BY <3>1, <4>2
      <4> QED
        <5> DEFINE w == Fetches(v, k, store[k], v.failed)
        <5>1. /\ w \in Visit /\ w.op = v.op /\ w.at = v.at /\ w.wait = "get"
              /\ w.failed = v.failed /\ w.seen[k] = store[k]
          BY <1>4, <1>6, <4>1, FetchesTyped
        <5> HIDE DEF w
        <5>2. visits' = [visits EXCEPT ![c] = w]
          BY <4>3 DEF w
        <5> QED
          BY <1>6, <4>1, <5>1, <5>2
    <3>2. CASE visits' = [visits EXCEPT ![c] = Fetches(v, k, Defaults[k], TRUE)]
      BY <1>4, <1>6, <3>2, FetchesTyped
    <3> QED
      BY <2>1, <3>1, <3>2
  <2>3. w \in Served
    BY <2>2 DEF Served, Placed
  <2>4. /\ visits' \in [Slots -> Served \cup {Nobody}] /\ visits'[c] = w
        /\ \A d \in Slots \ {c} : visits'[d] = visits[d]
    BY <2>2, <2>3 DEF RulesInv, ShapeInv
  <2>5. /\ Step(c)' = Step(c) /\ Brought(c)' = {k}
        /\ \A d \in Slots \ {c} : Step(d)' = Step(d) /\ Brought(d)' = Brought(d)
    BY <1>1, <1>3, <2>2, <2>4 DEF Step, Brought
  <2>6. ShapeInv'
    BY <1>2, <2>1, <2>4, <2>5 DEF RulesInv, ShapeInv
  <2>7. Brings(w, k)'
    BY <1>2, <2>2 DEF Brings
  <2>8. FlightsInv'
    <3> SUFFICES ASSUME NEW d \in Slots, visits'[d] # Nobody, NEW l \in Brought(d)'
                 PROVE  Brings(visits[d], l)'
      BY DEF FlightsInv
    <3>1. CASE d = c
      BY <2>4, <2>5, <2>7, <3>1 DEF Brings
    <3>2. CASE d # c
      BY <1>2, <2>4, <2>5, <3>2 DEF RulesInv, FlightsInv, Brings
    <3> QED
      BY <3>1, <3>2
  <2>9. CopiesInv'
    BY <1>2, <2>1 DEF RulesInv, CopiesInv, Current
  <2> QED
    BY <2>6, <2>8, <2>9 DEF RulesInv
<1> QED
  BY <1>7, <1>8

\* The isolate remembers what the read has brought.
LEMMA FetchedInv ==
  ASSUME RulesInv, NEW c \in Slots, Fetched(c)
  PROVE  RulesInv'
PROOF
<1>a. PICK v \in Served : v = visits[c]
  BY DEF Fetched, RulesInv, ShapeInv
<1>1. /\ v # Nobody /\ v.wait = "get" /\ Step(c) # "put"
      /\ UNCHANGED <<store, arrived, age>>
  BY <1>a DEF Fetched, RulesInv, ShapeInv
<1>b. PICK k \in Keys : k = KeyOf(Step(c))
  BY <1>a, <1>1, Steps
<1>2. v.on \in Isolates /\ v \in Visit /\ v.slow \in 0 .. Slow
  BY <1>1 DEF Served, Visit
<1> DEFINE e == [value |-> v.seen[k], fresh |-> Ttl, failed |-> v.failed]
           u == [v EXCEPT !.failed = FALSE, !.steady = @ /\ ~v.failed]
<1>3. caches' = [caches EXCEPT ![v.on][k] = e] /\ Advance(c, u)
  BY <1>a, <1>b DEF Fetched
<1>4. e \in Entry(k)
  <2>1. v.seen[k] \in Value(k) /\ v.failed \in BOOLEAN
    BY <1>2, Parts DEF Visit
  <2> QED
    BY <2>1, RulesAssumption DEF Entry
<1>5. /\ caches' \in [Isolates -> Copies]
      /\ \A j \in Isolates, l \in Keys :
           caches'[j][l] = IF j = v.on /\ l = k THEN e ELSE caches[j][l]
  <2> HIDE DEF e
  <2> QED
    BY <1>2, <1>3, <1>4, Remember DEF RulesInv
<1>6. u \in Visit /\ u.op = v.op /\ u.at = v.at
  BY <1>2 DEF Visit
<1> HIDE DEF u
<1>7. PICK w \in Served \cup {Nobody} :
        visits' = [visits EXCEPT ![c] = w] /\ (w # Nobody => w.wait = "no")
  BY <1>a, <1>1, <1>3, <1>6, Advances DEF RulesInv
<1>8. wrong' \in BOOLEAN
  BY <1>a, <1>1, <1>3, <1>6, Advances DEF RulesInv
<1>9. ShapeInv' /\ FlightsInv'
  BY <1>1, <1>5, <1>7, <1>8, Waitless DEF RulesInv, ShapeInv
<1>10. Current(e, k)'
  <2>1. Brings(v, k)
    BY <1>a, <1>b, <1>1 DEF RulesInv, FlightsInv, Brought
  <2>2. age[k] \in 0 .. Ttl + Slow
    BY <1>2 DEF RulesInv, ShapeInv
  <2> QED
    BY <1>1, <1>2, <2>1, <2>2, RulesAssumption DEF Brings, Current
<1>11. CopiesInv'
  <2> HIDE DEF e
  <2> QED
    BY <1>1, <1>5, <1>10 DEF RulesInv, CopiesInv, Current
<1> QED
  BY <1>9, <1>11 DEF RulesInv

-----------------------------------------------------------------------------
LEMMA SavesTyped ==
  ASSUME store \in Store, NEW v \in Visit, v.op # "visit", NEW s \in Saves(v)
  PROVE  s \in Store
PROOF
<1>1. CASE v.op \in {"allowlist", "link"}
  <2>1. v.seen.bypass \in Bypass
    BY DEF Visit, Store
  <2>2. NewBypass(v.op, v.seen.bypass) \subseteq Bypass
    BY <1>1, <2>1 DEF NewBypass, Bypass
  <2>3. PICK b \in NewBypass(v.op, v.seen.bypass) : s = [store EXCEPT !.bypass = b]
    BY <1>1 DEF Saves
  <2> QED
    BY <2>2, <2>3 DEF Store
<1>2. CASE v.op = "geo"
  BY <1>2 DEF Saves, Store
<1>3. CASE v.op = "reset"
  BY <1>3, DefaultsTyped DEF Saves
<1> QED
  BY <1>1, <1>2, <1>3 DEF Visit, Savings

\* Of a visit that is no longer steady nothing else changes.
LEMMA UnsteadyTyped ==
  ASSUME NEW v \in Served
  PROVE  LET w == Unsteady(v)
         IN /\ w \in Served /\ w # Nobody /\ w.op = v.op /\ w.at = v.at /\ w.wait = v.wait
            /\ w.slow = v.slow /\ w.seen = v.seen /\ w.failed = v.failed
PROOF
<1>1. v # Nobody
  BY NobodyOut
<1>2. Unsteady(v) = [v EXCEPT !.steady = FALSE]
  BY <1>1 DEF Unsteady
<1>3. v \in Visit /\ Placed(v)
  BY DEF Served
<1> DEFINE w == [v EXCEPT !.steady = FALSE]
<1>4. /\ w \in Visit /\ w.op = v.op /\ w.at = v.at /\ w.wait = v.wait
      /\ w.slow = v.slow /\ w.seen = v.seen /\ w.failed = v.failed
  BY <1>3 DEF Visit
<1> HIDE DEF w
<1>5. w \in Served
  BY <1>3, <1>4 DEF Served, Placed
<1>6. w # Nobody
  BY <1>5, NobodyOut
<1> QED
  BY <1>2, <1>4, <1>5, <1>6 DEF w

\* The put replaces the record, and every copy of what it replaced is out of date since now.
LEMMA PutInv ==
  ASSUME RulesInv, NEW c \in Slots, Put(c)
  PROVE  RulesInv'
PROOF
<1>1. PICK v \in Served : v = visits[c]
  BY DEF Put, RulesInv, ShapeInv
<1>2. PICK s \in Saves(v) :
        /\ store' = s
        /\ age' = [k \in Keys |-> IF s[k] = store[k] THEN age[k] ELSE 0]
        /\ visits' = [d \in Slots |->
             IF d = c THEN [v EXCEPT !.wait = "put", !.seen = s]
             ELSE IF s = store THEN visits[d] ELSE Unsteady(visits[d])]
  BY <1>1, ZenonT(40) DEF Put
<1>3. UNCHANGED <<caches, arrived, wrong>>
  BY DEF Put
<1>4. s \in Store /\ v \in Visit /\ Placed(v)
  <2>1. v.op # "visit"
    BY <1>1, Steps DEF Put
  <2> QED
    BY <2>1, SavesTyped DEF Served, RulesInv, ShapeInv
<1> DEFINE p == [v EXCEPT !.wait = "put", !.seen = s]
<1>5. /\ p \in Visit /\ p.op = v.op /\ p.at = v.at /\ p.wait = "put" /\ p.seen = s
  BY <1>4 DEF Visit
<1>6. visits'[c] = p
  BY <1>2
<1> HIDE DEF p
<1>7. p \in Served
  BY <1>4, <1>5 DEF Served, Placed
<1>8. ASSUME NEW d \in Slots, d # c
      PROVE  \/ visits[d] = Nobody /\ visits'[d] = Nobody
             \/ LET u == visits[d]
                    w == visits'[d]
                IN /\ u \in Served /\ w \in Served /\ u # Nobody /\ w.op = u.op /\ w.at = u.at
                   /\ w.wait = u.wait /\ w.slow = u.slow /\ w.seen = u.seen /\ w.failed = u.failed
  <2>1. visits'[d] = visits[d] \/ visits'[d] = Unsteady(visits[d])
    BY <1>2, <1>8
  <2>2. CASE visits[d] = Nobody
    BY <2>1, <2>2 DEF Unsteady
  <2>3. CASE visits[d] \in Served
    BY <2>1, <2>3, UnsteadyTyped, NobodyOut
  <2> QED
    BY <2>2, <2>3 DEF RulesInv, ShapeInv
<1>9. ASSUME NEW d \in Slots, d # c, visits'[d] # Nobody
      PROVE  visits[d] # Nobody /\ Step(d)' = Step(d) /\ Brought(d)' = Brought(d)
  BY <1>8, <1>9 DEF Step, Brought
<1>10. age' \in [Keys -> 0 .. Ttl + Slow]
  BY <1>2, RulesAssumption DEF RulesInv, ShapeInv
<1>11. visits' \in [Slots -> Served \cup {Nobody}]
  <2>1. \A d \in Slots : visits'[d] \in Served \cup {Nobody}
    BY <1>6, <1>7, <1>8
  <2>2. visits' = [d \in Slots |-> visits'[d]]
    BY <1>2
  <2> QED
    BY <2>1, <2>2
<1>12. ASSUME NEW d \in Slots, visits'[d] # Nobody, visits'[d].wait = "get"
       PROVE  Step(d)' # "put"
  <2>1. d # c
    BY <1>5, <1>6, <1>12
  <2> QED
    BY <1>8, <1>9, <1>12, <2>1 DEF RulesInv, ShapeInv
<1>13. ShapeInv'
  BY <1>2, <1>3, <1>4, <1>10, <1>11, <1>12 DEF RulesInv, ShapeInv
<1>14. \A k \in Keys : age'[k] = IF store'[k] = store[k] THEN age[k] ELSE 0
  BY <1>2
<1>15. ASSUME NEW i \in Isolates, NEW k \in Keys
       PROVE  Current(caches[i][k], k)'
  <2>1. caches[i][k].fresh \in 0 .. Ttl /\ Current(caches[i][k], k)
    BY Parts DEF RulesInv, ShapeInv, CopiesInv, Entry
  <2> QED
    BY <1>3, <1>14, <2>1, RulesAssumption DEF Current
<1>16. ASSUME NEW d \in Slots, visits'[d] # Nobody, NEW k \in Brought(d)'
       PROVE  Brings(visits[d], k)'
  <2>1. CASE d = c
    BY <1>2, <1>5, <1>6, <2>1 DEF Brings
  <2>2. CASE d # c
    <3>1. k \in Brought(d) /\ visits[d] # Nobody /\ visits[d] \in Served
      BY <1>8, <1>9, <1>16, <2>2
    <3>2. k \in Keys
      BY <3>1, Steps DEF Brought, RulesInv, ShapeInv
    <3>3. Brings(visits[d], k) /\ visits[d].slow \in 0 .. Slow
      BY <3>1 DEF RulesInv, FlightsInv, Served, Visit
    <3>4. /\ visits'[d].wait = visits[d].wait /\ visits'[d].failed = visits[d].failed
          /\ visits'[d].seen = visits[d].seen /\ visits'[d].slow = visits[d].slow
      BY <1>8, <2>2, <3>1
    <3> QED
      BY <1>14, <3>2, <3>3, <3>4 DEF Brings
  <2> QED
    BY <2>1, <2>2
<1> QED
  BY <1>13, <1>15, <1>16 DEF RulesInv, CopiesInv, FlightsInv

\* The isolate remembers what was put.
LEMMA StoredInv ==
  ASSUME RulesInv, NEW c \in Slots, Stored(c)
  PROVE  RulesInv'
PROOF
<1>1. PICK v \in Served : v = visits[c]
  BY DEF Stored, RulesInv, ShapeInv
<1>2. v # Nobody /\ v.wait = "put" /\ UNCHANGED <<store, arrived, age, wrong>>
  BY <1>1 DEF Stored
<1>3. visits' = [visits EXCEPT ![c] = Nobody]
  BY DEF Stored, Settle
<1>4. v.on \in Isolates /\ v \in Visit /\ v.slow \in 0 .. Slow /\ v.failed \in BOOLEAN
  BY DEF Served, Visit
<1>5. PICK k \in Keys : k = IF v.op = "geo" THEN "geo" ELSE "bypass"
  BY DEF Keys
<1> DEFINE e == [value |-> v.seen[k], fresh |-> Ttl, failed |-> FALSE]
<1>6. e \in Entry(k)
  <2>1. v.seen[k] \in Value(k)
    BY <1>4, Parts DEF Visit
  <2> QED
    BY <2>1, RulesAssumption DEF Entry
<1>7. Current(e, k)'
  <2>1. Brings(v, k)
    BY <1>1, <1>2 DEF RulesInv, FlightsInv, Brought
  <2>2. age[k] \in 0 .. Ttl + Slow
    BY DEF RulesInv, ShapeInv
  <2> QED
    BY <1>2, <1>4, <2>1, <2>2, RulesAssumption DEF Brings, Current
<1>8. caches' \in [Isolates -> Copies] /\ CopiesInv'
  <2>1. CASE v.op = "reset"
    <3>1. caches' = [caches EXCEPT ![v.on] = Cold]
      BY <1>1, <2>1 DEF Stored
    <3>2. /\ caches' \in [Isolates -> Copies]
          /\ \A i \in Isolates : caches'[i] = IF i = v.on THEN Cold ELSE caches[i]
      BY <3>1, ColdTyped DEF RulesInv, ShapeInv
    <3> QED
      BY <1>2, <3>2, ColdTyped DEF RulesInv, CopiesInv, Current
  <2>2. CASE v.op # "reset"
    <3>1. caches' = [caches EXCEPT ![v.on][k] = e]
      BY <1>1, <1>5, <2>2 DEF Stored
    <3> HIDE DEF e
    <3>2. /\ caches' \in [Isolates -> Copies]
          /\ \A j \in Isolates, l \in Keys :
               caches'[j][l] = IF j = v.on /\ l = k THEN e ELSE caches[j][l]
      BY <1>4, <1>6, <3>1, Remember DEF RulesInv
    <3> QED
      BY <1>2, <1>7, <3>2 DEF RulesInv, CopiesInv, Current
  <2> QED
    BY <2>1, <2>2
<1>9. ShapeInv' /\ FlightsInv'
  BY <1>2, <1>3, <1>8, Waitless DEF RulesInv, ShapeInv
<1> QED
  BY <1>8, <1>9 DEF RulesInv

LEMMA EvictInv ==
  ASSUME RulesInv, NEW i \in Isolates, Evict(i)
  PROVE  RulesInv'
PROOF
<1>1. UNCHANGED <<store, arrived, age, wrong>>
  BY DEF Evict
<1>2. /\ caches' \in [Isolates -> Copies]
      /\ \A j \in Isolates : caches'[j] = IF j = i THEN Cold ELSE caches[j]
  BY ColdTyped DEF Evict, RulesInv, ShapeInv
<1>3. /\ visits' \in [Slots -> Served \cup {Nobody}]
      /\ \A c \in Slots : visits'[c] = Nobody \/ visits'[c] = visits[c]
  BY DEF Evict, RulesInv, ShapeInv
<1>4. \A c \in Slots : visits'[c] # Nobody => Step(c)' = Step(c) /\ Brought(c)' = Brought(c)
  BY <1>3 DEF Step, Brought
<1>5. ShapeInv'
  BY <1>1, <1>2, <1>3, <1>4 DEF RulesInv, ShapeInv
<1>6. CopiesInv'
  BY <1>1, <1>2, ColdTyped DEF RulesInv, CopiesInv, Current
<1>7. FlightsInv'
  BY <1>1, <1>3, <1>4 DEF RulesInv, FlightsInv, Brings
<1> QED
  BY <1>5, <1>6, <1>7 DEF RulesInv

-----------------------------------------------------------------------------
\* Time takes settings that are equal to settings that are equal.
LEMMA OlderTyped ==
  /\ \A s \in Store : Older(s) \in Store
  /\ \A s, r \in Store, k \in Keys : s[k] = r[k] => Older(s)[k] = Older(r)[k]
PROOF
<1>1. ASSUME NEW s \in Store
      PROVE  /\ Older(s) \in Store /\ Older(s)["bypass"] = s["bypass"]
             /\ Older(s)["geo"] = IF s["geo"] = 0 THEN 0 ELSE s["geo"] - 1
  <2>1. s.geo \in 0 .. BlockTime
    BY DEF Store, Geo
  <2>2. (IF s.geo = 0 THEN 0 ELSE s.geo - 1) \in Geo
    BY <2>1, RulesAssumption DEF Geo
  <2> QED
    BY <2>2 DEF Older, Store
<1> QED
  BY <1>1 DEF Keys

\* A copy after a unit of time.
Later(e, k) ==
  IF e.fresh <= 1 THEN Stale(k)
  ELSE [e EXCEPT !.fresh = @ - 1, !.value = IF k = "geo" /\ @ > 0 THEN @ - 1 ELSE @]

LEMMA LaterTyped ==
  ASSUME NEW k \in Keys, NEW e \in Entry(k), NEW s \in Store
  PROVE  /\ Later(e, k) \in Entry(k)
         /\ Later(e, k).fresh > 0 =>
              /\ e.fresh > 0 /\ Later(e, k).fresh = e.fresh - 1
              /\ Later(e, k).failed = e.failed
              /\ e.value = s[k] => Later(e, k).value = Older(s)[k]
PROOF
<1>1. e.value \in Value(k) /\ e.fresh \in 0 .. Ttl /\ e.failed \in BOOLEAN
  BY DEF Entry
<1>2. CASE e.fresh <= 1
  BY <1>2, ColdTyped, RulesAssumption DEF Later, Cold
<1>3. CASE ~(e.fresh <= 1)
  <2> DEFINE x == IF k = "geo" /\ e.value > 0 THEN e.value - 1 ELSE e.value
             f == e.fresh - 1
  <2>1. x \in Value(k) /\ f \in 0 .. Ttl
    BY <1>1, <1>3, RulesAssumption DEF Value, Geo, Keys
  <2>2. Later(e, k) = [e EXCEPT !.fresh = f, !.value = x]
    BY <1>3 DEF Later
  <2>3. e.value = s[k] => x = Older(s)[k]
    <3>1. CASE k = "geo"
      <4>1. s.geo \in 0 .. BlockTime
        BY DEF Store, Geo
      <4>2. Older(s)[k] = IF s.geo = 0 THEN 0 ELSE s.geo - 1
        BY <3>1 DEF Older, Store
      <4> QED
        BY <3>1, <4>1, <4>2, RulesAssumption
    <3>2. CASE k = "bypass"
      BY <3>2 DEF Older, Store
    <3> QED
      BY <3>1, <3>2 DEF Keys
  <2> DEFINE w == [e EXCEPT !.fresh = f, !.value = x]
  <2> HIDE DEF x, f
  <2>4. w \in Entry(k) /\ w.fresh = f /\ w.failed = e.failed /\ w.value = x
    BY <2>1 DEF Entry
  <2>5. e.fresh > 0 /\ f = e.fresh - 1
    BY <1>1, <1>3, RulesAssumption DEF f
  <2> HIDE DEF w
  <2>6. Later(e, k) = w
    BY <2>2 DEF w
  <2> QED
    BY <2>3, <2>4, <2>5, <2>6
<1> QED
  BY <1>2, <1>3

\* A unit of time adds one to the age of a put and to the duration of a call, and takes
\* one from what a copy has left.
LEMMA RulesTickInv ==
  ASSUME RulesInv, RulesTick
  PROVE  RulesInv'
PROOF
<1>1. store' = Older(store) /\ UNCHANGED <<arrived, wrong>> /\ store \in Store /\ store' \in Store
  BY OlderTyped DEF RulesTick, RulesInv, ShapeInv
<1>2. /\ caches' = [i \in Isolates |-> [k \in Keys |-> Later(caches[i][k], k)]]
      /\ \A i \in Isolates, k \in Keys : caches[i][k] \in Entry(k)
  BY Parts DEF RulesTick, RulesInv, ShapeInv, Later
<1>3. /\ caches' \in [Isolates -> Copies]
      /\ \A i \in Isolates, k \in Keys : caches'[i][k] = Later(caches[i][k], k)
  <2>1. \A i \in Isolates : [k \in Keys |-> Later(caches[i][k], k)] \in Copies
    BY <1>1, <1>2, LaterTyped DEF Copies, Keys
  <2> QED
    BY <1>2, <2>1
<1>4. /\ age' \in [Keys -> 0 .. Ttl + Slow]
      /\ \A k \in Keys : age'[k] = IF age[k] = Ttl + Slow THEN age[k] ELSE age[k] + 1
      /\ \A k \in Keys : age[k] \in 0 .. Ttl + Slow
  <2>1. age' = [k \in Keys |-> IF age[k] = Ttl + Slow THEN age[k] ELSE age[k] + 1]
    BY DEF RulesTick
  <2>2. \A k \in Keys : age[k] \in 0 .. Ttl + Slow
    BY DEF RulesInv, ShapeInv
  <2>3. \A k \in Keys :
          (IF age[k] = Ttl + Slow THEN age[k] ELSE age[k] + 1) \in 0 .. Ttl + Slow
    BY <2>2, RulesAssumption
  <2> QED
    BY <2>1, <2>2, <2>3
<1>5. ASSUME NEW c \in Slots
      PROVE  \/ visits[c] = Nobody /\ visits'[c] = Nobody
             \/ LET v == visits[c]
                    w == visits'[c]
                IN /\ v \in Served /\ v # Nobody /\ w \in Served /\ w.op = v.op /\ w.at = v.at
                   /\ w.wait = v.wait /\ w.failed = v.failed /\ w.seen = Older(v.seen)
                   /\ w.wait # "no" => w.slow = v.slow + 1
  <2>1. CASE visits[c] = Nobody
    BY <2>1 DEF RulesTick
  <2>2. CASE visits[c] # Nobody
    <3> DEFINE v == visits[c]
               n == IF v.wait = "no" THEN 0 ELSE v.slow + 1
               s == Older(v.seen)
               b == v.steady /\ store.geo # 1
               w == [v EXCEPT !.slow = n, !.seen = s, !.steady = b]
    <3>1. visits'[c] = w
      BY <2>2 DEF RulesTick
    <3>2. v \in Visit /\ Placed(v) /\ v \in Served
      BY <2>2 DEF RulesInv, ShapeInv, Served
    <3>3. n \in 0 .. Slow
      <4>1. v.slow \in 0 .. Slow /\ (v.wait # "no" => v.slow < Slow)
        BY <2>2, <3>2 DEF RulesTick, Visit
      <4> QED
        BY <4>1, RulesAssumption
    <3>4. s \in Store /\ b \in BOOLEAN
      BY <3>2, OlderTyped DEF Visit
    <3> HIDE DEF n, s, b
    <3>5. /\ w \in Visit /\ w.op = v.op /\ w.at = v.at /\ w.wait = v.wait
          /\ w.failed = v.failed /\ w.seen = s /\ w.slow = n
      BY <3>2, <3>3, <3>4 DEF Visit
    <3> HIDE DEF w
    <3>6. w \in Served
      BY <3>2, <3>5 DEF Served, Placed
    <3> QED
      BY <2>2, <3>1, <3>2, <3>5, <3>6 DEF n, s
  <2> QED
    BY <2>1, <2>2
<1>6. visits' \in [Slots -> Served \cup {Nobody}]
  <2>1. visits' = [c \in Slots |-> visits'[c]]
    BY DEF RulesTick
  <2>2. \A c \in Slots : visits'[c] \in Served \cup {Nobody}
    BY <1>5
  <2> QED
    BY <2>1, <2>2
<1>7. ASSUME NEW c \in Slots, visits'[c] # Nobody
      PROVE  visits[c] # Nobody /\ Step(c)' = Step(c) /\ Brought(c)' = Brought(c)
  BY <1>5, <1>7 DEF Step, Brought
<1>8. \A c \in Slots : visits'[c] # Nobody /\ visits'[c].wait = "get" => Step(c)' # "put"
  BY <1>5, <1>7 DEF RulesInv, ShapeInv
<1>9. ShapeInv'
  BY <1>1, <1>3, <1>4, <1>6, <1>8 DEF RulesInv, ShapeInv
<1>10. ASSUME NEW i \in Isolates, NEW k \in Keys
       PROVE  Current(caches[i][k], k)'
  <2> DEFINE e == caches[i][k]
  <2>1. e \in Entry(k) /\ e.fresh \in 0 .. Ttl /\ Current(e, k)
    BY <1>2 DEF RulesInv, CopiesInv, Entry
  <2>2. /\ Later(e, k) \in Entry(k)
        /\ Later(e, k).fresh > 0 =>
             /\ e.fresh > 0 /\ Later(e, k).fresh = e.fresh - 1
             /\ Later(e, k).failed = e.failed
             /\ e.value = store[k] => Later(e, k).value = store'[k]
    BY <1>1, <2>1, LaterTyped
  <2>3. caches'[i][k] = Later(e, k)
    BY <1>3
  <2> QED
    BY <1>4, <2>1, <2>2, <2>3, RulesAssumption DEF Current
<1>11. ASSUME NEW c \in Slots, visits'[c] # Nobody, NEW k \in Brought(c)'
       PROVE  Brings(visits[c], k)'
  <2>1. visits[c] \in Served /\ visits[c] # Nobody /\ k \in Brought(c)
    BY <1>5, <1>7, <1>11
  <2>2. k \in Keys
    BY <2>1, Steps DEF Brought, RulesInv, ShapeInv
  <2>3. Brings(visits[c], k) /\ visits[c].slow \in 0 .. Slow /\ visits[c].seen \in Store
    BY <2>1 DEF RulesInv, FlightsInv, Served, Visit
  <2>4. /\ visits'[c].wait = visits[c].wait /\ visits'[c].failed = visits[c].failed
        /\ visits'[c].seen = Older(visits[c].seen)
        /\ visits'[c].wait # "no" => visits'[c].slow = visits[c].slow + 1
    BY <1>5, <2>1
  <2>5. visits[c].seen[k] = store[k] => visits'[c].seen[k] = store'[k]
    BY <1>1, <2>2, <2>3, <2>4, OlderTyped
  <2> QED
    BY <1>4, <2>2, <2>3, <2>4, <2>5 DEF Brings
<1> QED
  BY <1>9, <1>10, <1>11 DEF RulesInv, CopiesInv, FlightsInv

-----------------------------------------------------------------------------
LEMMA RulesNextInv == RulesInv /\ [RulesNext]_rulesVars => RulesInv'
PROOF
<1> SUFFICES ASSUME RulesInv, [RulesNext]_rulesVars
             PROVE  RulesInv'
  OBVIOUS
<1>1. CASE RulesNext
  BY <1>1, ArriveInv, ReadInv, FetchedInv, PutInv, StoredInv, EvictInv, RulesTickInv DEF RulesNext
<1>2. CASE UNCHANGED rulesVars
  BY <1>2 DEF rulesVars, RulesInv, ShapeInv, CopiesInv, FlightsInv, Current, Brings, Brought, Step
<1> QED
  BY <1>1, <1>2

LEMMA InvImplies == RulesInv => StalenessBounded /\ RulesTypeOK
PROOF
<1> SUFFICES ASSUME RulesInv
             PROVE  StalenessBounded /\ RulesTypeOK
  OBVIOUS
<1>1. ASSUME NEW i \in Isolates, NEW k \in Keys
      PROVE  /\ caches[i][k].value \in Value(k) /\ caches[i][k].fresh \in 0 .. Ttl
             /\ caches[i][k].failed \in BOOLEAN /\ age[k] \in 0 .. Ttl + Slow
  BY Parts DEF RulesInv, ShapeInv, Entry
<1>2. StalenessBounded
  BY <1>1, RulesAssumption DEF RulesInv, CopiesInv, Current, StalenessBounded
<1>3. \A i \in Isolates, k \in Keys : [Defaults EXCEPT ![k] = caches[i][k].value] \in Store
  BY <1>1, DefaultsTyped DEF Store, Keys, Value
<1>4. visits \in [Slots -> Visit \cup {Nobody}]
  BY DEF RulesInv, ShapeInv, Served
<1>5. RulesTypeOK
  BY <1>1, <1>3, <1>4 DEF RulesInv, ShapeInv, RulesTypeOK
<1> QED
  BY <1>2, <1>5

-----------------------------------------------------------------------------
\* The settings, their copies and the calls keep their shape, for any number of isolates
\* and calls (bypass-store.ts, geo-block-store.ts).
THEOREM RulesTyped == RulesSpec => []RulesTypeOK
PROOF
<1>1. RulesSpec => []RulesInv
  BY RulesInitInv, RulesNextInv, PTL DEF RulesSpec
<1> QED
  BY <1>1, InvImplies, PTL

\* No isolate goes by a setting that was replaced longer ago than CACHE_TTL_MS and one call
\* of the store, however reads, saves and evictions interleave (readBypassSettings,
\* readGeoBlockSettings).
THEOREM StalenessAlwaysBounded == RulesSpec => []StalenessBounded
PROOF
<1>1. RulesSpec => []RulesInv
  BY RulesInitInv, RulesNextInv, PTL DEF RulesSpec
<1> QED
  BY <1>1, InvImplies, PTL

-----------------------------------------------------------------------------
(***************************************************************************)
(* A visit that is steady has met the settings as they are, and what it    *)
(* has passed by still stands.                                             *)
(***************************************************************************)
Standing(v) ==
  v.op = "visit" /\ v.steady =>
    /\ \A k \in Keys : age[k] = Ttl + Slow
    /\ v.at \in 2 .. 3 => ~(v.who.office /\ store.bypass.office)
    /\ v.at = 3 => store.geo > 0

SettledInv == ~wrong /\ \A c \in Slots : visits[c] # Nobody => Standing(visits[c])

\* The steps of a visit are those of its settings.
LEMMA VisitSteps ==
  ASSUME NEW c \in Slots, visits[c] \in Served, visits[c].op = "visit"
  PROVE  \/ visits[c].at = 1 /\ Step(c) = "bypass" /\ KeyOf(Step(c)) = "bypass"
         \/ visits[c].at = 2 /\ Step(c) = "geo" /\ KeyOf(Step(c)) = "geo"
         \/ visits[c].at = 3 /\ Step(c) = "again" /\ KeyOf(Step(c)) = "bypass"
PROOF
<1>1. Reads("visit") = <<"bypass", "geo", "again">>
  BY DEF Reads
<1>2. visits[c].at = 1 \/ visits[c].at = 2 \/ visits[c].at = 3
  BY DEF Served, Visit
<1> QED
  BY <1>1, <1>2 DEF Step, KeyOf

\* A visit that decides on a setting as it is decides as the docs promise, and one that
\* goes on has passed what does not concern it.
LEMMA Decided ==
  ASSUME NEW at \in 1 .. 3, NEW step \in {"bypass", "geo", "again"},
         <<at, step>> \in {<<1, "bypass">>, <<2, "geo">>, <<3, "again">>},
         NEW seen \in Store, seen[KeyOf(step)] = store[KeyOf(step)], store \in Store,
         NEW who \in Caller,
         at \in 2 .. 3 => ~(who.office /\ store.bypass.office),
         at = 3 => store.geo > 0
  PROVE  LET verdict == Verdict(step, seen, who)
         IN /\ verdict # "next" => verdict = Law(store, who)
            /\ verdict = "next" => /\ step # "again" /\ ~(who.office /\ store.bypass.office)
                                   /\ step = "geo" => store.geo > 0
PROOF
<1>1. CASE step = "bypass"
  <2>1. seen.bypass = store.bypass
    BY <1>1 DEF KeyOf
  <2> QED
    BY <1>1, <2>1 DEF Verdict, Law
<1>2. CASE step = "geo"
  <2>1. seen.geo = store.geo /\ store.geo \in 0 .. BlockTime /\ at = 2
    BY <1>2 DEF KeyOf, Store, Geo
  <2>2. Verdict(step, seen, who) =
          IF seen.geo > 0 THEN "next" ELSE IF who.open THEN "proxied" ELSE "waits"
    BY <1>2 DEF Verdict
  <2>3. CASE store.geo > 0
    BY <1>2, <2>1, <2>2, <2>3
  <2>4. CASE ~(store.geo > 0)
    BY <2>1, <2>2, <2>4 DEF Law
  <2> QED
    BY <2>3, <2>4
<1>3. CASE step = "again"
  <2>1. seen.bypass = store.bypass /\ at = 3
    BY <1>3 DEF KeyOf
  <2>2. Verdict(step, seen, who) =
          IF who.foreign THEN "blocked" ELSE IF who.open THEN "proxied" ELSE "waits"
    BY <1>3, <2>1 DEF Verdict
  <2> QED
    BY <2>1, <2>2 DEF Law
<1> QED
  BY <1>1, <1>2, <1>3

LEMMA AdvanceSettled ==
  ASSUME RulesInv, SettledInv, NEW c \in Slots, NEW v \in Served, v = visits[c],
         Step(c) # "put", UNCHANGED <<store, age>>,
         NEW u \in Visit, u.op = v.op, u.at = v.at, u.who = v.who,
         v.op = "visit" /\ u.steady =>
           v.steady /\ u.seen[KeyOf(Step(c))] = store[KeyOf(Step(c))],
         Advance(c, u)
  PROVE  SettledInv'
PROOF
<1> DEFINE verdict == Verdict(Step(c), u.seen, u.who)
           w == [u EXCEPT !.at = @ + 1, !.wait = "no", !.slow = 0,
                          !.seen = IF u.op = "visit" THEN Defaults ELSE @]
<1>1. v # Nobody /\ store \in Store /\ visits \in [Slots -> Served \cup {Nobody}]
  BY NobodyOut DEF RulesInv, ShapeInv
<1>2. v.op = "visit" => Standing(v)
  BY <1>1 DEF SettledInv
<1>3. ASSUME v.op = "visit", u.steady
      PROVE  /\ verdict # "next" => verdict = Law(store, u.who)
             /\ verdict = "next" => /\ Step(c) # "again" /\ ~(u.who.office /\ store.bypass.office)
                                    /\ Step(c) = "geo" => store.geo > 0
  <2>1. u.at \in 1 .. 3 /\ u.seen \in Store /\ u.who \in Caller
    BY DEF Visit
  <2>2. <<u.at, Step(c)>> \in {<<1, "bypass">>, <<2, "geo">>, <<3, "again">>}
    BY <1>3, VisitSteps
  <2>3. /\ u.at \in 2 .. 3 => ~(u.who.office /\ store.bypass.office)
        /\ u.at = 3 => store.geo > 0
    BY <1>2, <1>3 DEF Standing
  <2> QED
    BY <1>1, <1>3, <2>1, <2>2, <2>3, Decided
<1> HIDE DEF verdict
<1>4. CASE u.op = "visit" /\ verdict # "next"
  <2>1. /\ visits' = [visits EXCEPT ![c] = Nobody]
        /\ wrong' = (wrong \/ (u.steady /\ verdict # Law(store, u.who)))
    BY <1>4 DEF Advance, Settle, verdict
  <2>2. ~wrong'
    BY <1>3, <1>4, <2>1 DEF SettledInv
  <2>3. ASSUME NEW d \in Slots, visits'[d] # Nobody PROVE Standing(visits[d])'
    BY <1>1, <2>1, <2>3 DEF SettledInv, Standing
  <2> QED
    BY <2>2, <2>3 DEF SettledInv
<1>5. CASE ~(u.op = "visit" /\ verdict # "next")
  <2>1. visits' = [visits EXCEPT ![c] = w] /\ wrong' = wrong
    BY <1>5 DEF Advance, verdict
  <2>2. w.op = u.op /\ w.at = u.at + 1 /\ w.who = u.who /\ w.steady = u.steady
    BY DEF Visit
  <2> HIDE DEF w
  <2>3. ASSUME w.op = "visit", w.steady
        PROVE  /\ \A k \in Keys : age[k] = Ttl + Slow
               /\ ~(w.who.office /\ store.bypass.office)
               /\ w.at = 3 => store.geo > 0
    <3>1. u.op = "visit" /\ u.steady /\ v.steady /\ verdict = "next"
      BY <1>5, <2>2, <2>3
    <3>2. <<u.at, Step(c)>> \in {<<1, "bypass">>, <<2, "geo">>}
      BY <1>3, <3>1, VisitSteps
    <3> QED
      BY <1>2, <1>3, <2>2, <3>1, <3>2 DEF Standing
  <2>4. Standing(w)'
    BY <2>3 DEF Standing
  <2>5. ASSUME NEW d \in Slots, visits'[d] # Nobody PROVE Standing(visits[d])'
    <3>1. CASE d = c
      BY <1>1, <2>1, <2>4, <3>1 DEF Standing
    <3>2. CASE d # c
      BY <1>1, <2>1, <2>5, <3>2 DEF SettledInv, Standing
    <3> QED
      BY <3>1, <3>2
  <2> QED
    BY <2>1, <2>5 DEF SettledInv
<1> QED
  BY <1>4, <1>5

\* The calls stay as they are, or are no longer steady, or end.
LEMMA KeptSettled ==
  ASSUME SettledInv, UNCHANGED <<store, age, wrong>>,
         \A c \in Slots : visits'[c] # Nobody =>
           /\ visits[c] # Nobody /\ visits'[c].op = visits[c].op /\ visits'[c].at = visits[c].at
           /\ visits'[c].who = visits[c].who /\ visits'[c].steady = visits[c].steady
  PROVE  SettledInv'
PROOF
<1>1. ASSUME NEW c \in Slots, visits'[c] # Nobody PROVE Standing(visits[c])'
  BY <1>1 DEF SettledInv, Standing
<1> QED
  BY <1>1 DEF SettledInv

LEMMA ArriveSettled ==
  ASSUME RulesInv, SettledInv, NEW c \in Slots, NEW op \in Savings \cup {"visit"},
         NEW who \in Caller, NEW i \in Isolates, Arrive(c, op, who, i)
  PROVE  SettledInv'
PROOF
<1> DEFINE w == [op |-> op, who |-> who, on |-> i, at |-> 1, wait |-> "no", slow |-> 0,
                 seen |-> Defaults, failed |-> FALSE,
                 steady |-> op = "visit" /\ \A k \in Keys : age[k] = Ttl + Slow]
<1>1. visits' = [visits EXCEPT ![c] = w] /\ UNCHANGED <<store, age, wrong>>
  BY DEF Arrive
<1>2. Standing(w)
  <2>1. w.steady => \A k \in Keys : age[k] = Ttl + Slow
    OBVIOUS
  <2>2. w.at = 1
    OBVIOUS
  <2> HIDE DEF w
  <2> QED
    BY <2>1, <2>2 DEF Standing
<1> HIDE DEF w
<1>3. ASSUME NEW d \in Slots, visits'[d] # Nobody PROVE Standing(visits[d])'
  <2>1. visits'[d] = IF d = c THEN w ELSE visits[d]
    BY <1>1 DEF RulesInv, ShapeInv
  <2> QED
    BY <1>1, <1>2, <1>3, <2>1 DEF SettledInv, Standing
<1> QED
  BY <1>1, <1>3 DEF SettledInv

LEMMA ReadSettled ==
  ASSUME RulesInv, SettledInv, NEW c \in Slots, Read(c)
  PROVE  SettledInv'
PROOF
<1>1. PICK v \in Served : v = visits[c]
  BY DEF Read, RulesInv, ShapeInv
<1>2. Step(c) # "put" /\ UNCHANGED <<store, arrived, age>>
  BY DEF Read
<1>3. PICK k \in Keys : k = KeyOf(Step(c))
  BY <1>1, <1>2, Steps
<1>4. v.on \in Isolates /\ v \in Visit /\ v # Nobody
  BY NobodyOut DEF Served, Visit
<1>5. PICK entry \in Entry(k) : entry = caches[v.on][k]
  BY <1>3, <1>4, Parts DEF RulesInv, ShapeInv
<1>6. entry.value \in Value(k) /\ entry.fresh \in 0 .. Ttl /\ entry.failed \in BOOLEAN
  BY DEF Entry
<1>7. CASE entry.fresh > 0
  <2> DEFINE u == Finds(v, k, entry.value, ~entry.failed)
  <2>1. Advance(c, u)
    BY <1>1, <1>2, <1>3, <1>5, <1>7 DEF Read, Finds
  <2>2. u \in Visit /\ u.op = v.op /\ u.at = v.at
    BY <1>4, <1>6, FindsTyped
  <2>3. u.who = v.who /\ u.steady = (v.steady /\ ~entry.failed)
    BY <1>4 DEF Finds, Visit
  <2>4. u.seen[k] = entry.value
    BY <1>4 DEF Finds, Visit, Store, Keys
  <2> HIDE DEF u
  <2>5. ASSUME v.op = "visit", u.steady PROVE v.steady /\ u.seen[k] = store[k]
    <3>1. v.steady /\ ~entry.failed /\ age[k] = Ttl + Slow
      BY <1>1, <1>4, <2>3, <2>5 DEF SettledInv, Standing
    <3>2. Current(entry, k)
      BY <1>4, <1>5 DEF RulesInv, CopiesInv
    <3> QED
      BY <1>6, <1>7, <2>4, <3>1, <3>2, RulesAssumption DEF Current
  <2> QED
    BY <1>1, <1>2, <1>3, <2>1, <2>2, <2>3, <2>5, AdvanceSettled
<1>8. CASE ~(entry.fresh > 0)
  <2>1. PICK f \in {v.failed, TRUE}, x \in {store[k], Defaults[k]} :
          visits' = [visits EXCEPT ![c] = Fetches(v, k, x, f)]
    <3>1. [v EXCEPT !.wait = "get", !.seen[k] = store[k]] = Fetches(v, k, store[k], v.failed)
      BY <1>4 DEF Visit, Fetches
    <3>2. \/ visits' = [visits EXCEPT ![c] = [v EXCEPT !.wait = "get", !.seen[k] = store[k]]]
          \/ visits' = [visits EXCEPT ![c] = Fetches(v, k, Defaults[k], TRUE)]
      BY <1>1, <1>2, <1>3, <1>5, <1>8 DEF Read, Fetches
    <3> QED
      BY <3>1, <3>2
  <2> DEFINE w == Fetches(v, k, x, f)
  <2>2. w.op = v.op /\ w.at = v.at /\ w.who = v.who /\ w.steady = v.steady
    BY <1>4 DEF Visit, Fetches
  <2> HIDE DEF w
  <2>3. \A d \in Slots : visits'[d] = IF d = c THEN w ELSE visits[d]
    BY <2>1 DEF w, RulesInv, ShapeInv
  <2>4. UNCHANGED wrong
    BY <1>1, <1>2, <1>3, <1>5, <1>8 DEF Read
  <2> QED
    BY <1>1, <1>2, <1>4, <2>2, <2>3, <2>4, KeptSettled
<1> QED
  BY <1>7, <1>8

LEMMA FetchedSettled ==
  ASSUME RulesInv, SettledInv, NEW c \in Slots, Fetched(c)
  PROVE  SettledInv'
PROOF
<1>1. PICK v \in Served : v = visits[c]
  BY DEF Fetched, RulesInv, ShapeInv
<1>2. v # Nobody /\ v.wait = "get" /\ Step(c) # "put" /\ UNCHANGED <<store, age>>
  BY <1>1 DEF Fetched, RulesInv, ShapeInv
<1>3. PICK k \in Keys : k = KeyOf(Step(c))
  BY <1>1, <1>2, Steps
<1>4. v \in Visit /\ v.slow \in 0 .. Slow /\ v.failed \in BOOLEAN
  BY DEF Served, Visit
<1> DEFINE u == [v EXCEPT !.failed = FALSE, !.steady = @ /\ ~v.failed]
<1>5. Advance(c, u)
  BY <1>1 DEF Fetched
<1>6. /\ u \in Visit /\ u.op = v.op /\ u.at = v.at /\ u.who = v.who
      /\ u.steady = (v.steady /\ ~v.failed) /\ u.seen = v.seen
  BY <1>4 DEF Visit
<1> HIDE DEF u
<1>7. ASSUME v.op = "visit", u.steady PROVE v.steady /\ u.seen[k] = store[k]
  <2>1. v.steady /\ ~v.failed /\ age[k] = Ttl + Slow
    BY <1>1, <1>2, <1>6, <1>7 DEF SettledInv, Standing
  <2>2. Brings(v, k)
    BY <1>1, <1>2, <1>3 DEF RulesInv, FlightsInv, Brought
  <2> QED
    BY <1>2, <1>4, <1>6, <2>1, <2>2, RulesAssumption DEF Brings
<1> QED
  BY <1>1, <1>2, <1>3, <1>5, <1>6, <1>7, AdvanceSettled

\* A put that changes a record leaves no visit steady.
LEMMA PutSettled ==
  ASSUME RulesInv, SettledInv, NEW c \in Slots, Put(c)
  PROVE  SettledInv'
PROOF
<1>1. PICK v \in Served : v = visits[c]
  BY DEF Put, RulesInv, ShapeInv
<1>2. PICK s \in Saves(v) :
        /\ store' = s
        /\ age' = [k \in Keys |-> IF s[k] = store[k] THEN age[k] ELSE 0]
        /\ visits' = [d \in Slots |->
             IF d = c THEN [v EXCEPT !.wait = "put", !.seen = s]
             ELSE IF s = store THEN visits[d] ELSE Unsteady(visits[d])]
  BY <1>1, ZenonT(40) DEF Put
<1>3. v.op # "visit" /\ v \in Visit /\ UNCHANGED wrong
  BY <1>1, Steps DEF Put, Served
<1>4. ASSUME NEW d \in Slots, visits'[d] # Nobody PROVE Standing(visits[d])'
  <2>1. CASE d = c
    <3> DEFINE w == [v EXCEPT !.wait = "put", !.seen = s]
    <3>1. visits'[d] = w /\ w.op # "visit"
      BY <1>2, <1>3, <2>1 DEF Visit
    <3> QED
      BY <3>1 DEF Standing
  <2>2. CASE d # c /\ s = store
    <3>1. visits'[d] = visits[d] /\ store' = store /\ \A k \in Keys : age'[k] = age[k]
      BY <1>2, <2>2
    <3> QED
      BY <1>4, <3>1 DEF SettledInv, Standing
  <2>3. CASE d # c /\ s # store
    <3>1. visits'[d] = Unsteady(visits[d]) /\ visits[d] \in Served
      BY <1>2, <1>4, <2>3 DEF RulesInv, ShapeInv, Unsteady
    <3>2. ~visits'[d].steady
      BY <3>1, NobodyOut DEF Unsteady, Served, Visit
    <3> QED
      BY <3>2 DEF Standing
  <2> QED
    BY <2>1, <2>2, <2>3
<1> QED
  BY <1>3, <1>4 DEF SettledInv

\* As time passes nothing changes for a steady visit but the block that runs on.
LEMMA TickSettled ==
  ASSUME RulesInv, SettledInv, RulesTick
  PROVE  SettledInv'
PROOF
<1>1. /\ store' = Older(store) /\ wrong' = wrong /\ store \in Store
      /\ age' = [k \in Keys |-> IF age[k] = Ttl + Slow THEN age[k] ELSE age[k] + 1]
  BY DEF RulesTick, RulesInv, ShapeInv
<1>2. store'.bypass = store.bypass /\ (store.geo > 1 => store'.geo > 0)
  BY <1>1 DEF Older, Store, Geo
<1>3. \A k \in Keys : age[k] = Ttl + Slow => age'[k] = Ttl + Slow
  BY <1>1
<1>4. ASSUME NEW c \in Slots, visits'[c] # Nobody
      PROVE  Standing(visits[c])'
  <2>1. visits[c] # Nobody /\ visits[c] \in Visit
    BY <1>4 DEF RulesTick, RulesInv, ShapeInv, Served
  <2> DEFINE w == [visits[c] EXCEPT !.slow = IF visits[c].wait = "no" THEN 0 ELSE @ + 1,
                                    !.seen = Older(@), !.steady = @ /\ store.geo # 1]
  <2>2. visits'[c] = w
    BY <2>1 DEF RulesTick
  <2>3. /\ w.op = visits[c].op /\ w.at = visits[c].at /\ w.who = visits[c].who
        /\ w.steady => visits[c].steady /\ store.geo # 1
    BY <2>1 DEF Visit
  <2> HIDE DEF w
  <2>4. Standing(visits[c]) /\ store.geo \in Nat
    BY <1>1, <2>1 DEF SettledInv, Store, Geo
  <2>5. visits[c].at = 3 /\ w.op = "visit" /\ w.steady => store.geo > 1
    BY <2>3, <2>4 DEF Standing
  <2> QED
    BY <1>2, <1>3, <2>2, <2>3, <2>4, <2>5 DEF Standing
<1> QED
  BY <1>1, <1>4 DEF SettledInv

LEMMA NextSettled == RulesInv /\ SettledInv /\ [RulesNext]_rulesVars => SettledInv'
PROOF
<1> SUFFICES ASSUME RulesInv, SettledInv, [RulesNext]_rulesVars
             PROVE  SettledInv'
  OBVIOUS
<1>1. ASSUME NEW c \in Slots, Stored(c) PROVE SettledInv'
  <2>1. UNCHANGED <<store, age, wrong>> /\ visits' = [visits EXCEPT ![c] = Nobody]
    BY <1>1 DEF Stored, Settle
  <2>2. \A d \in Slots : visits'[d] # Nobody => visits'[d] = visits[d]
    BY <2>1 DEF RulesInv, ShapeInv
  <2> QED
    BY <2>1, <2>2, KeptSettled
<1>2. ASSUME NEW i \in Isolates, Evict(i) PROVE SettledInv'
  <2>1. UNCHANGED <<store, age, wrong>>
        /\ \A d \in Slots : visits'[d] # Nobody => visits'[d] = visits[d]
    BY <1>2 DEF Evict
  <2> QED
    BY <2>1, KeptSettled
<1>3. CASE RulesNext
  BY <1>1, <1>2, <1>3, ArriveSettled, ReadSettled, FetchedSettled, PutSettled, TickSettled
  DEF RulesNext
<1>4. CASE UNCHANGED rulesVars
  BY <1>4, KeptSettled DEF rulesVars
<1> QED
  BY <1>3, <1>4

\* A visit on settled settings is decided as they say, whichever copies of whichever
\* isolate it meets, for any lifetime of a copy and any duration of a call
\* (resolveAccessGate, evaluateGeoBlock).
THEOREM VerdictAlwaysSettled == RulesSpec => []SettledVerdict
PROOF
<1>1. RulesInit => SettledInv
  BY DEF RulesInit, SettledInv
<1>2. RulesSpec => [](RulesInv /\ SettledInv)
  BY <1>1, RulesInitInv, RulesNextInv, NextSettled, PTL DEF RulesSpec
<1>3. SettledInv => SettledVerdict
  BY DEF SettledInv, SettledVerdict
<1> QED
  BY <1>2, <1>3, PTL
=============================================================================
