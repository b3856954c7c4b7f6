---------------------------- MODULE AdminAccounts ----------------------------
(***************************************************************************)
(* The administrators' accounts (src/admin/store.ts, invite-store.ts,      *)
(* src/routes/admin/auth.ts, team.ts).  All accounts are one record of a   *)
(* key-value store, all open invites are listed in another, and every      *)
(* request that changes one reads the whole record, computes, and puts the *)
(* whole record back; nothing keeps two requests apart, and a request may  *)
(* be cut short between any two of its calls.  A read returns the last     *)
(* value put, or it fails: readAdminConfig then gives no record, readIndex *)
(* an empty list and readInvite no invite, and the request goes on.        *)
(* Passwords, phrases and the names of queues are left out: a request may  *)
(* know them or not.                                                       *)
(***************************************************************************)
EXTENDS Naturals

CONSTANTS
  Requests,   \* requests in flight at a time
  Ids,        \* account ids, random in the code
  Names,      \* usernames
  Invites,    \* invite ids, random in the code
  MaxRequests \* bound: requests that begin

ASSUME AccountsAssumption == MaxRequests \in Nat

VARIABLES
  accounts,  \* admin:config, or Unclaimed
  invites,   \* admin:invite:<id>
  index,     \* admin:invite-index
  cookies,   \* ids that hold an admin session cookie
  requests,  \* the request each worker is serving
  begun,     \* requests that have begun
  used,      \* history: account ids given out
  spent,     \* history: invites consumed, revoked, reset or expired
  torn       \* history: an index was put of which the last one was not read in
             \* full, or the creation of an invite was cut short

accountsVars ==
  <<accounts, invites, index, cookies, requests, begun, used, spent, torn>>

Unclaimed == [claimed |-> FALSE]

\* `tos': the current terms are accepted.
User == [id: Ids, name: Names, tos: BOOLEAN]

Record == [claimed: {TRUE}, done: BOOLEAN, users: SUBSET User]

\* What is asked: `actor' is the subject of the request's cookie.
Asked ==
  [op: {"finish", "password", "tos", "remember", "list"}, actor: Ids]
    \cup [op: {"create", "revoke"}, actor: Ids, invite: Invites]
    \cup [op: {"remove"}, actor: Ids, target: Ids]
    \cup [op: {"recover"}, target: Ids]
    \cup [op: {"claim"}, name: Names]
    \cup [op: {"accept", "drop"}, name: Names, invite: Invites]
    \cup [op: {"reset"}]

Free == [q |-> [op |-> "none"], step |-> "gate", copy |-> Unclaimed, ids |-> {}, gone |-> {}]

\* A request in flight: `copy' is what it has read of admin:config, `ids' of the
\* index, and `gone' the invites that were spent when it began.
Request ==
  [q: Asked,
   step: {"gate", "clear", "put", "find", "delete", "list", "relist", "read", "write"},
   copy: Record \cup {Unclaimed}, ids: SUBSET Invites, gone: SUBSET Invites]

-----------------------------------------------------------------------------
(***************************************************************************)
(* What the handlers ask of the record.                                    *)
(***************************************************************************)
UserOf(record, id) == IF record.claimed THEN {u \in record.users : u.id = id} ELSE {}

\* requireAdminSession: the cookie's subject is looked up, unless allowStaleTos.
Session(q) ==
  q.actor \in cookies /\ (q.op # "tos" => \E u \in UserOf(accounts, q.actor) : u.tos)

\* What a request checks, in reads of its own, before it does anything.
Permitted(q) ==
  CASE q.op = "claim" -> ~accounts.claimed
    [] q.op = "finish" -> accounts.claimed /\ Session(q) /\ ~accounts.done
    [] q.op = "accept" -> accounts.claimed /\ accounts.done
    [] q.op = "recover" -> UserOf(accounts, q.target) # {}
    [] q.op = "tos" -> Session(q) /\ UserOf(accounts, q.actor) # {}
    [] q.op = "remove" -> Session(q) /\ UserOf(accounts, q.target) # {}
    [] q.op = "reset" -> TRUE
    [] OTHER -> Session(q)

\* A check whose read fails finds an unclaimed Worker: that refuses all but
\* handleAdminClaim, and handleAdminSetup at its first check.
Misjudged(q) == q.op = "claim" \/ (q.op = "finish" /\ accounts.claimed /\ Session(q))

\* Mutant: the length of the list of users is not looked at.
RemovableLast(q, record) == q.target # q.actor /\ UserOf(record, q.target) # {}

\* removeAdminUser: not oneself, not the last, and somebody.
Removable(q, record) ==
  /\ q.target # q.actor
  /\ \E u, v \in record.users : u # v
  /\ UserOf(record, q.target) # {}

\* addAdminUser.
Addable(q, record) == \A u \in record.users : u.name # q.name

\* The refusals of a store function, on the copy that it will write back.
Applies(q, record) ==
  /\ record.claimed
  /\ CASE q.op = "accept" -> Addable(q, record)
       [] q.op = "remove" -> Removable(q, record)
       [] q.op \in {"finish", "remember"} -> TRUE
       [] q.op = "recover" -> UserOf(record, q.target) # {}
       [] OTHER -> UserOf(record, q.actor) # {}

Accepted(u, q) == [u EXCEPT !.tos = @ \/ u.id = q.actor]

\* The record a request puts: its copy with one change.  A new password, a new
\* phrase and a queue not known before are changes that the model does not show.
Changed(q, copy) ==
  CASE q.op = "tos" -> [copy EXCEPT !.users = {Accepted(u, q) : u \in @}]
    [] q.op = "remove" -> [copy EXCEPT !.users = {u \in @ : u.id # q.target}]
    [] q.op = "finish" -> [copy EXCEPT !.done = TRUE]
    [] OTHER -> copy

-----------------------------------------------------------------------------
(***************************************************************************)
(* The steps of a request; each is at most one call of the store.          *)
(***************************************************************************)
Updates == {"finish", "password", "recover", "tos", "remove", "remember"}
Listings == {"create", "accept", "drop", "revoke"}

At(r, ops, step) == requests[r].q.op \in ops /\ requests[r].step = step
Goto(r, step) == requests' = [requests EXCEPT ![r].step = step]
End(r) == requests' = [requests EXCEPT ![r] = Free]

\* A request arrives.  MaxRequests bounds their number in the instance.
Arrive(r, q) ==
  /\ requests[r] = Free /\ begun < MaxRequests
  /\ requests' = [requests EXCEPT
       ![r] = [Free EXCEPT !.q = q, !.gone = IF q.op = "accept" THEN spent ELSE {}]]
  /\ begun' = begun + 1
  /\ UNCHANGED <<accounts, invites, index, cookies, used, spent, torn>>

After(op) ==
  CASE op = "claim" -> "write" [] op = "accept" -> "find" [] op = "create" -> "put"
    [] op = "revoke" -> "delete" [] op = "list" -> "list" [] op = "reset" -> "clear"
    [] OTHER -> "read"

\* The checks before the first effect; a refused request ends here.
Gate(r) ==
  /\ requests[r] # Free /\ requests[r].step = "gate"
  /\ \/ /\ Permitted(requests[r].q) \/ Misjudged(requests[r].q)
        /\ Goto(r, After(requests[r].q.op))
     \/ End(r)
  /\ UNCHANGED <<accounts, invites, index, cookies, begun, used, spent, torn>>

\* The read of a store function, whose value its put goes back to.
Read(r) ==
  /\ At(r, Updates \cup {"accept"}, "read")
  /\ IF Applies(requests[r].q, accounts)
     THEN requests' = [requests EXCEPT ![r].copy = accounts, ![r].step = "write"]
     ELSE End(r)
  /\ UNCHANGED <<accounts, invites, index, cookies, begun, used, spent, torn>>

\* The put of an update; recovering also signs a session.
Update(r) ==
  /\ At(r, Updates, "write")
  /\ accounts' = Changed(requests[r].q, requests[r].copy)
  /\ cookies' = cookies \cup (IF requests[r].q.op = "recover" THEN {requests[r].q.target} ELSE {})
  /\ End(r)
  /\ UNCHANGED <<invites, index, begun, used, spent, torn>>

\* The put of handleAdminClaim, whatever is stored by then.
Claim(r, id) ==
  /\ At(r, {"claim"}, "write") /\ id \notin used
  /\ accounts' = [claimed |-> TRUE, done |-> FALSE,
                  users |-> {[id |-> id, name |-> requests[r].q.name, tos |-> TRUE]}]
  /\ used' = used \cup {id}
  /\ cookies' = cookies \cup {id}
  /\ End(r)
  /\ UNCHANGED <<invites, index, begun, spent, torn>>

\* The put of addAdminUser, and the session it is answered with.
Accept(r, id) ==
  /\ At(r, {"accept"}, "write") /\ id \notin used
  /\ accounts' = [requests[r].copy EXCEPT !.users =
                    @ \cup {[id |-> id, name |-> requests[r].q.name, tos |-> TRUE]}]
  /\ used' = used \cup {id}
  /\ cookies' = cookies \cup {id}
  /\ End(r)
  /\ UNCHANGED <<invites, index, begun, spent, torn>>

\* handleAdminLogin: one read, and a session.
Login(id) ==
  /\ id \notin cookies /\ UserOf(accounts, id) # {}
  /\ cookies' = cookies \cup {id}
  /\ UNCHANGED <<accounts, invites, index, requests, begun, used, spent, torn>>

\* handleAdminLogout, or the end of the twelve hours.
Logout(id) ==
  /\ id \in cookies
  /\ cookies' = cookies \ {id}
  /\ UNCHANGED <<accounts, invites, index, requests, begun, used, spent, torn>>

-----------------------------------------------------------------------------
(***************************************************************************)
(* Invites.                                                                *)
(***************************************************************************)
\* createInvite: the invite is put before it is listed; its id is new.
PutInvite(r) ==
  /\ At(r, {"create"}, "put")
  /\ invites[requests[r].q.invite] = "none" /\ requests[r].q.invite \notin spent
  /\ invites' = [invites EXCEPT ![requests[r].q.invite] = "open"]
  /\ Goto(r, "list")
  /\ UNCHANGED <<accounts, index, cookies, begun, used, spent, torn>>

\* Mutant: the expiry of an invite is left to the store.
FoundStored(i) == IF invites[i] = "none" THEN "none" ELSE "open"

Found(i) == invites[i]

\* consumeInvite, the read.  An invite that has expired but is still stored is
\* removed, as if it were revoked ("drop"), and refused.  A read that fails finds
\* none, and the request ends (Abort).
FindInvite(r) ==
  /\ At(r, {"accept"}, "find")
  /\ LET found == Found(requests[r].q.invite)
     IN requests' = [requests EXCEPT ![r] =
          CASE found = "open" -> [@ EXCEPT !.step = "delete"]
            [] found = "expired" -> [@ EXCEPT !.q.op = "drop", !.step = "delete", !.gone = {}]
            [] OTHER -> Free]
  /\ UNCHANGED <<accounts, invites, index, cookies, begun, used, spent, torn>>

\* The delete of consumeInvite and of revokeInvite.
DeleteInvite(r) ==
  /\ At(r, {"accept", "drop", "revoke"}, "delete")
  /\ invites' = [invites EXCEPT ![requests[r].q.invite] = "none"]
  /\ spent' = spent \cup {requests[r].q.invite}
  /\ Goto(r, "list")
  /\ UNCHANGED <<accounts, index, cookies, begun, used, torn>>

\* readIndex, in addToIndex, removeFromIndex, listInvites and clearAllInvites: the
\* index, or an empty list if the read fails.
ReadIndex(r) ==
  /\ At(r, Listings \cup {"list", "reset"}, "list")
  /\ \E ids \in {index, {}} :
       requests' = [requests EXCEPT ![r].ids = ids, ![r].step = "relist"]
  /\ UNCHANGED <<accounts, invites, index, cookies, begun, used, spent, torn>>

\* `got': the invites that readInvite returned to listInvites.
Relisted(q, ids, got) ==
  CASE q.op = "create" -> ids \cup {q.invite}
    [] q.op = "list" -> {i \in got : invites[i] = "open"}
    [] q.op = "reset" -> {}
    [] OTHER -> ids \ {q.invite}

\* The put (or delete) of the index.  listInvites deletes the invites that have
\* expired, forgets those it could not read, and leaves a complete index alone;
\* clearAllInvites deletes those that the index named.
WriteIndex(r) ==
  /\ At(r, Listings \cup {"list", "reset"}, "relist")
  /\ LET q == requests[r].q
         ids == requests[r].ids
     IN \E got \in IF q.op = "list" THEN SUBSET ids ELSE {ids} :
          LET kept == q.op = "list" /\ Relisted(q, ids, got) = ids
              dropped == {i \in got : q.op = "reset" \/ (q.op = "list" /\ invites[i] = "expired")}
          IN /\ index' = IF kept THEN index ELSE Relisted(q, ids, got)
             /\ torn' = (torn \/ (~kept /\ index # ids) \/ \E i \in ids \ got : invites[i] = "open")
             /\ invites' = [i \in Invites |-> IF i \in dropped THEN "none" ELSE invites[i]]
             /\ spent' = spent \cup dropped
  /\ IF requests[r].q.op = "accept"
     THEN requests' = [requests EXCEPT ![r].step = "read", ![r].ids = {}]
     ELSE End(r)
  /\ UNCHANGED <<accounts, cookies, begun, used>>

\* 72 hours pass: the invite is refused, and some time later it is forgotten.
Expire(i) ==
  /\ invites[i] # "none"
  /\ invites' = [invites EXCEPT ![i] = IF @ = "open" THEN "expired" ELSE "none"]
  /\ spent' = spent \cup {i}
  /\ UNCHANGED <<accounts, index, cookies, requests, begun, used, torn>>

\* handleAdminReset, the first record it clears; the invites come after it.
ResetAccounts(r) ==
  /\ At(r, {"reset"}, "clear")
  /\ accounts' = Unclaimed
  /\ Goto(r, "list")
  /\ UNCHANGED <<invites, index, cookies, begun, used, spent, torn>>

\* The Worker is stopped, or a call of the store throws.
Abort(r) ==
  /\ requests[r].step # "gate"
  /\ torn' = (torn \/ (requests[r].q.op = "create" /\ requests[r].step # "put"))
  /\ End(r)
  /\ UNCHANGED <<accounts, invites, index, cookies, begun, used, spent>>

\* A fresh Worker, or one that is in use.
AccountsInit ==
  /\ accounts \in {Unclaimed} \cup
       {a \in Record : /\ a.users # {}
                       /\ \A u, v \in a.users : u.id = v.id \/ u.name = v.name => u = v}
  /\ invites = [i \in Invites |-> "none"]
  /\ index = {}
  /\ cookies = IF accounts.claimed THEN {u.id : u \in accounts.users} ELSE {}
  /\ used = cookies
  /\ requests = [r \in Requests |-> Free]
  /\ begun = 0 /\ spent = {} /\ torn = FALSE

AccountsNext ==
  \/ \E r \in Requests, q \in Asked : q.op # "drop" /\ Arrive(r, q)
  \/ \E r \in Requests :
       \/ Gate(r) \/ Read(r) \/ Update(r) \/ PutInvite(r) \/ FindInvite(r) \/ DeleteInvite(r)
       \/ ReadIndex(r) \/ WriteIndex(r) \/ ResetAccounts(r) \/ Abort(r)
       \/ \E id \in Ids : Claim(r, id) \/ Accept(r, id)
  \/ \E id \in Ids : Login(id) \/ Logout(id)
  \/ \E i \in Invites : Expire(i)

AccountsSpec == AccountsInit /\ [][AccountsNext]_accountsVars

-----------------------------------------------------------------------------
(***************************************************************************)
(* Properties.                                                             *)
(***************************************************************************)
\* Types.
AccountsTypeOK ==
  /\ accounts \in Record \cup {Unclaimed}
  /\ invites \in [Invites -> {"none", "open", "expired"}]
  /\ index \in SUBSET Invites
  /\ cookies \in SUBSET Ids /\ used \in SUBSET Ids
  /\ requests \in [Requests -> Request \cup {Free}]
  /\ begun \in 0 .. MaxRequests
  /\ spent \in SUBSET Invites
  /\ torn \in BOOLEAN

\* A claimed Worker always has an administrator, although removals check a copy
\* that another removal may have replaced, and removed ones may come back with
\* a copy that was read before; and two accounts never share a username, by which
\* they sign in, whatever copies are written over each other (removeAdminUser,
\* addAdminUser).
AccountsSound ==
  accounts.claimed =>
    /\ accounts.users # {}
    /\ \A u, v \in accounts.users : u.name = v.name => u = v

\* An open invite is in the index, where it can be seen, revoked and reset, or is
\* about to be, unless two updates of the index overlapped, a read of the invite
\* store failed before an index was put, or a creation was cut short (addToIndex,
\* removeFromIndex, listInvites): the invite is then good for its 72 hours, and
\* nothing lists it again.
Listed(i) ==
  \/ i \in index \/ torn
  \/ \E r \in Requests : /\ requests[r].q.op = "create" /\ requests[r].q.invite = i
                         /\ requests[r].step \in {"list", "relist"}

\* A request that began when an invite was consumed, revoked, reset or expired
\* does not get past the invite check with it (consumeInvite); and an open invite is
\* off the list only by an overlap, a failed read or a cut.
InvitesSound ==
  /\ \A r \in Requests :
       requests[r].q.op = "accept" /\ requests[r].step \notin {"gate", "find"}
         => requests[r].q.invite \notin requests[r].gone
  /\ \A i \in Invites : invites[i] = "open" => Listed(i)
=============================================================================
