----------------------------- MODULE MCOperators -----------------------------
(***************************************************************************)
(* Two records of the KV namespace that concurrent requests read and later *)
(* put back whole, on small instances: the administrator's accounts and    *)
(* invites, and the webhook settings with their latches.  They share no    *)
(* key; `part' says which one is at work in a behaviour, and of the        *)
(* settings, which calls are.                                              *)
(***************************************************************************)
EXTENDS AdminAccounts, AlertLatches, TLC

VARIABLE part

\* The observers are named like the requests.
Alike == Permutations(Requests) \cup Permutations(Ids) \cup Permutations(Names)
         \cup Permutations(Invites) \cup Permutations(Watched)

Parts == {"depth", "schedule", "crowded"}

\* The calls of a behaviour, and the conditions that change in it.
Called(p) ==
  CASE p = "depth" -> {"depth", "save", "notify"}
    [] p = "schedule" -> {"schedule", "test"}
    [] p = "crowded" -> {"unhealthy", "full"}

Within(p) ==
  /\ \A o \in Observers : calls'[o].op \in Called(p) \cup {"none"}
  /\ \A q \in Watched : holds'[q] \subseteq Called(p)

OperatorsInit ==
  /\ part \in Parts \cup {"accounts"}
  /\ AccountsInit /\ LatchesInit
  /\ part # "accounts" => ~accounts.claimed
  /\ webhooks.enabled /\ webhooks.all
  /\ part # "schedule" => ~webhooks.old

OperatorsNext ==
  \/ part = "accounts" /\ AccountsNext /\ UNCHANGED <<latchesVars, part>>
  \/ part \in Parts /\ LatchesNext /\ Within(part) /\ UNCHANGED <<accountsVars, part>>

OperatorsSpec ==
  OperatorsInit /\ [][OperatorsNext]_<<accountsVars, latchesVars, part>>

\* Both records and the calls about them keep their shape.
OperatorsTypeOK == AccountsTypeOK /\ LatchesTypeOK
=============================================================================
