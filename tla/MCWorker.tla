------------------------------- MODULE MCWorker -------------------------------
(***************************************************************************)
(* What the worker keeps outside a queue's room, on small instances: the   *)
(* access rules an isolate remembers, the tokens it signs, and the         *)
(* simulator of the load tests.  They share no state; `part' says which    *)
(* one is at work in a behaviour.                                          *)
(***************************************************************************)
EXTENDS AccessRules, AdmissionTokens, QueueSimulator, TLC

VARIABLE part

\* The requests of the tokens and the slots of the visits are one set of names, and
\* the simulated visitors are named after both.
Alike == Permutations(Isolates) \cup Permutations(Slots)

tokenVars == vars

\* Those who meet two of the rules, and one who meets none.
Visiting ==
  \A c \in {d \in Slots : visits'[d] # Nobody} :
    visits'[c].who \in {[office |-> w[1], foreign |-> w[2], open |-> w[3]] :
                          w \in {<<TRUE, TRUE, FALSE>>, <<FALSE, TRUE, TRUE>>,
                                 <<TRUE, FALSE, TRUE>>, <<FALSE, FALSE, FALSE>>}}

WorkerInit ==
  /\ part \in {"rules", "tokens", "simulator"}
  /\ RulesInit /\ Init /\ SimulatorInit
  /\ part # "rules" => store = Defaults
  /\ part # "simulator" => mode = "queue"

WorkerNext ==
  \/ /\ part = "rules" /\ RulesNext /\ Visiting
     /\ UNCHANGED <<tokenVars, simulatorVars, part>>
  \/ /\ part = "tokens" /\ Next
     /\ UNCHANGED <<rulesVars, simulatorVars, part>>
  \/ /\ part = "simulator" /\ SimulatorNext
     /\ UNCHANGED <<rulesVars, tokenVars, part>>

WorkerSpec ==
  WorkerInit
  /\ [][WorkerNext]_<<rulesVars, tokenVars, simulatorVars, part>>

\* The settings, their copies and the visits keep their shape, and the simulated site
\* its capacity.
WorkerTypeOK == RulesTypeOK /\ SimulatorTypeOK
=============================================================================
