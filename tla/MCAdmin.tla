------------------------------- MODULE MCAdmin -------------------------------
(***************************************************************************)
(* The operators at their pages, on small instances: the records behind    *)
(* the setup wizard (CloudflareSetup), the application that leads through  *)
(* it and keeps an account of those records of its own (AdminApp), and the *)
(* plans and limits of the control room (ControlRoom; what it shows is in  *)
(* MCServices).                                                            *)
(* `part' says which one is at work in a behaviour.                        *)
(***************************************************************************)
EXTENDS CloudflareSetup, AdminApp, ControlRoom, TLC

CONSTANT d1 \* a desk

VARIABLE part

\* The requests of the control room are named like the wizards.
Alike == Permutations(Wizards) \cup Permutations(Zones) \cup Permutations(Widgets)

\* Plans and limits changed from two desks at once, or limits from one that changes its
\* queue meanwhile.
Sent == [plans |-> {"change"}, limits |-> {"limits", "setLimits"},
         moves |-> {"switch", "limits", "setLimits"}]
From == [plans |-> Desks, limits |-> Desks, moves |-> {d1}]

Within ==
  \A c \in {r \in Slots : requests'[r] # NoRequest} :
    requests'[c].op \in Sent[part] /\ requests'[c].desk \in From[part]

AdminInit ==
  /\ part \in {"setup", "app"} \cup DOMAIN Sent
  /\ SetupInit /\ AppInit /\ ControlInit
  /\ part # "setup" => pending = Empty

AdminNext ==
  \/ /\ part = "setup" /\ SetupNext
     /\ UNCHANGED <<appVars, controlVars, part>>
  \/ /\ part = "app" /\ AppNext
     /\ UNCHANGED <<setupVars, controlVars, part>>
  \/ /\ part \in DOMAIN Sent /\ ControlNext /\ Within
     /\ UNCHANGED <<setupVars, appVars, part>>

AdminSpec ==
  AdminInit /\ [][AdminNext]_<<setupVars, appVars, controlVars, part>>

\* The records, the pages and the requests keep their shape.
AdminTypeOK == SetupTypeOK /\ AppTypeOK /\ ControlTypeOK
=============================================================================
