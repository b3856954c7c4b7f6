------------------------- MODULE MCWaitingRoomClient -------------------------
(***************************************************************************)
(* Small instances of WaitingRoomClient.                                   *)
(***************************************************************************)
EXTENDS WaitingRoomClient

\* A room that calls visitors to click, one that does not for a visitor with an id who
\* may be turned away, a challenge before each join, and polls at a fixed pace.
Plain == [fixed |-> FALSE, sitekey |-> FALSE, click |-> TRUE, known |-> FALSE, abroad |-> FALSE]
SomeSetups ==
  {Plain, [Plain EXCEPT !.known = TRUE, !.click = FALSE, !.abroad = TRUE],
   [Plain EXCEPT !.sitekey = TRUE], [Plain EXCEPT !.fixed = TRUE, !.click = FALSE]}
=============================================================================
