---------------------------- MODULE MCQueueRoom ----------------------------
(***************************************************************************)
(* Small instances of QueueRoom.  One second is one tick; the periods keep *)
(* the order they have in the code: the active tick is the shortest alarm  *)
(* interval, the hold is shorter than the token lifetime.                  *)
(***************************************************************************)
EXTENDS QueueRoomLine, TLC

CONSTANTS v1, v2, v3

AnyVisitor == Permutations(Visitor)

\* All ids share their check-in slots, so that they are interchangeable.
SameHash == [v \in Visitor |-> 0]

Plain == [paused |-> FALSE, opensAt |-> 0, closesAt |-> 0, mode |-> "queue",
          click |-> FALSE, hold |-> 1, grace |-> 1, rate |-> 1,
          maxWaiting |-> 3, healthOn |-> FALSE, overrideUntil |-> 0]

\* A cap lowered below the length of the line, two rates, and Lottery Mode.
Roomy == [Plain EXCEPT !.maxWaiting = 2]
LineSettings ==
  {Roomy, [Roomy EXCEPT !.maxWaiting = 1], [Roomy EXCEPT !.rate = 2],
   [Roomy EXCEPT !.mode = "lottery"]}

\* Click-to-enter switched on and off, two holds and two grace periods.
Click == [Plain EXCEPT !.click = TRUE]
SeatSettings ==
  {Plain, Click, [Click EXCEPT !.hold = 2], [Click EXCEPT !.grace = 2]}

\* Pause, an opening instant, and the origin probe with and without override.  A whole
\* admission per tick is two halves, so that a slowed rate is one.
Halves == [Plain EXCEPT !.rate = 2]
GateSettings ==
  {Halves, [Halves EXCEPT !.paused = TRUE], [Halves EXCEPT !.opensAt = 2],
   [Halves EXCEPT !.healthOn = TRUE],
   [Halves EXCEPT !.healthOn = TRUE, !.overrideUntil = 3]}

\* The room with no operator at all.
OpenSettings == {Plain}
ClickSettings == {Click}
ClosingSettings == {[Plain EXCEPT !.closesAt = 3]}
=============================================================================
