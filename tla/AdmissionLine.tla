--------------------------- MODULE AdmissionLine ---------------------------
(***************************************************************************)
(* What one waiting room promises, free of clocks, counters, caches and    *)
(* alarms: a line of arrivals, ordered by the number each of them drew,    *)
(* and a set of seats.  Whoever arrives draws the next number, so that a   *)
(* visitor that goes away and comes back is a new arrival at the end of    *)
(* the line and has lost its old place.                                    *)
(*                                                                         *)
(* Arrivals go away, the head of the line is called to the seats that are  *)
(* free, and newcomers join the end of the line or take a free seat.       *)
(* While the room is unordered (a lottery) anybody in line may be called.  *)
(***************************************************************************)
EXTENDS Naturals, FiniteSets

CONSTANTS Visitor, Capacity

VARIABLES
  line,     \* arrivals that wait, a set of [who, number]
  seats,    \* arrivals that hold a seat
  number,   \* the number the next arrival draws
  ordered   \* is the room in Queue Mode?

lineVars == <<line, seats, number, ordered>>

Present == line \cup seats

\* The arrivals of S stand before all the others of T.
Head(S, T) == \A a \in S, b \in T \ S : a.number < b.number

LineInit == line = {} /\ seats = {} /\ number = 1 /\ ordered \in BOOLEAN

\* Some arrivals go away and some of the rest are called to a seat.
Call(gone, called) ==
  /\ called \subseteq line \ gone
  /\ ordered => Head(called, line \ gone)
  /\ line' = (line \ gone) \ called
  /\ seats' = (seats \ gone) \cup called
  /\ called # {} => Cardinality(seats') <= Capacity
  /\ UNCHANGED <<number, ordered>>

\* Some arrivals go away and a number is drawn in vain.
Waste(gone) ==
  /\ line' = line \ gone
  /\ seats' = seats \ gone
  /\ number' = number + 1
  /\ UNCHANGED ordered

Newcomer(gone, v) ==
  /\ \A a \in Present \ gone : a.who # v
  /\ number' = number + 1
  /\ UNCHANGED ordered

\* A newcomer joins the end of the line.
QueueUp(gone, v) ==
  /\ Newcomer(gone, v)
  /\ line' = (line \ gone) \cup {[who |-> v, number |-> number]}
  /\ seats' = seats \ gone

\* A newcomer takes a free seat.
SitDown(gone, v) ==
  /\ Newcomer(gone, v)
  /\ line' = line \ gone
  /\ seats' = (seats \ gone) \cup {[who |-> v, number |-> number]}
  /\ Cardinality(seats') <= Capacity

SwitchMode == ordered' = ~ordered /\ UNCHANGED <<line, seats, number>>

LineNext ==
  \/ \E gone \in SUBSET Present :
       \/ \E called \in SUBSET (line \ gone) : Call(gone, called)
       \/ Waste(gone)
       \/ \E v \in Visitor : QueueUp(gone, v) \/ SitDown(gone, v)
  \/ SwitchMode

LineSpec == LineInit /\ [][LineNext]_lineVars
=============================================================================
