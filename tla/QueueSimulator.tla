---------------------------- MODULE QueueSimulator ----------------------------
(***************************************************************************)
(* The in-memory queue of the load tests (src/queue/simulator.ts), meant   *)
(* to mirror the Durable Object: a map of visitors beside a deque of the   *)
(* ids that wait.  Whoever leaves the line stays in the deque until its    *)
(* entry comes to the head, where an entry counts if its visitor waits.    *)
(***************************************************************************)
EXTENDS Naturals, FiniteSets, Sequences

CONSTANTS
  Ids,      \* visitors
  Cap,      \* maxConcurrentUsers
  Budget,   \* the most that one tick may admit
  Slack,    \* taken entries kept before the deque is cut
  MaxJoins  \* bound: joins that make a new visitor

ASSUME SimulatorAssumption ==
  IsFiniteSet(Ids) /\ Cap \in Nat \ {0} /\ Budget \in Nat \ {0} /\ Slack \in Nat /\ MaxJoins \in Nat

VARIABLES
  mode,       \* config.admissionMode
  visitors,   \* the map; "gone" is not in it
  places,     \* the sequence of each visitor, 0 when it has none
  deque,      \* waiting
  head,       \* waitingHead: entries of the deque that were taken
  inside,     \* admittedCount
  outside,    \* waitingCount
  joins,      \* sequence - 1
  returned    \* history: visitors that left the line and joined again

simulatorVars == <<mode, visitors, places, deque, head, inside, outside, joins, returned>>

SimulatorTypeOK ==
  /\ mode \in {"queue", "lottery"}
  /\ visitors \in [Ids -> {"gone", "waiting", "admitted"}]
  /\ places \in [Ids -> 0 .. MaxJoins]
  /\ Len(deque) <= MaxJoins /\ \A i \in DOMAIN deque : deque[i] \in Ids
  /\ head \in 0 .. Len(deque)
  /\ inside \in 0 .. Cap /\ outside \in 0 .. MaxJoins /\ joins \in 0 .. MaxJoins
  /\ returned \subseteq Ids

SimulatorInit ==
  /\ mode \in {"queue", "lottery"}
  /\ visitors = [v \in Ids |-> "gone"] /\ places = [v \in Ids |-> 0]
  /\ deque = << >> /\ head = 0
  /\ inside = 0 /\ outside = 0 /\ joins = 0
  /\ returned = {}

-----------------------------------------------------------------------------
With(status) == {v \in Ids : visitors[v] = status}

\* Entries of the deque that are read, and those among them that count.
Entries == head + 1 .. Len(deque)

\* Mutant: an entry counts while its visitor is in the map.
LiveKnown(line) == {i \in Entries : line[deque[i]] # "gone"}

Live(line) == {i \in Entries : line[deque[i]] = "waiting"}

\* splice: when one of the entries `s' has been taken and the taken ones are many by then,
\* they go.  The entries that have gone at the end of a fill.
Spliced(s) ==
  LET gone[i \in 0 .. Len(deque)] ==
        IF i = 0 THEN 0
        ELSE LET g == gone[i - 1] IN
             IF i \in s /\ i - g > Slack /\ (i - g) * 2 > Len(deque) - g THEN i ELSE g
  IN gone[Len(deque)]

\* The entries of the visitors that a fill of at most `limit' takes: the first that
\* count and belong to different visitors, or in a lottery any.
FirstLive(line) == {i \in Live(line) : \A j \in Live(line) : deque[j] = deque[i] => i <= j}

\* Mutant: everybody who waits is let in.
FillSizeAll(n, seats) == n

FillSize(n, seats) == IF n < seats THEN n ELSE seats

\* Mutant: the line is drawn from as the lottery is.
PicksAny(line, seats) ==
  LET first == FirstLive(line) IN
  {s \in SUBSET first : Cardinality(s) = FillSize(Cardinality(first), seats)}

Picks(line, seats) ==
  LET first == FirstLive(line) IN
  {s \in SUBSET first :
     /\ Cardinality(s) = FillSize(Cardinality(first), seats)
     /\ mode = "queue" => \A i \in s, j \in first \ s : i < j}

\* fillSlots: visitors become `line' and the seats taken become `taken'.
\* A fill that finds fewer visitors than seats has read the deque to its end.
FillSlots(line, taken, limit) ==
  LET free == Cap - taken
      seats == IF limit < free THEN limit ELSE free IN
  \E s \in Picks(line, seats) :
    LET read == IF mode = "lottery" \/ seats = 0 THEN head
                ELSE IF Cardinality(s) < seats THEN Len(deque)
                ELSE CHOOSE i \in s : \A j \in s : j <= i
        gone == IF mode = "lottery" THEN 0 ELSE Spliced(s) IN
    /\ visitors' = [v \in Ids |-> IF \E i \in s : deque[i] = v THEN "admitted" ELSE line[v]]
    /\ inside' = taken + Cardinality(s)
    /\ outside' = outside - Cardinality(s)
    /\ deque' = SubSeq(deque, gone + 1, Len(deque)) /\ head' = read - gone

-----------------------------------------------------------------------------
Join(v) ==
  /\ visitors[v] = "gone" /\ joins < MaxJoins
  /\ joins' = joins + 1 /\ places' = [places EXCEPT ![v] = joins + 1]
  /\ IF inside < Cap
     THEN /\ visitors' = [visitors EXCEPT ![v] = "admitted"]
          /\ inside' = inside + 1
          /\ UNCHANGED <<deque, outside>>
     ELSE /\ visitors' = [visitors EXCEPT ![v] = "waiting"]
          /\ deque' = Append(deque, v) /\ outside' = outside + 1
          /\ UNCHANGED inside
  /\ returned' = IF \E i \in Entries : deque[i] = v THEN returned \cup {v} ELSE returned
  /\ UNCHANGED <<mode, head>>

LeaveSimulator(v) ==
  /\ visitors[v] # "gone"
  /\ LET line == [visitors EXCEPT ![v] = "gone"] IN
     IF visitors[v] = "admitted"
     THEN FillSlots(line, inside - 1, 1)
     ELSE visitors' = line /\ outside' = outside - 1 /\ UNCHANGED <<deque, head, inside>>
  /\ UNCHANGED <<mode, places, joins, returned>>

\* tick: the fraction that the budget leaves over is abstracted to any budget.
TickSimulator ==
  /\ \E budget \in 0 .. Budget : FillSlots(visitors, inside, budget)
  /\ UNCHANGED <<mode, places, joins, returned>>

SimulatorNext == TickSimulator \/ \E v \in Ids : Join(v) \/ LeaveSimulator(v)
SimulatorSpec == SimulatorInit /\ [][SimulatorNext]_simulatorVars

-----------------------------------------------------------------------------
\* The counters that stand for the line and the site say what the map says, although
\* a visitor who left and came back is in the deque twice; and nobody waits while a seat
\* is free, so that a newcomer whom join lets straight in passes nobody (join, leave,
\* fillSlots, pollWaiting).
CountsExact ==
  /\ inside = Cardinality(With("admitted")) /\ outside = Cardinality(With("waiting"))
  /\ inside < Cap => outside = 0

\* Queue Mode admits the visitors that waited through in the order they came, whoever
\* left or came back between them (pollWaiting).
ServedInOrder ==
  [][mode = "queue" =>
       \A v, w \in With("waiting") \ returned :
         places[v] < places[w] /\ visitors'[w] = "admitted" =>
            visitors'[v] # "waiting"]_simulatorVars
=============================================================================
