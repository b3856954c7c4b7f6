--------------------------- MODULE QueueRoomLine ---------------------------
(***************************************************************************)
(* QueueRoom implements AdmissionLine: the line is the waiting rows, each  *)
(* with the sequence number it drew, the seats are the admitted rows.      *)
(***************************************************************************)
EXTENDS QueueRoom

Arrivals(S) == {[who |-> v, number |-> row[v].seq] : v \in S}

Line == INSTANCE AdmissionLine WITH
  line    <- Arrivals(Waiting(row)),
  seats   <- Arrivals(Admitted(row)),
  number  <- nextSeq,
  ordered <- settings.mode = "queue"

\* Every step of the room is a step of the promised line or leaves it alone:
\* no handler calls somebody out of turn in Queue Mode, gives two arrivals the
\* same number or an arrival a lower one, seats anybody beyond the capacity,
\* gives a returning visitor its old place back, or gives one visitor two
\* places.
ImplementsLine == Line!LineSpec
=============================================================================
