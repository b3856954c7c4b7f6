SPECIFICATION OperatorsSpec
CONSTANTS
  Requests = {r1, r2}
  Ids = {a, b, c}
  Names = {x, y}
  Invites = {i}
  MaxRequests = 3
  Observers = {r1, r2}
  Watched = {q1, q2}
  Shared = all
  Window = 1
  MaxCalls = 3
SYMMETRY Alike
INVARIANTS
  OperatorsTypeOK
  AccountsSound
  InvitesSound
  AlertsToldOnce
CHECK_DEADLOCK FALSE
