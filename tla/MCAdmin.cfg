SPECIFICATION AdminSpec
CONSTANTS
  Wizards = {r1, r2}
  Zones = {z1, z2}
  Widgets = {w1, w2}
  None = None
  MaxWizards = 3
  Invited = TRUE
  MaxReleases = 1
  MaxLost = 1
  d1 = d1
  Desks = {d1, d2}
  Queues = {q1, q2}
  Slots = {r1, r2}
  First = q1
  Times = {1}
  Bounds = {1, 2}
  MaxSaves = 2
SYMMETRY Alike
INVARIANTS
  AdminTypeOK
  LinkProxied
  WidgetUsable
  PageEarned
  DoneAndReviewed
  ScheduleOrdered
CHECK_DEADLOCK FALSE
