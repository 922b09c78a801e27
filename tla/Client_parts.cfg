SPECIFICATION PartsSpec
CONSTANTS
  Members = {m1, m2}
  Readers = {r1, r2}
  Waiters = {w1}
  Closes = {k1}
  MaxNotes = 2
  Known = {q1}
  Unknown = {q2}
  PipeSize = 1
  MaxIter = 3
  Contents = {d1, d2}
  MaxToolCalls = 3
  MaxTouches = 2
  MaxApplies = 2
INVARIANTS
  ReapSound CursorSound ReplySound StepSound RepairSound UpgradeSound
PROPERTIES
  ReapEnds CursorEnds CloseReleases
\* Each part ends: the child is reaped, the run observed, the client closed, and the
\* step, the repair, the plan and its applications return.
CHECK_DEADLOCK FALSE
