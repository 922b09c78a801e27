SPECIFICATION WaitsSpec
CONSTANTS
  Calls = {c1, c2}
  None = None
  NEvents = 3
  StdoutSize = 1
INVARIANTS
  TypeOK SettlementToken CloseReaches TurnSound
PROPERTIES
  OneShot CallsEnd RunReturns
\* All calls may have returned, and so may Run.
CHECK_DEADLOCK FALSE
