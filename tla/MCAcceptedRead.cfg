SPECIFICATION RequestsSpec
CONSTANTS
  Names = {m1, m2}
  Tools = {claude_code}
  NoTool = NoTool
  MaxTime = 2
  DayLength = 2
  MaxRows = 4
  MaxHistory = 2
  NoRow = NoRow
  claude = claude
  NaN = NaN
  Absent = Absent
  NoInput = NoInput
INVARIANT AcceptedPointsRead
CHECK_DEADLOCK FALSE
