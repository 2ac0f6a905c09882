SPECIFICATION Spec
CONSTANTS
  MaxLen = 3
  ServTimes <- MCServTimes
  Shares = {1, 3}
  LoadPercent = 80
  MaxResults = 6
  None = None
  Unit = 6
  MaxOnFly = 3
  MaxMissed = 3
  Times = {1, 2, 5, 9}
  MaxTokens = 6
  NoTime = NoTime
  Precision = 2
  One = 1
  Reach = 4
  MaxPos = 20
  MaxUpper = 100
INVARIANTS
  TotalIsTheWindow
  AIMDWindow
  PushStream
  AverageStaysInRange
  OneTokenBeforeFirstResult
  SearchBrackets
PROPERTIES
  SearchFinds
CHECK_DEADLOCK FALSE
