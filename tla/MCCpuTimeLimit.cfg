SPECIFICATION Spec
CONSTANTS
  Interval = 18
  Slack = 1
  myExtraTime = 1
  Variabilities = {1, 4}
  ShortTimes = {1, 2}
  MaxTime = 24
  IntMax = 33
INVARIANT LimitIsKept
PROPERTIES NoLateCallIgnored AveragesExist
CHECK_DEADLOCK FALSE
