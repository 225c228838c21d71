SPECIFICATION ManagerSpec
CONSTANTS
  Values = {v1, v2, v3}
  MaxSize = 2
  SliceSize = 1
  Leftovers = {"ZZ", "QQ"}
  SecondChoices = {"SystemDefault"}
  LateRegistration = TRUE
  nullptr = nullptr
INVARIANT DtorsInReverse
PROPERTIES WarnedBeforeDamage CleanUpVerdict
CHECK_DEADLOCK FALSE
