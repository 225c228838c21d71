SPECIFICATION ConsoleSpec
CONSTANTS
  LineKinds = {"whole", "open", "close", "blank"}
  MaxLines = 2
  MaxFulls = 1
  MaxClicks = 1
  MaxQueue = 1
INVARIANTS TicksReadSafely FullCommandsWhole
PROPERTIES GuiResponds LinesAreRead
CHECK_DEADLOCK FALSE
