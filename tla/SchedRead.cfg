SPECIFICATION TypingSpec
CONSTANTS
  MaxTask = 1
  MaxPid = 1
  TickMod = 2
  KeyBuf = 3
  Keys = {"char"}
  Calls = {"read"}
  SleepTicks = {1}
  Codes = {0}
  Oom = FALSE
  IrqAt = {"pick", "set", "go", "poll", "hlt"}
PROPERTIES
  ReadReturns
CHECK_DEADLOCK FALSE
