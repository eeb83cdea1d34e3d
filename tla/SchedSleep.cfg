SPECIFICATION FairSpec
CONSTANTS
  MaxTask = 1
  MaxPid = 1
  TickMod = 4
  KeyBuf = 2
  Keys = {}
  Calls = {"sleep"}
  SleepTicks = {1}
  Codes = {0}
  Oom = FALSE
  IrqAt = {"pick", "poll", "hlt"}
PROPERTIES
  SleepReturns
