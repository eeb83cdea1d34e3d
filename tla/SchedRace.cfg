SPECIFICATION FairSpec
CONSTANTS
  MaxTask = 2
  MaxPid = 2
  TickMod = 2
  KeyBuf = 2
  Keys = {}
  Calls = {"fork", "exit"}
  SleepTicks = {1}
  Codes = {0}
  Oom = FALSE
  IrqAt = {"pick", "set", "go", "poll", "hlt"}
PROPERTIES
  RoundRobin
