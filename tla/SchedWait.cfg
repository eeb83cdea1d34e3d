SPECIFICATION Spec
CONSTANTS
  MaxTask = 3
  MaxPid = 4
  TickMod = 2
  KeyBuf = 2
  Keys = {}
  Calls = {"fork", "exit", "wait"}
  SleepTicks = {1}
  Codes = {0}
  Oom = FALSE
  IrqAt = {"pick", "poll", "hlt"}
PROPERTIES
  WaitCollectsOwnChild
