SPECIFICATION Spec
CONSTANTS
  MaxTask = 1
  MaxPid = 1
  TickMod = 2
  KeyBuf = 2
  Keys = {}
  Calls = {"exec"}
  SleepTicks = {1}
  Codes = {0}
  Oom = TRUE
  IrqAt = {"pick", "poll", "hlt"}
INVARIANTS
  ExecFailReturns
