SPECIFICATION Spec
CONSTANTS
  MaxTask = 3
  MaxPid = 4
  TickMod = 2
  KeyBuf = 2
  Keys = {}
  Calls = {"exit", "fork", "wait", "sleep"}
  SleepTicks = {1}
  Codes = {0}
  Oom = FALSE
  IrqAt = {"pick", "set", "go", "poll", "hlt"}
INVARIANTS
  RingIntegrity
  ScansMissNobody
  CurrentLive
