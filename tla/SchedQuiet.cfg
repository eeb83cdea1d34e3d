SPECIFICATION FairSpec
CONSTANTS
  MaxTask = 3
  MaxPid = 3
  TickMod = 2
  KeyBuf = 2
  Keys = {"char", "panic"}
  Calls = {"exit", "fork", "wait", "sleep", "exec", "read"}
  SleepTicks = {1}
  Codes = {0}
  Oom = TRUE
  IrqAt = {"pick", "poll", "hlt"}
INVARIANTS
  TypeOK
  OnlyRunnableRuns
  StackSafe
  UserInOwnSpace
  SleepersKeepContext
PROPERTIES
  ZombieStays
  RoundRobin
  SleeperReturns
CHECK_DEADLOCK FALSE
