SPECIFICATION FairSpec
CONSTANTS
  MAX_COLS = 3
  MAX_ROWS = 2
  BootCols = 2
  BootRows = 2
  CHAR_W = 10
  CHAR_H = 10
  TAB = 2
  KeyBuf = 2
  Modes <- MCModes
  Keys = {"bs", "right", "up", "F12"}
  Strings <- MCStrings
  FnText <- MCFnText
  PanicText <- MCPanicText
  IrqAt = {"act", "put", "hlt", "erased", "move", "draw"}
INVARIANTS
  TypeOK
  WritesLand
  
PROPERTIES
  HiddenStays
  KeyHandled
  ImplementsTerminal
