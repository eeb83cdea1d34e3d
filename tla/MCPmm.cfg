SPECIFICATION Spec
CONSTANTS
  PageSize = 4
  MaxPages = 8
  AddrMod = 64
  MaxCount = 3
  Boots <- MCBoots
INVARIANTS
  TypeOK
  FreeCountExact
  BitmapExact
  ReservedSafe
PROPERTIES
  NoDoubleAlloc
  NoFalseOom
