SPECIFICATION Spec
CONSTANTS
  NFrames = 26
  Entries = 9
  ProgPages = {2, 6}
  HeapRoom = 3
INVARIANTS TypeOK FramesExact
PROPERTIES ForkCopies FailureUndone
