SPECIFICATION Spec
CONSTANTS
  KEYBUF_SIZE = 3
  Keys <- MCKeys
INVARIANTS TypeOK ModifiersFollow PollSafe
PROPERTIES ImplementsQueue
