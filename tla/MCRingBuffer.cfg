SPECIFICATION CallsSpec
CONSTANTS
  size = 4
  Bytes = {a, b}
INVARIANTS
  CallsAreMaximal
PROPERTIES
  CallsAreFifo
