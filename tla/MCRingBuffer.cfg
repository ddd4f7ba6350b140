SPECIFICATION Spec
CONSTANTS
  RING_BUFLEN = 4
  Items = {a, b, c}
INVARIANTS ReadHasData
PROPERTY IsQueue
