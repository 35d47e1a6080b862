SPECIFICATION Spec
CONSTANTS
  NoItem = NoItem
  Item = {i1, i2}
  Limits = {0, 1, 2, 3}
  MaxQueued = 6
INVARIANTS ReadyBounded
PROPERTY IsOneStack
