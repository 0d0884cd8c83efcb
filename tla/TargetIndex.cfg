\* Up to three switches over two addresses besides the reserved ones: all hosts
\* and names that can collide, in every order.
SPECIFICATION Spec
CONSTANTS
  Addresses = {"empty", "internal", "a", "b"}
  MaxSwitches = 3
INVARIANTS
  NoMisattribution
  UniqueSpellingsResolve
CHECK_DEADLOCK FALSE
