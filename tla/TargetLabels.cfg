\* The same configurations.
SPECIFICATION Spec
CONSTANTS
  Addresses = {"empty", "internal", "a", "b"}
  MaxSwitches = 2
INVARIANT LabelsAlwaysResolve
CHECK_DEADLOCK FALSE
