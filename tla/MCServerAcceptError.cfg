SPECIFICATION Spec
CONSTANTS
  Main = main
  Controllers = {c1}
  Slots = {s1, s2}
  MaxServes = 3
  MaxStops = 2
  Faults = {"accept"}
  EarlyStop = FALSE
SYMMETRY SlotSymmetry
CHECK_DEADLOCK FALSE
INVARIANTS
  ServeUntilStopped
