SPECIFICATION Spec
CONSTANTS
  Main = main
  Controllers = {c1}
  Slots = {s1, s2}
  MaxServes = 3
  MaxStops = 2
  Faults = {"bind", "address", "accept"}
  EarlyStop = FALSE
CHECK_DEADLOCK FALSE
INVARIANTS
  InactiveIsQuiet
  NoTerminate
  OneLoop
PROPERTIES
  StopEnds
  ServeEnds
  WorkersDrain
