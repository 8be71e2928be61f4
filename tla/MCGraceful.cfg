SPECIFICATION Spec
CONSTANTS
  Slots = {s1, s2}
  ShutdownStops = {FALSE}
INVARIANTS
  StoppedGracefully
