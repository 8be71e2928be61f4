SPECIFICATION FairSpec
CONSTANTS
  Slots = {s1, s2}
  ShutdownStops = {TRUE, FALSE}
INVARIANTS
  TypeOK
  ReadyIsTrue
  NothingLeftOpen
PROPERTIES
  ComesToAnEnd
