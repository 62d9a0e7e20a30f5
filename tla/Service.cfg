\* Three callers, two drivers.  Everything may stop once the service closed.
CONSTANTS
  None = None
  Callers = {c1, c2, c3}
  DriverCount = 2
SPECIFICATION FairSpec
CHECK_DEADLOCK FALSE
INVARIANTS
  NoDriverAfterClose
PROPERTIES
  TicksAreComplete
  CloseEnds
  WaitersAreAnswered
