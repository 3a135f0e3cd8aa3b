SPECIFICATION FairSpec
CONSTANTS
  N = 3
  Msg = {m1, m2}
  Fails = {"route", "intx"}
  MaxMoves = 6
INVARIANTS
  BypassIsCurrent
  
  VectorsLeaveNothing
  NoFault
PROPERTIES
  EventsArrive
CHECK_DEADLOCK FALSE
