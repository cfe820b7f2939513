SPECIFICATION MCSpec
PROPERTIES
  
  TurnEnds
CHECK_DEADLOCK FALSE
