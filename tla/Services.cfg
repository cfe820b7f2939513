SPECIFICATION MCSpec
CONSTANTS
  Jobs = {"memory", "skill"}
  MaxEvents = 2
  MinTurns = 2
  MaxTriggers = 1
  MaxPreempts = 1
  MaxFaults = 1
  MaxOverruns = 1
  Markers = TRUE
  Agents = {"main", "retro"}
  MaxStarts = 2
  MaxStalls = 1
INVARIANTS
  
  
  
  
  
  JobsSound
  MonitorsSound
CHECK_DEADLOCK FALSE
