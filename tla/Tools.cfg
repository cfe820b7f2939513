SPECIFICATION MCSpec
CONSTANTS
  Calls = {c1, c2}
  MaxServerFaults = 2
  Stalls = TRUE
  NoCall = NoCall
  Servers = {"sa", "sb", "sc"}
  Enabled = {"sa", "sb"}
  NumTools = 2
  Sessions = {"s1", "s2"}
  Skills = {"k1", "k2"}
  OtherTools = {"time", "extra"}
  Registered = {"read_skill", "bash", "time"}
  Listed = {"read_skill", "bash", "time"}
  Allowed <- MCAllowed
  MaxIter = 2
  MaxTurns = 3
  MaxGateFaults = 1
INVARIANTS
  CallsSound
  ServersSound
  
PROPERTIES
  ToolsProgress
CHECK_DEADLOCK FALSE
