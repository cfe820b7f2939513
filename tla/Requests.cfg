SPECIFICATION MCSpec
CONSTANTS
  Agents = {"main", "retro"}
  Slots = {1}
  NoAgent = "nobody"
  Preemptible = {"retro"}
  Silent = {}
  MaxRuns = 1
  MaxTokens = 1
  MaxTools = 2
  TokenCap = 1
  ToolCap = 1
  MaxTaken = 1
  MaxLost = 1
  MaxCrashes = 0
  Requests = {"stream", "body"}
  Streaming = {"stream"}
  MaxReply = 3
  MaxFaults = 1
  Indices = {0, 1, 2}
  Names = {"bash", "time"}
  MaxPieces = 2
  MaxNoise = 1
INVARIANTS
  
  ProxySound
  TurnSound
  AssemblySound
CHECK_DEADLOCK FALSE
