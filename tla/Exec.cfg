SPECIFICATION MCSpec
CONSTANTS
  Calls = {c1, c2}
  Sessions = {sa}
  NoCall = NoCall
  Skills = {"skill1", "skill2", "skill3"}
  WithReqs = {"skill1", "skill2"}
  PrewarmList <- MCPrewarmList
  Denied = {"skill3"}
  Requests = {"r1"}
  PrewarmConcurrency = 1
  MaxRestarts = 1
  NoOne = "nobody"
  Invs = {"i1", "i2"}
  RunSessions = {"s"}
  SessionOf <- MCSessionOf
  MaxFaults = 1
  Cap = 3
  Bytes = {"a", "L", "c"}
  MaxTotal = 6
INVARIANTS
  RunsSound
  InstallsSound
  OutputExact
PROPERTIES
  SandboxSound
  
  
CHECK_DEADLOCK FALSE
