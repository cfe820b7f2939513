SPECIFICATION Spec
CONSTANTS
  main = main
  retro = retro
  other = other
  proxy = proxy
  m1 = m1
  m2 = m2
  t1 = t1
  t2 = t2
  x1 = x1
  p1 = p1
  p2 = p2
  Arbiter = arbiter
  NoAgent = noAgent
  NoReq = noReq
  AgentOf <- MCAgentOf
  PriorityOf <- MCPriorityOf
  SlotClass <- MCSlotClass
  Agents = {main, retro}
  Reqs = {m1, t1}
  AgentCount = 1
  HindsightCount = 0
  Preemptible = {}
  Shared = {}
  Mortal = {}
  Punctual = FALSE
  MaxFailures = 0
INVARIANTS
  NoStrandedRequest
CHECK_DEADLOCK FALSE
