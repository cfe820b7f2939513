SPECIFICATION Spec
CONSTANTS
  main = main
  retro = retro
  other = other
  proxy = proxy
  m1 = m1
  m2 = m2
  t1 = t1
  t2 = t2
  x1 = x1
  p1 = p1
  p2 = p2
  Arbiter = arbiter
  NoAgent = noAgent
  NoReq = noReq
  AgentOf <- MCAgentOf
  PriorityOf <- MCPriorityOf
  SlotClass <- MCSlotClass
  Agents = {main, retro, proxy}
  Reqs = {m1, t1, p1}
  AgentCount = 1
  HindsightCount = 1
  Preemptible = {retro}
  Shared = {proxy}
  Mortal = {retro}
  Punctual = FALSE
  MaxFailures = 1
INVARIANTS
  TypeOK
  ClassIsolation
  SingleCustody
  ProvisionalWatched
  NoLostRequest
CHECK_DEADLOCK FALSE
