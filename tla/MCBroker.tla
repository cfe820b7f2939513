------------------------------ MODULE MCBroker ------------------------------
(***************************************************************************)
(* Instances of Broker: main-agent (priority 0, not preemptible),          *)
(* retro-agent (priority 1, preemptible), another agent (priority 2) and   *)
(* llm-proxy (priority 0, the hindsight class, several requests in flight  *)
(* under one identity).  A request's first letter tells its agent.         *)
(***************************************************************************)
EXTENDS Broker

CONSTANTS main, retro, other, proxy, m1, m2, t1, t2, x1, p1, p2

MCAgentOf ==
  [r \in Reqs |-> CASE r \in {m1, m2} -> main
                   [] r \in {t1, t2} -> retro
                   [] r = x1 -> other
                   [] OTHER -> proxy]
MCPriorityOf ==
  [a \in Agents |-> CASE a = retro -> 1 [] a = other -> 2 [] OTHER -> 0]
MCSlotClass == [a \in Agents |-> IF a = proxy THEN "hindsight" ELSE ""]
MCSlotClassUnknown == [MCSlotClass EXCEPT ![other] = "batch"]
=============================================================================
