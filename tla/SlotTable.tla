----------------------------- MODULE SlotTable -----------------------------
(***************************************************************************)
(* The broker's table of llama-server slots (internal/broker/slots.go) as  *)
(* operators on a table t, a function from slot ids to entries.  Every     *)
(* method of the Go type runs under the table's own lock, so each operator *)
(* is one atomic step for the modules that use it.                         *)
(*                                                                         *)
(* A Go result (int, bool) is modelled by a set with at most one element:  *)
(* the slot that was found, or nothing.                                    *)
(*                                                                         *)
(* Here and in the other modules a definition X_Y is a faulty variant of   *)
(* X, used to show that a property notices the fault.                      *)
(***************************************************************************)
EXTENDS Integers

CONSTANTS
  AgentCount,      \* number of agent-class slots, at the low indices
  HindsightCount,  \* number of hindsight-class slots, after them
  Agents,          \* agent identities
  Reqs,            \* correlation ids of slot requests
  NoAgent,         \* the empty agent id
  NoReq            \* the empty correlation id

ASSUME TableAssumption ==
  /\ AgentCount \in Nat
  /\ HindsightCount \in Nat
  /\ NoAgent \notin Agents
  /\ NoReq \notin Reqs

SlotId == 0 .. AgentCount + HindsightCount - 1
NoSlot == -1

Classes == {"agent", "hindsight"}

(* The class named in a request: empty means agent, and a name that is     *)
(* neither class is not a class at all.                                    *)
NormalizeClass(name) == IF name = "" THEN "agent" ELSE name

ClassOf(s) == IF s < AgentCount THEN "agent" ELSE "hindsight"

States == {"unassigned", "provisional", "assigned"}

(* An entry names an agent unless it is unassigned, and carries the        *)
(* correlation id of the request just while the offer is unacknowledged.   *)
SlotEntry ==
  {e \in [state : States, agent : Agents \cup {NoAgent}, priority : Int,
          corr : Reqs \cup {NoReq}] :
     /\ e.state = "unassigned" <=> e.agent = NoAgent
     /\ e.state = "provisional" <=> e.corr # NoReq}

Unassigned ==
  [state |-> "unassigned", agent |-> NoAgent, priority |-> 0, corr |-> NoReq]

NewSlotTable == [s \in SlotId |-> Unassigned]

-----------------------------------------------------------------------------
(* Lookups.                                                                *)

FindUnassigned_AnyClass(t, class) ==
  LET free == {s \in SlotId : t[s].state = "unassigned"}
  IN  {s \in free : \A x \in free : s <= x}

(* The lowest-numbered free slot of the class.                             *)
FindUnassigned(t, class) ==
  LET free == {s \in SlotId : ClassOf(s) = class /\ t[s].state = "unassigned"}
  IN  {s \in free : \A x \in free : s <= x}

(* The slots of the class that a preemptible agent has been assigned, and  *)
(* among them the one with the largest priority number, the first on ties. *)
FindLowestPriorityPreemptible(t, class, preemptible) ==
  LET held == {s \in SlotId : /\ ClassOf(s) = class
                              /\ t[s].state = "assigned"
                              /\ t[s].agent \in preemptible}
  IN  {s \in held : \A x \in held :
         \/ t[x].priority < t[s].priority
         \/ t[x].priority = t[s].priority /\ s <= x}

(* Whether the agent has any assigned slot.                                *)
GetByAgent(t, agent) ==
  \E s \in SlotId : t[s].agent = agent /\ t[s].state = "assigned"

(* The first provisional slot offered under the correlation id.            *)
ProvisionalOf(t, req) ==
  LET offered == {s \in SlotId : t[s].state = "provisional" /\ t[s].corr = req}
  IN  {s \in offered : \A x \in offered : s <= x}

-----------------------------------------------------------------------------
(* Updates.                                                                *)

CanAssign_OverProvisional(t, s) == t[s].state # "assigned"

(* AssignProvisional fails when the slot has been taken since it was found; *)
(* the caller tests CanAssign and then applies the update.                 *)
CanAssign(t, s) == t[s].state = "unassigned"

AssignProvisional(t, s, agent, priority, req) ==
  [t EXCEPT ![s] = [state |-> "provisional", agent |-> agent,
                    priority |-> priority, corr |-> req]]

CommitAssignment_KeepsCorr(t, req) ==
  [s \in SlotId |-> IF s \in ProvisionalOf(t, req)
                    THEN [t[s] EXCEPT !.state = "assigned"] ELSE t[s]]

CommitAssignment(t, req) ==
  [s \in SlotId |-> IF s \in ProvisionalOf(t, req)
                    THEN [state |-> "assigned", agent |-> t[s].agent,
                          priority |-> t[s].priority, corr |-> NoReq]
                    ELSE t[s]]

RevertProvisional(t, req) ==
  [s \in SlotId |-> IF s \in ProvisionalOf(t, req) THEN Unassigned ELSE t[s]]

(* No test of the slot's state: whoever has the slot loses it.             *)
ForceAssign(t, s, agent, priority) ==
  [t EXCEPT ![s] = [state |-> "assigned", agent |-> agent,
                    priority |-> priority, corr |-> NoReq]]

(* No test of the owner either.                                            *)
Release(t, s) == [t EXCEPT ![s] = Unassigned]

ReleaseByAgent_Everyone(t, agent) == [s \in SlotId |-> Unassigned]

(* Every slot that carries the agent's id, provisional ones included.      *)
ReleaseByAgent(t, agent) ==
  [s \in SlotId |-> IF t[s].agent = agent THEN Unassigned ELSE t[s]]

HasSlots(t, agent) == \E s \in SlotId : t[s].agent = agent
=============================================================================
