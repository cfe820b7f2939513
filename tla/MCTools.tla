------------------------------- MODULE MCTools -------------------------------
(***************************************************************************)
(* The tools of main-agent for TLC: the client of an MCP server            *)
(* (MCPClient), the manager that starts the servers and fills the registry *)
(* (MCPManager), and the gate between the model's calls and the tools      *)
(* (ToolGate).                                                             *)
(*                                                                         *)
(* A behaviour chooses one of the three; the others, which share no state  *)
(* with it, stay in their initial state.                                   *)
(***************************************************************************)
EXTENDS MCPClient, MCPManager, ToolGate

VARIABLE part   \* the part that runs

\* One skill allows a tool that is not registered and one that is, the other
\* allows none.
MCAllowed == [k1 |-> {"extra", "time"}, k2 |-> {}]

ASSUME MCPManagerAssumption /\ ToolGateAssumption

MCInit ==
    /\ part \in {"client", "manager", "gate"}
    /\ Init /\ ManagerInit /\ GateInit
    /\ part # "gate" => store = {}

ClientStep == part = "client" /\ Next /\ UNCHANGED <<part, managerVars, gateVars>>
ManagerStep == part = "manager" /\ ManagerNext /\ UNCHANGED <<part, vars, gateVars>>
GateStep == part = "gate" /\ GateNext /\ UNCHANGED <<part, vars, managerVars>>

MCNext == ClientStep \/ ManagerStep \/ GateStep

\* Goroutines run, and the heartbeat ticks and reaches Valkey again and again;
\* a server may never answer and never exit.
MCFairness ==
    /\ Fairness
    /\ \A s \in Enabled : WF_managerVars(part = "manager" /\ StartOne(s))
    /\ WF_managerVars(EndStart) /\ WF_managerVars(Heartbeat(TRUE))
    /\ WF_managerVars(CloseClients)

MCSpec == MCInit /\ [][MCNext]_<<part, vars, managerVars, gateVars>> /\ MCFairness

-----------------------------------------------------------------------------
\* Every invocation returns unless a write to its server blocks (client.go,
\* call), Start returns whatever the servers do, and the exit of a server shows
\* in the snapshot in the end (manager.go, Start and publishHealth).
ToolsProgress ==
    /\ CallReturns /\ ExitShows
    /\ part = "manager" => StartEnds
=============================================================================
