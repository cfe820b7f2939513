----------------------------- MODULE MCPManager -----------------------------
(***************************************************************************)
(* The MCP manager of the main agent (internal/mcp/manager.go) and the tool*)
(* registry it fills (internal/tools/tool.go): every enabled server is     *)
(* started by a goroutine of its own, its tools are registered, and a      *)
(* heartbeat publishes which servers are connected.                        *)
(*                                                                         *)
(* Registry has no lock.  register is modelled as what it is, a read of    *)
(* the order followed by a write of the longer one.                        *)
(***************************************************************************)
EXTENDS Naturals, Sequences, FiniteSets, Functions

CONSTANTS
    Servers,    \* config:mcp:servers
    Enabled,    \* the servers that are enabled
    NumTools    \* how many tools a server lists

\* What a configuration satisfies.
MCPManagerAssumption == Enabled \subseteq Servers /\ NumTools \in Nat

VARIABLES
    phase,      \* Manager: "starting", "running", "closing" or "closed"
    starter,    \* server -> its startOne
    proc,       \* server -> its subprocess
    clients,    \* Manager.clients
    health,     \* Manager.health
    order,      \* Registry.order, as <<server, index>>
    published   \* the snapshot at health:main-agent:mcp

managerVars == <<phase, starter, proc, clients, health, order, published>>

ServerTools == Servers \X (1 .. NumTools)
NoHealth == [connected |-> FALSE, count |-> 0, error |-> "none"]

\* Types; and an order never lists a tool twice.
ManagerTypeOK ==
    /\ phase \in {"starting", "running", "closing", "closed"}
    /\ proc \in [Servers -> {"none", "alive", "exited"}]
    /\ clients \subseteq Enabled
    /\ \A s \in Servers :
        /\ starter[s].pc \in {"idle", "spawn", "initialize", "list", "register",
                              "append", "connect", "done"}
        /\ health[s].count \in 0 .. NumTools
    /\ order \in Seq(ServerTools) /\ IsInjective(order)

\* Start skips the servers that are not enabled.
Starts_All(s) == TRUE
Starts(s) == s \in Enabled

ManagerInit ==
    /\ phase = "starting"
    /\ starter = [s \in Servers |->
            [pc |-> IF Starts(s) THEN "spawn" ELSE "idle", seen |-> <<>>, count |-> 0]]
    /\ proc = [s \in Servers |-> "none"]
    /\ clients = {}
    /\ health = [s \in Servers |-> NoHealth]
    /\ order = <<>>
    /\ published = [s \in Servers |-> NoHealth]

StarterTo(s, pc) == starter' = [starter EXCEPT ![s].pc = pc]

-----------------------------------------------------------------------------
(* Manager.startOne *)

setFailure(s, why) ==
    /\ health' = [health EXCEPT ![s].connected = FALSE, ![s].error = why]
    /\ StarterTo(s, "done")

\* Client.Close: stdin is closed, and the group killed after two seconds.
CloseFailed_Leak(s) == proc
CloseFailed(s) == [proc EXCEPT ![s] = "exited"]

NewClient(s) ==
    /\ starter[s].pc = "spawn"
    /\ \/ proc' = [proc EXCEPT ![s] = "alive"] /\ StarterTo(s, "initialize") /\ UNCHANGED health
       \/ setFailure(s, "spawn") /\ UNCHANGED proc
    /\ UNCHANGED <<phase, clients, order, published>>

\* Initialize and ListTools each answer, fail, or run into ten seconds.
Initialize(s) ==
    /\ starter[s].pc = "initialize"
    /\ \/ proc[s] = "alive" /\ StarterTo(s, "list") /\ UNCHANGED <<proc, health>>
       \/ proc' = CloseFailed(s) /\ setFailure(s, "initialize")
    /\ UNCHANGED <<phase, clients, order, published>>

ListTools(s) ==
    /\ starter[s].pc = "list"
    /\ \/ proc[s] = "alive" /\ StarterTo(s, "register") /\ UNCHANGED <<proc, health>>
       \/ proc' = CloseFailed(s) /\ setFailure(s, "tools/list")
    /\ UNCHANGED <<phase, clients, order, published>>

\* Registry.register reads the registry, finds the name free, and ...
RegisterMCP(s) ==
    /\ starter[s].pc = "register"
    /\ starter' = IF starter[s].count < NumTools
                  THEN [starter EXCEPT ![s].pc = "append", ![s].seen = order]
                  ELSE [starter EXCEPT ![s].pc = "connect"]
    /\ UNCHANGED <<phase, proc, clients, health, order, published>>

NextTool(s) == <<s, starter[s].count + 1>>

\* ... stores the longer order; what others stored meanwhile is gone.
Register(s) ==
    /\ starter[s].pc = "append"
    /\ order' = Append(starter[s].seen, NextTool(s))
    /\ starter' = [starter EXCEPT ![s].pc = "register", ![s].count = @ + 1]
    /\ UNCHANGED <<phase, proc, clients, health, published>>

Connect(s) ==
    /\ starter[s].pc = "connect"
    /\ clients' = clients \cup {s}
    /\ health' = [health EXCEPT ![s] = [connected |-> TRUE, count |-> starter[s].count,
                                        error |-> "none"]]
    /\ StarterTo(s, "done")
    /\ UNCHANGED <<phase, proc, order, published>>

StartOne(s) ==
    \/ NewClient(s) \/ Initialize(s) \/ ListTools(s) \/ RegisterMCP(s) \/ Register(s) \/ Connect(s)

-----------------------------------------------------------------------------
(* Health, the end of the subprocesses, and Close *)

\* publishHealth refreshes the connected flag of the clients there are; a
\* snapshot that Valkey does not take (written is FALSE) is only logged.
Refreshed_Never == health
Refreshed ==
    [s \in Servers |-> IF s \in clients
                       THEN [health[s] EXCEPT !.connected = (proc[s] = "alive")]
                       ELSE health[s]]

publishHealth(written) ==
    /\ health' = Refreshed
    /\ published' = IF written THEN Refreshed ELSE published

\* Start waits for every startOne, publishes, and leaves the heartbeat behind.
StartsOver_First == \E s \in Enabled : starter[s].pc = "done"
StartsOver_Listed == \A s \in Servers : starter[s].pc = "done"
StartsOver == \A s \in Enabled : starter[s].pc = "done"

EndStart ==
    /\ phase = "starting" /\ StartsOver
    /\ phase' = "running"
    /\ \E written \in BOOLEAN : publishHealth(written)
    /\ UNCHANGED <<starter, proc, clients, order>>

Heartbeat(written) ==
    /\ phase = "running"
    /\ publishHealth(written)
    /\ UNCHANGED <<phase, starter, proc, clients, order>>

\* A server exits by itself, which its client notices by end of file.
ServerExits(s) ==
    /\ proc[s] = "alive"
    /\ proc' = [proc EXCEPT ![s] = "exited"]
    /\ UNCHANGED <<phase, starter, clients, health, order, published>>

\* The process is told to stop: the heartbeat ends, then each client is
\* closed.  handleSignals listens only after Start has returned.
Close ==
    /\ phase = "running"
    /\ phase' = "closing"
    /\ UNCHANGED <<starter, proc, clients, health, order, published>>

CloseClients ==
    /\ phase = "closing"
    /\ proc' = [s \in Servers |-> IF s \in clients THEN "exited" ELSE proc[s]]
    /\ phase' = "closed"
    /\ UNCHANGED <<starter, clients, health, order, published>>

-----------------------------------------------------------------------------
ManagerNext ==
    \/ \E s \in Servers : StartOne(s) \/ ServerExits(s)
    \/ EndStart \/ Close \/ CloseClients
    \/ \E written \in BOOLEAN : Heartbeat(written)

ManagerSpec == ManagerInit /\ [][ManagerNext]_managerVars

\* Goroutines run, and the heartbeat ticks and reaches Valkey again and
\* again; a server may never exit.
ManagerFairness ==
    /\ \A s \in Servers : WF_managerVars(StartOne(s))
    /\ WF_managerVars(EndStart) /\ WF_managerVars(Heartbeat(TRUE)) /\ WF_managerVars(CloseClients)

-----------------------------------------------------------------------------
(* Properties *)

\* A server that did not start, or is disabled, contributes no tools.
OnlyStartedTools ==
    \A s \in Servers : (\E i \in DOMAIN order : order[i][1] = s) =>
        /\ s \in Enabled
        /\ starter[s].pc \in {"register", "append", "connect"} \/ s \in clients

\* No subprocess outlives the manager, at whatever step its start failed.
NoOrphanProcess == phase = "closed" => \A s \in Servers : proc[s] # "alive"

\* The snapshot is never ahead of the world: the servers it calls connected
\* have completed their handshake, and it appears once all starts are over.
SnapshotFaithful ==
    /\ \A s \in Servers : published[s].connected => s \in clients
    /\ phase # "starting" => \A s \in Enabled : s \in clients \/ health[s].error # "none"

\* A server that is disabled or did not start has no tools in the registry, no
\* subprocess outlives the manager at whatever step its start failed, and the
\* published snapshot calls no server connected before its handshake
\* (manager.go, startOne, Start and Close).
ServersSound == ManagerTypeOK /\ OnlyStartedTools /\ NoOrphanProcess /\ SnapshotFaithful

\* A server's exit shows in the snapshot in the end.
ExitShows ==
    \A s \in Servers :
        s \in clients /\ proc[s] = "exited" ~> ~published[s].connected \/ phase = "closed"

\* Starting ends whatever the servers do.
StartEnds == <>(phase # "starting")
=============================================================================
