------------------------------- MODULE Registry -------------------------------
(***************************************************************************)
(* internal/registry: services announce themselves on a stream, a consumer *)
(* keeps the in-memory registry, and a monitor subscribes one goroutine to *)
(* the heartbeats of every service that is alive.  In the broker the       *)
(* monitor's onDead callback releases the slots of the dead agent.         *)
(*                                                                         *)
(* Time is abstracted: a monitor's timer may fire when its service is down *)
(* or, at most MaxStalls times, when heartbeats are merely late.           *)
(***************************************************************************)
EXTENDS Naturals, Sequences, FiniteSets

CONSTANTS Agents, MaxStarts, MaxStalls

\* What the constants satisfy.
RegistryAssumption == MaxStarts \in Nat \ {0} /\ MaxStalls \in Nat

VARIABLES
    proc,       \* the service's process: "off" or "up"
    starts,     \* how often it was started
    held,       \* <<service, start>>: which process holds a slot of the broker
    announce,   \* stream:registry:announce, not yet consumed
    agents,     \* the registry map: "absent", "alive" or "dead"
    phase,      \* the monitor loop: "wait", or "prune" in the middle of a tick
    subs,       \* keys of the subscriptions map
    running,    \* monitor goroutines per service whose context is live
    cancelled,  \* ... and those cancelled that have not returned yet
    dying,      \* services marked dead whose onDead callback has not run
    stalls

registryVars == <<proc, starts, held, announce, agents, phase, subs, running,
          cancelled, dying, stalls>>
service == <<proc, starts, held, announce>>
monitor == <<phase, subs, running, cancelled, dying, stalls>>

RegistryInit ==
    /\ proc = [a \in Agents |-> "off"] /\ starts = [a \in Agents |-> 0]
    /\ held = {} /\ announce = <<>> /\ agents = [a \in Agents |-> "absent"]
    /\ phase = "wait" /\ subs = {} /\ dying = {} /\ stalls = 0
    /\ running = [a \in Agents |-> 0] /\ cancelled = [a \in Agents |-> 0]

-----------------------------------------------------------------------------
(* The service. *)

\* AgentRegistrar.Register, once per process.
StartAgent(a) ==
    /\ proc[a] = "off" /\ starts[a] < MaxStarts
    /\ proc' = [proc EXCEPT ![a] = "up"]
    /\ starts' = [starts EXCEPT ![a] = @ + 1]
    /\ announce' = Append(announce, [type |-> "register", agent |-> a])
    /\ UNCHANGED <<held, agents, monitor>>

\* handleSignals: release the slot, deregister, stop.
Shutdown(a) ==
    /\ proc[a] = "up"
    /\ proc' = [proc EXCEPT ![a] = "off"]
    /\ held' = held \ {<<a, starts[a]>>}
    /\ announce' = Append(announce, [type |-> "deregister", agent |-> a])
    /\ UNCHANGED <<starts, agents, monitor>>

CrashAgent(a) ==
    /\ proc[a] = "up"
    /\ proc' = [proc EXCEPT ![a] = "off"]
    /\ UNCHANGED <<starts, held, announce, agents, monitor>>

\* The broker gives the service a slot; the service gives it back.
HoldSlot(a) ==
    /\ proc[a] = "up"
    /\ LET mine == {<<a, starts[a]>>} IN held' \in {held \cup mine, held \ mine}
    /\ UNCHANGED <<proc, starts, announce, agents, monitor>>

\* RunHeartbeat: the message reaches the service's monitor, if it has one.
Heartbeat(a) ==
    /\ proc[a] = "up" /\ running[a] > 0 /\ agents[a] # "absent"
    /\ agents' = [agents EXCEPT ![a] = "alive"]
    /\ UNCHANGED <<service, monitor>>

-----------------------------------------------------------------------------
(* The registry consumer. *)

\* One message of RunRegistrationConsumer.
Registered(a) == [agents EXCEPT ![a] = "alive"]
Deregistered(a) == [agents EXCEPT ![a] = "absent"]

Consume ==
    /\ announce # <<>>
    /\ LET msg == Head(announce)
       IN  agents' = IF msg.type = "register" THEN Registered(msg.agent)
                     ELSE Deregistered(msg.agent)
    /\ announce' = Tail(announce)
    /\ UNCHANGED <<proc, starts, held, monitor>>

-----------------------------------------------------------------------------
(* RunHeartbeatMonitor. *)

\* The alive services a tick starts a monitor for.
Unwatched_All == {a \in Agents : agents[a] = "alive"}
Unwatched_DeadOnly == {a \in Agents : agents[a] = "dead"} \ subs
Unwatched == {a \in Agents : agents[a] = "alive"} \ subs

TickSubscribe ==
    /\ phase = "wait"
    /\ running' = [a \in Agents |-> IF a \in Unwatched THEN running[a] + 1
                                    ELSE running[a]]
    /\ subs' = subs \cup Unwatched
    /\ phase' = "prune"
    /\ UNCHANGED <<service, agents, cancelled, dying, stalls>>

\* The second half: drop the subscriptions of services that are gone and
\* cancel their monitors.
Gone_Every == subs
Gone_Dead == {a \in subs : agents[a] = "dead"}
Gone == {a \in subs : agents[a] = "absent"}

TickPrune ==
    /\ phase = "prune"
    /\ subs' = subs \ Gone
    /\ running' = [a \in Agents |-> IF a \in Gone THEN 0 ELSE running[a]]
    /\ cancelled' = [a \in Agents |->
                        cancelled[a] + (IF a \in Gone THEN running[a] ELSE 0)]
    /\ phase' = "wait"
    /\ UNCHANGED <<service, agents, dying, stalls>>

\* MarkDead by a monitor whose timer fired.
MarkDead(a) ==
    /\ agents' = IF agents[a] = "absent" THEN agents
                 ELSE [agents EXCEPT ![a] = "dead"]
    /\ dying' = dying \cup {a}

Overdue(a) ==
    \/ proc[a] = "off" /\ UNCHANGED stalls
    \/ proc[a] = "up" /\ stalls < MaxStalls /\ stalls' = stalls + 1

\* The timer fires: the goroutine returns, its subscription stays.
MonitorExpire(a) ==
    /\ running[a] > 0 /\ Overdue(a) /\ MarkDead(a)
    /\ running' = [running EXCEPT ![a] = @ - 1]
    /\ UNCHANGED <<service, phase, subs, cancelled>>

\* A cancelled goroutine returns; when its timer fired as well, select may
\* still take that branch.
MonitorCancelled(a) ==
    /\ cancelled[a] > 0
    /\ cancelled' = [cancelled EXCEPT ![a] = @ - 1]
    /\ \/ Overdue(a) /\ MarkDead(a)
       \/ UNCHANGED <<agents, dying, stalls>>
    /\ UNCHANGED <<service, phase, subs, running>>

\* onDead in the broker: handleDeadAgent releases every slot of the agent.
SlotsOf(a) == {h \in held : h[1] = a}

FreedBy_Nobody(a) == {}
FreedBy(a) == SlotsOf(a)

OnDead(a) ==
    /\ a \in dying
    /\ dying' = dying \ {a}
    /\ held' = held \ FreedBy(a)
    /\ UNCHANGED <<proc, starts, announce, agents, phase, subs, running,
                   cancelled, stalls>>

RegistryNext ==
    \/ \E a \in Agents : \/ StartAgent(a) \/ Shutdown(a) \/ CrashAgent(a)
                         \/ HoldSlot(a) \/ Heartbeat(a) \/ MonitorExpire(a)
                         \/ MonitorCancelled(a) \/ OnDead(a)
    \/ Consume
    \/ TickSubscribe
    \/ TickPrune

\* The consumer and the ticker keep running; a timer that is due fires and a
\* goroutine that can proceed does.
RegistryFairness ==
    /\ WF_registryVars(Consume) /\ WF_registryVars(TickSubscribe) /\ WF_registryVars(TickPrune)
    /\ \A a \in Agents :
         /\ WF_registryVars(proc[a] = "off" /\ MonitorExpire(a))
         /\ WF_registryVars(MonitorCancelled(a)) /\ WF_registryVars(OnDead(a))

RegistrySpec == RegistryInit /\ [][RegistryNext]_registryVars /\ RegistryFairness

-----------------------------------------------------------------------------
\* The variables keep their types; at most one monitor per registration waits
\* to return.
RegistryTypeOK ==
    /\ proc \in [Agents -> {"off", "up"}] /\ starts \in [Agents -> 0..MaxStarts]
    /\ {subs, dying} \subseteq SUBSET Agents
    /\ held \subseteq Agents \X (1..MaxStarts)
    /\ agents \in [Agents -> {"absent", "alive", "dead"}]
    /\ phase \in {"wait", "prune"} /\ stalls \in 0..MaxStalls
    /\ running \in [Agents -> Nat] /\ cancelled \in [Agents -> Nat]
    /\ \A a \in Agents : cancelled[a] <= starts[a]

\* RunHeartbeatMonitor never has two live monitors for one service, however
\* registrations, deaths and ticks interleave, and a live monitor always has
\* its subscription.
OneMonitor == \A a \in Agents : running[a] <= (IF a \in subs THEN 1 ELSE 0)

\* What the registry keeps, all together: a service never has two live monitors
\* (registry/consumer.go, RunHeartbeatMonitor).
MonitorsSound == RegistryTypeOK /\ OneMonitor

\* A service that dies without deregistering does not stay alive in the
\* registry: it is marked dead once its heartbeats are missed.
DeathNoticed ==
    \A a \in Agents : proc[a] = "off" /\ agents[a] = "alive"
                        ~> agents[a] # "alive" \/ proc[a] = "up"

\* The slot of a service that died is freed, by its own shutdown or by onDead.
DeadFreesSlot ==
    \A a \in Agents :
        proc[a] = "off" /\ SlotsOf(a) # {} /\ agents[a] = "alive"
            ~> SlotsOf(a) = {}

\* No goroutine leaks: a service that stays deregistered has in the end no
\* subscription and no monitor.
NoMonitorLeak ==
    \A a \in Agents :
        []<>(\/ agents[a] # "absent" \/ announce # <<>>
             \/ a \notin subs /\ running[a] + cancelled[a] = 0)
=============================================================================
