----------------------------- MODULE MCPlatform -----------------------------
(***************************************************************************)
(* What the services share, for TLC: the path of a log line (LogStream),   *)
(* the consumer loop (ConsumeStream and, above it, Lifecycle), the agent   *)
(* registry (Registry), the startup sync of the memory service             *)
(* (MemorySync) and the jobs of the retro-agent (Retro), in instances      *)
(* small enough for liveness.                                              *)
(*                                                                         *)
(* A behaviour chooses one of them; the others, which share no state with  *)
(* it, stay in their initial state.                                        *)
(***************************************************************************)
EXTENDS LogStream, ConsumeStream, MemorySync

VARIABLES
    part,   \* the part that runs
    proc, starts, held, announce, agents, phase, subs, running, cancelled, dying, stalls,
    hist, pending, entry, lock, cp, gw, triggers, worker, slot, assigned, done, retroUsed

regVars == <<proc, starts, held, announce, agents, phase, subs, running,
                  cancelled, dying, stalls>>
retroVars == <<hist, pending, entry, lock, cp, gw, triggers, worker, slot, assigned,
               done, retroUsed>>

\* Two services, each started once.
R == INSTANCE Registry WITH Agents <- {"main", "retro"}, MaxStarts <- 1, MaxStalls <- 1

\* The values of the YAML files.
MCWanted == [f \in Fields |-> "v1"]
MCSeed == <<<<"d1", "v1">>, <<"d2", "v1">>>>

\* A job with a checkpoint and one without.
T == INSTANCE Retro WITH
        Jobs <- {"memory", "curation"}, MaxEvents <- 1, MinTurns <- 2, MaxTriggers <- 1,
        MaxPreempts <- 0, MaxFaults <- 1, MaxOverruns <- 0, Markers <- FALSE,
        used <- retroUsed

ASSUME /\ ConsumeAssumption /\ R!RegistryAssumption
       /\ MemorySyncAssumption /\ T!RetroAssumption

MCInit ==
    /\ part \in {"log", "consume", "unbroken", "registry", "sync", "retro"}
    /\ Init /\ ConsumeInit /\ R!RegistryInit /\ SyncInit /\ T!Init
    /\ part # "sync" => up

LogStep ==
    part = "log" /\ Next /\ UNCHANGED <<part, consumeVars, regVars, syncVars, retroVars>>
\* Two messages for a consumer whose group may be destroyed; more for one whose
\* group is left alone.
ConsumeStep ==
    /\ part \in {"consume", "unbroken"} /\ ConsumeNext
    /\ part = "consume" => sent' <= 2
    /\ part = "unbroken" => used'.drops = 0
    /\ UNCHANGED <<part, vars, regVars, syncVars, retroVars>>
RegistryStep ==
    part = "registry" /\ R!RegistryNext /\ UNCHANGED <<part, vars, consumeVars, syncVars, retroVars>>
SyncStep ==
    part = "sync" /\ SyncNext /\ UNCHANGED <<part, vars, consumeVars, regVars, retroVars>>
RetroStep ==
    part = "retro" /\ T!Next /\ UNCHANGED <<part, vars, consumeVars, regVars, syncVars>>

MCNext == LogStep \/ ConsumeStep \/ RegistryStep \/ SyncStep \/ RetroStep

\* The fairness of each part; what is enabled in an initial state is asked of
\* the part that runs.
MCFairness ==
    /\ Fairness
    /\ WF_consumeVars(part \in {"consume", "unbroken"} /\ Loop)
    /\ WF_regVars(R!Consume)
    /\ WF_regVars(part = "registry" /\ R!TickSubscribe)
    /\ WF_regVars(R!TickPrune)
    /\ \A a \in {"main", "retro"} :
         /\ WF_regVars(proc[a] = "off" /\ R!MonitorExpire(a))
         /\ WF_regVars(R!MonitorCancelled(a)) /\ WF_regVars(R!OnDead(a))
    /\ WF_syncVars(part = "sync" /\ Pass) /\ WF_syncVars(Retry) /\ WF_syncVars(ComeUp)
    /\ T!Fairness

MCSpec ==
    /\ MCInit
    /\ [][MCNext]_<<part, vars, consumeVars, regVars, syncVars, retroVars>>
    /\ MCFairness

-----------------------------------------------------------------------------
\* No loss is silent: every decodable message is in the end given to the
\* handler unless a crash or a flush dropped it (consume.go, ConsumeStream),
\* dropped log lines are reported (logstream/handler.go, drain), and after its
\* first entry a tail misses none that was not trimmed (logs.go, tailStream).
NoSilentLoss ==
    /\ [](TypeOK /\ NoGapAfterFirst) /\ DropsReported
    /\ HandledOrLost /\ L!Settles

\* The platform recovers.  What those who have gone held is given back: a
\* service that dies without deregistering is marked dead, its slot is freed, and
\* none that stays deregistered keeps a subscription or a monitor
\* (registry/consumer.go, RunHeartbeatMonitor; broker.go, handleDeadAgent); the
\* lock of a job is freed, also when its holder crashed or its trigger was never
\* delivered (retro/lock.go, AcquireLock); the reader of a tail stops when its
\* client has left (logs.go, tailStream).  The startup sync succeeds in the end,
\* also past lost answers, restarts and edits (cmd/memory-service/main.go,
\* runSyncLoop), and leaves alone the directives the YAML files do not name
\* (sync.go, syncDirectives).
Recovers ==
    /\ R!DeathNoticed /\ R!DeadFreesSlot /\ R!NoMonitorLeak
    /\ T!LockFreed /\ TailStops
    /\ part = "sync" => Synced
    /\ ForeignKept
=============================================================================
