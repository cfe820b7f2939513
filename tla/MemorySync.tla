----------------------------- MODULE MemorySync -----------------------------
(***************************************************************************)
(* The startup sync of the memory service (cmd/memory-service/main.go,     *)
(* internal/memoryservice/sync.go and RegisterWebhooks in server.go): the  *)
(* bank, its configuration, its directives and the webhooks of Hindsight   *)
(* are brought to what the YAML files say, and the pass is retried until   *)
(* it succeeds.                                                            *)
(*                                                                         *)
(* A call to Hindsight succeeds, fails without effect, or takes effect and *)
(* loses its answer.  The service may restart, also with another webhook   *)
(* secret, and people may edit the bank by other means.                    *)
(***************************************************************************)
EXTENDS Naturals, Sequences

CONSTANTS
    Fields,      \* fields of the bank's configuration
    Numeric,     \* the fields whose YAML value is a number
    Values,      \* what a field or a directive can say
    Wanted,      \* field -> value in bank.yaml and missions
    Seed,        \* the directives of the YAML files, as <<name, value>>
    Foreign,     \* names of directives people create by other means
    Secrets,     \* webhook secrets, the first service starts with any
    MaxSyncFaults,   \* bound: calls that fail
    MaxEdits,    \* bound: edits by other means
    MaxRestarts  \* bound: restarts

Names == {Seed[i][1] : i \in DOMAIN Seed}

\* What the constants satisfy.
MemorySyncAssumption ==
    /\ Seed \in Seq(Names \X Values)
    /\ Numeric \subseteq Fields /\ Wanted \in [Fields -> Values]
    /\ \A i, j \in DOMAIN Seed : i # j => Seed[i][1] # Seed[j][1]
    /\ Names \cap Foreign = {}
    /\ {MaxSyncFaults, MaxEdits, MaxRestarts} \subseteq Nat

VARIABLES
    up,          \* does Hindsight answer
    bank,        \* does the bank exist
    config,      \* Hindsight: field -> value or "absent"
    directives,  \* Hindsight: sequence of directives; the position is the id
    webhooks,    \* Hindsight: sequence of webhooks
    svc,         \* the sync goroutine: where it is and what it has read
    reachable,   \* Server.hindsightReachable
    secret,      \* HINDSIGHT_WEBHOOK_SECRET of this incarnation
    edited,      \* was the bank edited since this pass began
    syncFaults, edits, restarts

hindsight == <<up, bank, config, directives, webhooks>>
bounds == <<syncFaults, edits, restarts>>
syncVars == <<hindsight, svc, reachable, secret, edited, bounds>>

Targets == <<"retain", "consolidation">>

\* Types; the configuration is read before it is patched.
SyncTypeOK ==
    /\ up \in BOOLEAN /\ bank \in BOOLEAN /\ reachable \in BOOLEAN /\ edited \in BOOLEAN
    /\ config \in [Fields -> Values \cup {"absent"}]
    /\ directives \in Seq([name : Names \cup Foreign, content : Values])
    /\ webhooks \in Seq([url : {"retain", "consolidation"}, enabled : BOOLEAN,
                         secret : Secrets])
    /\ svc.pc \in {"load", "banks", "create", "config", "patch", "list", "directive",
                   "hooks", "hook", "wait", "done"}
    /\ svc.next \in 1 .. Len(Seed) + 3
    /\ svc.pc = "patch" => svc.updates # {}
    /\ svc.updates \subseteq Fields
    /\ secret \in Secrets

StartPass == [pc |-> "load", next |-> 1, updates |-> {}, seen |-> <<>>]

SyncInit ==
    /\ up \in BOOLEAN
    /\ bank = FALSE
    /\ config = [f \in Fields |-> "absent"]
    /\ directives = <<>> /\ webhooks = <<>>
    /\ svc = StartPass
    /\ reachable = TRUE
    /\ secret \in Secrets
    /\ edited = FALSE
    /\ syncFaults = 0 /\ edits = 0 /\ restarts = 0

-----------------------------------------------------------------------------
(* The sync goroutine. *)

At(pc) == svc.pc = pc
Goto(pc) == svc' = [svc EXCEPT !.pc = pc]

\* runSyncLoop: a pass that fails marks Hindsight unreachable and waits.
FailPass ==
    /\ reachable' = FALSE
    /\ Goto("wait")

\* The call fails and nothing happened at Hindsight.
CallFails ==
    /\ ~At("load") /\ ~At("wait") /\ ~At("done")
    /\ \/ ~up /\ UNCHANGED syncFaults
       \/ up /\ syncFaults < MaxSyncFaults /\ syncFaults' = syncFaults + 1
    /\ FailPass
    /\ UNCHANGED <<hindsight, secret, edited, edits, restarts>>

\* A call that changes Hindsight: it went through, or its answer was lost.
Outcome(next) ==
    /\ up
    /\ \/ svc' = next /\ UNCHANGED <<reachable, syncFaults>>
       \/ syncFaults < MaxSyncFaults /\ syncFaults' = syncFaults + 1 /\ FailPass
    /\ UNCHANGED <<secret, edited, edits, restarts>>

\* A call that only reads.
Reads(next) ==
    /\ up
    /\ svc' = next
    /\ UNCHANGED <<hindsight, reachable, secret, edited, bounds>>

\* syncOnce: LoadSeedConfig reads and checks the YAML files.
LoadSeed ==
    /\ At("load")
    /\ edited' = FALSE
    /\ \/ svc' = [StartPass EXCEPT !.pc = "banks"] /\ UNCHANGED <<reachable, syncFaults>>
       \/ syncFaults < MaxSyncFaults /\ syncFaults' = syncFaults + 1 /\ FailPass
    /\ UNCHANGED <<hindsight, secret, edits, restarts>>

\* ensureBank: list the banks; create ours if it is not there.
ListBanks ==
    /\ At("banks")
    /\ Reads([svc EXCEPT !.pc = IF bank THEN "config" ELSE "create"])

CreateBank ==
    /\ At("create")
    /\ bank' = TRUE
    /\ Outcome([svc EXCEPT !.pc = "config"])
    /\ UNCHANGED <<up, config, directives, webhooks>>

\* syncConfig: which fields are to be patched.  A number decoded from YAML never
\* equals the same number decoded from JSON.
Updates_Missing == {f \in Fields : config[f] = "absent"}
Updates == {f \in Fields : config[f] # Wanted[f] \/ f \in Numeric}

\* syncConfig patches nothing when nothing differs.
AfterConfig == IF Updates = {} THEN "list" ELSE "patch"

GetConfig ==
    /\ At("config")
    /\ Reads([svc EXCEPT !.pc = AfterConfig, !.updates = Updates])

PatchConfig ==
    /\ At("patch")
    /\ config' = [f \in Fields |-> IF f \in svc.updates THEN Wanted[f] ELSE config[f]]
    /\ Outcome([svc EXCEPT !.pc = "list", !.updates = {}])
    /\ UNCHANGED <<up, bank, directives, webhooks>>

\* syncDirectives: the directives by name, as they are now.
ListDirectives ==
    /\ At("list")
    /\ Reads([svc EXCEPT !.pc = "directive", !.next = 1, !.seen = directives])

\* The id byName gives for a name: the last directive of that name, 0 if none.
byName_None(seen, name) == 0
byName_Last(seen, name) == Len(seen)
byName(seen, name) ==
    LET ids == {i \in DOMAIN seen : seen[i].name = name}
    IN IF ids = {} THEN 0 ELSE CHOOSE i \in ids : \A j \in ids : j <= i

\* One directive of the YAML files: create it, update it, or leave it.
SyncDirective ==
    /\ At("directive")
    /\ LET want == Seed[svc.next]
           id == byName(svc.seen, want[1])
           after == [svc EXCEPT !.next = @ + 1]
       IN \/ /\ svc.next <= Len(Seed) /\ id = 0
             /\ directives' = Append(directives, [name |-> want[1], content |-> want[2]])
             /\ Outcome(after)
             /\ UNCHANGED <<up, bank, config, webhooks>>
          \/ /\ svc.next <= Len(Seed) /\ id # 0 /\ svc.seen[id].content # want[2]
             /\ directives' = [directives EXCEPT ![id].content = want[2]]
             /\ Outcome(after)
             /\ UNCHANGED <<up, bank, config, webhooks>>
          \/ /\ svc.next <= Len(Seed) /\ id # 0 /\ svc.seen[id].content = want[2]
             /\ svc' = after
             /\ UNCHANGED <<hindsight, reachable, secret, edited, bounds>>
          \/ /\ svc.next > Len(Seed)
             /\ Goto("hooks")
             /\ UNCHANGED <<hindsight, reachable, secret, edited, bounds>>

\* RegisterWebhooks: the webhooks as they are now.
ListWebhooks ==
    /\ At("hooks")
    /\ Reads([svc EXCEPT !.pc = "hook", !.next = 1, !.seen = webhooks])

\* One of the two endpoints: create its webhook, or enable it.  The URL is
\* matched and the secret is not looked at.
RegisterWebhook ==
    /\ At("hook")
    /\ LET url == Targets[svc.next]
           ids == {i \in DOMAIN svc.seen : svc.seen[i].url = url}
           id == CHOOSE i \in ids : \A j \in ids : i <= j
           after == [svc EXCEPT !.next = @ + 1]
       IN \/ /\ svc.next <= 2 /\ ids = {}
             /\ webhooks' = Append(webhooks,
                    [url |-> url, enabled |-> TRUE, secret |-> secret])
             /\ Outcome(after)
             /\ UNCHANGED <<up, bank, config, directives>>
          \/ /\ svc.next <= 2 /\ ids # {} /\ ~svc.seen[id].enabled
             /\ webhooks' = [webhooks EXCEPT ![id].enabled = TRUE]
             /\ Outcome(after)
             /\ UNCHANGED <<up, bank, config, directives>>
          \/ /\ svc.next <= 2 /\ ids # {} /\ svc.seen[id].enabled
             /\ svc' = after
             /\ UNCHANGED <<hindsight, reachable, secret, edited, bounds>>
          \/ /\ svc.next > 2
             /\ Goto("done")
             /\ reachable' = TRUE
             /\ UNCHANGED <<hindsight, secret, edited, bounds>>

\* runSyncLoop: try again after the interval, or give up (it never does).
Retries_Never == FALSE
Retries == TRUE

Retry ==
    /\ At("wait") /\ Retries
    /\ Goto("load")
    /\ UNCHANGED <<hindsight, reachable, secret, edited, bounds>>

-----------------------------------------------------------------------------
(* Around it. *)

\* Hindsight goes away and comes back.
GoDown == up /\ up' = FALSE /\ syncFaults < MaxSyncFaults /\ syncFaults' = syncFaults + 1
            /\ UNCHANGED <<bank, config, directives, webhooks, svc, reachable, secret,
                           edited, edits, restarts>>
ComeUp == ~up /\ up' = TRUE
            /\ UNCHANGED <<bank, config, directives, webhooks, svc, reachable, secret,
                           edited, bounds>>

\* The service restarts, perhaps with another secret.
SyncRestart ==
    /\ restarts < MaxRestarts
    /\ restarts' = restarts + 1
    /\ svc' = StartPass
    /\ reachable' = TRUE
    /\ secret' \in Secrets
    /\ UNCHANGED <<hindsight, edited, syncFaults, edits>>

\* Somebody edits the bank in Hindsight's own interface.
Edit ==
    /\ bank /\ edits < MaxEdits
    /\ edits' = edits + 1
    /\ edited' = TRUE
    /\ \/ \E f \in Fields, v \in Values :
            config' = [config EXCEPT ![f] = v] /\ UNCHANGED <<directives, webhooks>>
       \/ \E n \in Foreign, v \in Values :
            /\ directives' = Append(directives, [name |-> n, content |-> v])
            /\ UNCHANGED <<config, webhooks>>
       \/ \E i \in DOMAIN directives, v \in Values :
            /\ directives' = [directives EXCEPT ![i].content = v]
            /\ UNCHANGED <<config, webhooks>>
       \/ \E i \in DOMAIN webhooks :
            /\ webhooks' = [webhooks EXCEPT ![i].enabled = FALSE]
            /\ UNCHANGED <<config, directives>>
    /\ UNCHANGED <<up, bank, svc, reachable, secret, syncFaults, restarts>>

\* A step of the goroutine that makes a pass.
Pass ==
    \/ LoadSeed \/ ListBanks \/ CreateBank \/ GetConfig \/ PatchConfig
    \/ ListDirectives \/ SyncDirective \/ ListWebhooks \/ RegisterWebhook
    \/ CallFails

SyncNext == Pass \/ Retry \/ GoDown \/ ComeUp \/ SyncRestart \/ Edit

SyncSpec == SyncInit /\ [][SyncNext]_syncVars

\* The goroutine keeps running, its calls return, the timer fires and
\* Hindsight comes back.
SyncFairness == WF_syncVars(Pass) /\ WF_syncVars(Retry) /\ WF_syncVars(ComeUp)

-----------------------------------------------------------------------------
(* Properties *)

\* However often a pass is cut short, repeated or its answers are lost, a name
\* of the YAML files has at most one directive and an endpoint at most one
\* webhook (sync.go, syncDirectives; server.go, RegisterWebhooks).
NoDuplicates ==
    /\ \A i, j \in DOMAIN directives :
        i # j /\ directives[i].name = directives[j].name => directives[i].name \in Foreign
    /\ \A i, j \in DOMAIN webhooks : i # j => webhooks[i].url # webhooks[j].url

\* When a pass has succeeded and nobody edited the bank meanwhile, the bank
\* says what the YAML files say (sync.go, Apply).
SyncedMeansSeeded ==
    At("done") /\ ~edited =>
        /\ bank /\ config = Wanted
        /\ \A i \in DOMAIN Seed : \E d \in DOMAIN directives :
                directives[d] = [name |-> Seed[i][1], content |-> Seed[i][2]]
        /\ \A i \in 1 .. 2 : \E w \in DOMAIN webhooks :
                webhooks[w].url = Targets[i] /\ webhooks[w].enabled

\* The sync never touches a directive that the YAML files do not name (sync.go,
\* syncDirectives).
ForeignKept ==
    [][edits' = edits =>
        \A i \in DOMAIN directives :
            directives[i].name \in Foreign => directives'[i] = directives[i]]_syncVars

\* What the startup sync keeps at every moment: a name of the YAML files has at
\* most one directive and an endpoint one webhook, and a pass that is done left
\* the bank as the files say (sync.go, Apply; server.go, RegisterWebhooks).
SyncSound == SyncTypeOK /\ NoDuplicates /\ SyncedMeansSeeded

\* The sync succeeds in the end (main.go, runSyncLoop).
Synced == []<>At("done")
=============================================================================
