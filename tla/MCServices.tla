----------------------------- MODULE MCServices -----------------------------
(***************************************************************************)
(* The stores and the background services, for safety: responses and       *)
(* sessions (ResponseStore, Transcript), the configuration (ConfigStore),  *)
(* the log history (LogHistory), the memory service (MemoryService), the   *)
(* retro-agent (Retro) and the agent registry (Registry).                  *)
(*                                                                         *)
(* A behaviour chooses one part; the parts of a component use the same     *)
(* variables, and the other components stay in an initial state.           *)
(***************************************************************************)
EXTENDS Retro, Registry

VARIABLES
    part,   \* the part that runs
    resp, list, index, turn, conv, known, saves, del, respUsed,
    client, stored, indexed, said,
    section, servers, handler, answer, saved, listed, requests,
    streams,
    conf, memories, minted, unknowns, memHandler, memRequests, edits, faults

responseVars == <<resp, list, index, turn, conv, known, saves, del, respUsed>>
transcriptVars == <<client, stored, indexed, said>>
configVars == <<section, servers, handler, answer, saved, listed, requests>>
memoryVars == <<conf, memories, minted, unknowns, memHandler, memRequests, edits, faults>>

\* Three turns that name, replay or branch off earlier ones beside a deletion;
\* three that only name them; four that replay without branching.
Three == {"t1", "t2", "t3"}
Four == {"t1", "t2", "t3", "t4"}
D == INSTANCE ResponseStore WITH
        Turns <- Three, None <- "none", Text <- [t \in Three |-> t], AllowReplay <- TRUE,
        Branching <- TRUE, MaxDeletes <- 1, MaxExpiries <- 0, MaxFaults <- 1,
        used <- respUsed
N == INSTANCE ResponseStore WITH
        Turns <- Three, None <- "none", Text <- [t \in Three |-> t], AllowReplay <- FALSE,
        Branching <- TRUE, MaxDeletes <- 1, MaxExpiries <- 0, MaxFaults <- 1,
        used <- respUsed
Y == INSTANCE ResponseStore WITH
        Turns <- Four, None <- "none", Text <- [t \in Four |-> t], AllowReplay <- TRUE,
        Branching <- FALSE, MaxDeletes <- 0, MaxExpiries <- 1, MaxFaults <- 0,
        used <- respUsed

\* Two turns, with an empty text and texts of one and of several pieces.
S == INSTANCE Transcript WITH
        Texts <- {<<>>, <<"hi">>, <<"so", " ", "long">>}, MaxTurns <- 2

\* One handler with two settings, one of whose environment variables does not
\* parse; and two handlers at once, where any read may fail.
F == INSTANCE ConfigStore WITH
        Handlers <- {"h1"}, Fields <- {"f1", "f2"}, Values <- {"v1", "v2"},
        Env <- [f1 |-> "v2", f2 |-> "garbled"], Default <- [f \in {"f1", "f2"} |-> "v1"],
        Names <- {"na", "nb"}, GetFails <- {"section"}, MaxRequests <- 3
G == INSTANCE ConfigStore WITH
        Handlers <- {"h1", "h2"}, Fields <- {"f1"}, Values <- {"v1"},
        Env <- [f1 |-> "unset"], Default <- [f1 |-> "v1"],
        Names <- {"na", "nb"}, GetFails <- {"section", "servers"}, MaxRequests <- 3

\* Two streams of up to two lines.
H == INSTANCE LogHistory WITH
        Services <- {"a", "b"}, TimeBase <- 3, Clock <- {<<1, 1>>, <<1, 2>>},
        Levels <- {"DEBUG", "WARN"}, Correlations <- {<<>>, <<1, 2>>},
        Filters <- [level : {"", "INFO", "WARN"}, corr : {<<>>, <<1>>}, limit : {1, 2}],
        Factor <- 1, MaxEntries <- 2

\* What clients of the memory service leave out, get wrong and ask for.
Retain(p, s, f, c) == [op |-> "retain", provenance |-> p, speaker |-> s, fact |-> f,
                       content |-> c]
Recall(s, fs, n) == [op |-> "recall", speaker |-> s, facts |-> fs, limit |-> n]
Forget(id) == [op |-> "forget", id |-> id]
MemoryBodies ==
    {Retain("", "", "", "plain"), Retain("bogus", "ann", "", "timed"),
     Retain("implicit", "bob", "opinion", "named"), Retain("implicit", "unknown", "", "named"),
     Retain("explicit", "bob", "context_fact", "plain"),
     Recall("ann", {}, 1), Recall("", {"world_fact"}, 2),
     Recall("bob", {"person_fact", "world_fact"}, 2), Recall("", {"opinion"}, 1),
     Forget(0), Forget(1)}
MemoryConfigs ==
    {[provenance |-> "explicit", primary |-> "ann", scope |-> "primary"],
     [provenance |-> "bogus", primary |-> "", scope |-> "any"],
     [provenance |-> "inferred", primary |-> "bob", scope |-> "explicit"]}
M == INSTANCE MemoryService WITH
        Handlers <- {"h1", "h2"}, People <- {"ann", "bob"}, Bodies <- MemoryBodies,
        Configs <- MemoryConfigs, MaxRequests <- 3, MaxEdits <- 1, MaxFaults <- 1,
        handler <- memHandler, requests <- memRequests

ASSUME /\ D!ResponseStoreAssumption /\ N!ResponseStoreAssumption /\ Y!ResponseStoreAssumption
       /\ F!ConfigStoreAssumption /\ G!ConfigStoreAssumption /\ H!LogHistoryAssumption
       /\ M!MemoryServiceAssumption /\ RetroAssumption /\ RegistryAssumption

MCInit ==
    /\ part \in {"responses", "named", "stitch", "transcript", "config", "configs",
                 "history", "memory", "jobs", "overrun", "registry"}
    /\ IF part = "stitch" THEN Y!Init ELSE D!Init
    /\ S!Init
    /\ IF part = "configs" THEN G!Init ELSE F!Init
    /\ H!Init /\ M!Init
    /\ part # "memory" => conf.primary = "ann"
    /\ Init /\ RegistryInit

ResponseStep ==
    /\ \/ part = "responses" /\ D!Next
       \/ part = "named" /\ N!Next
       \/ part = "stitch" /\ Y!Next
    /\ UNCHANGED <<part, transcriptVars, configVars, streams, memoryVars, vars, registryVars>>
TranscriptStep ==
    /\ part = "transcript" /\ S!Next
    /\ UNCHANGED <<part, responseVars, configVars, streams, memoryVars, vars, registryVars>>
ConfigStep ==
    /\ \/ part = "config" /\ F!Next
       \/ part = "configs" /\ G!Next
    /\ UNCHANGED <<part, responseVars, transcriptVars, streams, memoryVars, vars, registryVars>>
HistoryStep ==
    /\ part = "history" /\ H!Next
    /\ UNCHANGED <<part, responseVars, transcriptVars, configVars, memoryVars, vars, registryVars>>
MemoryStep ==
    /\ part = "memory" /\ M!Next
    /\ UNCHANGED <<part, responseVars, transcriptVars, configVars, streams, vars, registryVars>>
\* With a preemption; and triggered by hand too, with a failure and a run that
\* outlasts its lock.
RetroStep ==
    /\ part \in {"jobs", "overrun"} /\ Next
    /\ part = "jobs" => used'.triggers + used'.faults + used'.overruns = 0
    /\ part = "overrun" => used'.preempts = 0 /\ used'.events + used'.triggers <= 2
    /\ UNCHANGED <<part, responseVars, transcriptVars, configVars, streams, memoryVars, registryVars>>
RegistryStep ==
    /\ part = "registry" /\ RegistryNext
    /\ UNCHANGED <<part, responseVars, transcriptVars, configVars, streams, memoryVars, vars>>

MCNext == \/ ResponseStep \/ TranscriptStep \/ ConfigStep \/ HistoryStep
          \/ MemoryStep \/ RetroStep \/ RegistryStep

MCSpec ==
    MCInit /\ [][MCNext]_<<part, responseVars, transcriptVars, configVars, streams,
                           memoryVars, vars, registryVars>>

-----------------------------------------------------------------------------
\* A previous_response_id points to an earlier response of the same session, so
\* chains have no cycle, and what a session's list names is stored unless a
\* deletion is under way or broke off.  A turn that names a response is answered
\* from the conversation its client saw, or rejected; one that replays its
\* conversation without branching off is linked to what it replayed
\* (response/store.go, Save, WalkChain and DeleteSession;
\* gateway/responses.go, decideSession).
ResponsesSound ==
    CASE part = "responses" -> D!TypeOK /\ D!ChainSound /\ D!ListedIsStored
      [] part = "named" -> N!TypeOK /\ N!ChainSound /\ N!ChainIsConversation
      [] part = "stitch" -> Y!TypeOK /\ Y!ChainSound /\ Y!StitchedLinks
      [] OTHER -> TRUE

\* The canonical form of a replayed conversation, in whatever encoding, is the
\* one that was indexed; the history read back from the store, and the one
\* walked along the chain, is what was said, tools included, in order
\* (gateway/responses.go, writeStitchIndex and chainToMessages;
\* response/store.go, GetSessionMessages).
TranscriptFaithful ==
    part = "transcript" =>
        S!TypeOK /\ S!ReplayRecognised /\ S!HistoryIsSaid /\ S!ChainAgrees

\* With one handler at a time, what a service that starts now uses is, for every
\* setting, the last value that was stored and parses, else the environment's,
\* else the default, and the list holds exactly the servers that successful
\* edits left; with several handlers it is still a valid list (config/store.go,
\* Save and Load; config/resolve.go, SaveMCPServers; gateway/mcp.go).
ConfigSound ==
    CASE part = "config" -> F!TypeOK /\ F!SettingsKept /\ F!ServersKept /\ F!ListValid
      [] part = "configs" -> G!TypeOK /\ G!ListValid
      [] OTHER -> TRUE

\* A response of the log history holds the newest entries that match, and a
\* stricter filter finds nothing that a weaker one hides (gateway/logs.go,
\* handleLogHistory and filterMatches).
HistoryNewest == part = "history" => H!TypeOK /\ H!HistoryNewest /\ H!FilterMonotone

\* Every memory in the bank carries a valid provenance, a speaker and a valid
\* fact type although the configuration changes between the reads of its
\* defaults, and the counter of unknown speakers is never behind; a recall that
\* names a speaker answers with that speaker's memories only; no two forgets
\* claim to have deleted the same memory (memoryservice/server.go).
MemoriesSound ==
    part = "memory" =>
        /\ M!TypeOK /\ M!WellTagged /\ M!UnknownCounted
        /\ M!RecallScoped /\ M!ForgottenOnce
=============================================================================
