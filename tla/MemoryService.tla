--------------------------- MODULE MemoryService ---------------------------
(***************************************************************************)
(* The request handlers of the memory service (internal/memoryservice/     *)
(* server.go): retain, recall and forget, over a bank kept by Hindsight.   *)
(*                                                                         *)
(* Every handler that needs a default resolves config:memory again, so an  *)
(* operator's edit can fall between two reads of one request.  A call to   *)
(* Hindsight fails, succeeds, or takes effect and loses its answer.        *)
(***************************************************************************)
EXTENDS Naturals, FiniteSets, TLC

CONSTANTS
    Handlers,    \* requests served at the same time
    People,      \* speaker ids
    Bodies,      \* the requests clients send
    Configs,     \* the values operators give config:memory
    MaxRequests, \* bound: requests
    MaxEdits,    \* bound: edits of config:memory
    MaxFaults    \* bound: calls to Hindsight that fail or lose their answer

\* What the constants satisfy.
MemoryServiceAssumption == {MaxRequests, MaxEdits, MaxFaults} \subseteq Nat

VARIABLES
    conf,      \* config:memory: provenance, primary_user_id and speaker scope
    memories,  \* the bank: id -> metadata, for the ids it has
    minted,    \* how many memories Hindsight ever stored
    unknowns,  \* Server.unknownSpeakerRetains
    handler,   \* handler -> its request and progress
    requests, edits, faults

vars == <<conf, memories, minted, unknowns, handler, requests, edits, faults>>

validProvenance == {"explicit", "implicit", "inferred", "researched"}
validFactTypes == {"person_fact", "world_fact", "context_fact", "procedural_fact"}
Omitted == ""

Idle == [pc |-> "idle", status |-> 0, op |-> "none"]
Metadata == [provenance : validProvenance, speaker : People \cup {"unknown"},
             fact : validFactTypes]

\* Types; and the bank's ids are those Hindsight minted.
TypeOK ==
    /\ conf \in Configs
    /\ minted \in 0 .. MaxRequests
    /\ DOMAIN memories \subseteq 1 .. minted
    /\ unknowns \in 0 .. requests
    /\ \A h \in Handlers :
        /\ handler[h].pc \in {"idle", "provenance", "speaker", "fact", "store",
                              "scope", "types", "search", "find", "delete"}
        /\ handler[h].status \in {0, 200, 400, 404, 502}

Init ==
    /\ conf \in Configs
    /\ memories = <<>> /\ minted = 0 /\ unknowns = 0
    /\ handler = [h \in Handlers |-> Idle]
    /\ requests = 0 /\ edits = 0 /\ faults = 0

-----------------------------------------------------------------------------

\* A request arrives; one without content or query is refused at once.
Receive(h, body) ==
    /\ handler[h].pc = "idle" /\ requests < MaxRequests
    /\ requests' = requests + 1
    /\ handler' = [handler EXCEPT ![h] =
            CASE body.op = "retain" ->
                    body @@ [pc |-> "provenance", status |-> 0]
              [] body.op = "recall" ->
                    body @@ [pc |-> "scope", status |-> 0, filter |-> Omitted,
                             found |-> {}]
              [] body.op = "forget" ->
                    body @@ [pc |-> IF body.id = 0 THEN "find" ELSE "delete",
                             status |-> 0, target |-> body.id]]
    /\ UNCHANGED <<conf, memories, minted, unknowns, edits, faults>>

\* PUT /v1/config changes config:memory.
EditConfig ==
    /\ edits < MaxEdits
    /\ edits' = edits + 1
    /\ conf' \in Configs \ {conf}
    /\ UNCHANGED <<memories, minted, unknowns, handler, requests, faults>>

Done(h, status) == [handler[h] EXCEPT !.pc = "idle", !.status = status]
Becomes(h, r) == handler' = [handler EXCEPT ![h] = r]

-----------------------------------------------------------------------------
(* POST /retain *)

\* defaultProvenance: the configured default, "explicit" when it is not valid.
defaultProvenance ==
    IF conf.provenance \in validProvenance THEN conf.provenance ELSE "explicit"

RetainProvenance(h) ==
    LET p == IF handler[h].provenance = Omitted THEN defaultProvenance
             ELSE handler[h].provenance
    IN /\ handler[h].pc = "provenance"
       /\ Becomes(h, IF p \notin validProvenance THEN Done(h, 400)
                     ELSE [handler[h] EXCEPT !.pc = "speaker", !.provenance = p])
       /\ UNCHANGED <<conf, memories, minted, unknowns, requests, edits, faults>>

\* The speaker: the request's, the primary user, or "unknown".
Speaker(h) ==
    CASE handler[h].speaker # Omitted -> handler[h].speaker
      [] handler[h].speaker = Omitted /\ conf.primary # Omitted -> conf.primary
      [] OTHER -> "unknown"

\* Whether the retain counts as one of an unknown speaker.
Counts_Defaulted(h) == handler[h].speaker = Omitted /\ Speaker(h) = "unknown"
Counts(h) == Speaker(h) = "unknown"

RetainSpeaker(h) ==
    /\ handler[h].pc = "speaker"
    /\ unknowns' = unknowns + (IF Counts(h) THEN 1 ELSE 0)
    /\ Becomes(h, [handler[h] EXCEPT !.pc = "fact", !.speaker = Speaker(h)])
    /\ UNCHANGED <<conf, memories, minted, requests, edits, faults>>

\* inferFactType: a time cue, else an entity that is not a class, else neither.
inferFactType(content) ==
    CASE content = "timed" -> "context_fact"
      [] content = "named" -> "person_fact"
      [] OTHER -> "world_fact"

\* validFactType refuses a fact type it does not know.
RefusedFact_Never(h) == FALSE
RefusedFact(h) == handler[h].fact # Omitted /\ handler[h].fact \notin validFactTypes

RetainFact(h) ==
    /\ handler[h].pc = "fact"
    /\ Becomes(h, IF RefusedFact(h) THEN Done(h, 400)
                  ELSE [handler[h] EXCEPT !.pc = "store",
                            !.fact = IF @ = Omitted THEN inferFactType(handler[h].content)
                                     ELSE @])
    /\ UNCHANGED <<conf, memories, minted, unknowns, requests, edits, faults>>

\* Hindsight stores the item; the answer may be lost.
RetainStore(h) ==
    /\ handler[h].pc = "store"
    /\ minted' = minted + 1
    /\ memories' = (minted + 1 :> [provenance |-> handler[h].provenance,
                                   speaker |-> handler[h].speaker,
                                   fact |-> handler[h].fact]) @@ memories
    /\ \/ Becomes(h, Done(h, 200)) /\ UNCHANGED faults
       \/ faults < MaxFaults /\ faults' = faults + 1 /\ Becomes(h, Done(h, 502))
    /\ UNCHANGED <<conf, unknowns, requests, edits>>

\* A call to Hindsight that fails without effect: 502.
CallFails(h) ==
    /\ handler[h].pc \in {"store", "search", "find", "delete"}
    /\ faults < MaxFaults
    /\ faults' = faults + 1
    /\ Becomes(h, Done(h, 502))
    /\ UNCHANGED <<conf, memories, minted, unknowns, requests, edits>>

-----------------------------------------------------------------------------
(* POST /recall *)

\* The speaker scope: the request's speaker, or what the configuration says.
RecallScope(h) ==
    LET given == handler[h].speaker
    IN /\ handler[h].pc = "scope"
       /\ Becomes(h,
            IF given = Omitted /\ conf.scope = "explicit" THEN Done(h, 400)
            ELSE [handler[h] EXCEPT !.pc = "types",
                    !.filter = IF given # Omitted THEN given
                               ELSE IF conf.scope = "primary" THEN conf.primary
                               ELSE Omitted])
       /\ UNCHANGED <<conf, memories, minted, unknowns, requests, edits, faults>>

\* The fact types asked for: each is checked.
RecallTypes(h) ==
    /\ handler[h].pc = "types"
    /\ Becomes(h, IF handler[h].facts \subseteq validFactTypes
                  THEN [handler[h] EXCEPT !.pc = "search"]
                  ELSE Done(h, 400))
    /\ UNCHANGED <<conf, memories, minted, unknowns, requests, edits, faults>>

\* The metadata filter sent to Hindsight; a fact type is sent when it is the
\* only one.
Selected_NoSpeaker(h, m) ==
    Cardinality(handler[h].facts) = 1 => {m.fact} = handler[h].facts
Selected(h, m) ==
    /\ handler[h].filter # Omitted => m.speaker = handler[h].filter
    /\ Cardinality(handler[h].facts) = 1 => {m.fact} = handler[h].facts

\* Hindsight answers with memories that pass the filter; the handler cuts them
\* to the limit.
RecallSearch(h) ==
    LET hits == {i \in DOMAIN memories : Selected(h, memories[i])}
    IN /\ handler[h].pc = "search"
       /\ \E found \in SUBSET hits :
            /\ Cardinality(found) =
                IF Cardinality(hits) < handler[h].limit THEN Cardinality(hits)
                ELSE handler[h].limit
            /\ Becomes(h, [Done(h, 200) EXCEPT !.found = {memories[i] : i \in found}])
       /\ UNCHANGED <<conf, memories, minted, unknowns, requests, edits, faults>>

-----------------------------------------------------------------------------
(* POST /forget *)

\* By query: recall, and take the best match.
ForgetFind(h) ==
    /\ handler[h].pc = "find"
    /\ IF memories = <<>> THEN Becomes(h, Done(h, 404))
       ELSE \E i \in DOMAIN memories :
                Becomes(h, [handler[h] EXCEPT !.pc = "delete", !.target = i])
    /\ UNCHANGED <<conf, memories, minted, unknowns, requests, edits, faults>>

\* What Hindsight's answer to the DELETE becomes.
DeleteStatus_Always(h) == 200
DeleteStatus(h) == IF handler[h].target \in DOMAIN memories THEN 200 ELSE 404

\* Hindsight deletes the memory; the answer may be lost.
ForgetDelete(h) ==
    /\ handler[h].pc = "delete"
    /\ memories' = [i \in DOMAIN memories \ {handler[h].target} |-> memories[i]]
    /\ \/ Becomes(h, Done(h, DeleteStatus(h))) /\ UNCHANGED faults
       \/ faults < MaxFaults /\ faults' = faults + 1 /\ Becomes(h, Done(h, 502))
    /\ UNCHANGED <<conf, minted, unknowns, requests, edits>>

Next ==
    \/ EditConfig
    \/ \E h \in Handlers :
        \/ \E body \in Bodies : Receive(h, body)
        \/ RetainProvenance(h) \/ RetainSpeaker(h) \/ RetainFact(h) \/ RetainStore(h)
        \/ RecallScope(h) \/ RecallTypes(h) \/ RecallSearch(h)
        \/ ForgetFind(h) \/ ForgetDelete(h) \/ CallFails(h)

Spec == Init /\ [][Next]_vars

-----------------------------------------------------------------------------
(* Properties *)

\* Every memory in the bank carries a valid provenance, a speaker and a valid
\* fact type, whatever the client left out and whatever the configuration said
\* when each default was read (server.go, handleRetain).
WellTagged == \A i \in DOMAIN memories : memories[i] \in Metadata

\* The counter of unknown speakers never falls behind the bank: it is at least
\* the number of memories kept for an unknown speaker (server.go, handleRetain).
UnknownCounted ==
    Cardinality({i \in DOMAIN memories : memories[i].speaker = "unknown"}) <= unknowns

\* A recall that names a speaker answers with that speaker's memories only
\* (server.go, handleRecall).
RecallScoped ==
    \A h \in Handlers :
        handler[h].op = "recall" /\ handler[h].speaker # Omitted =>
            \A m \in handler[h].found : m.speaker = handler[h].speaker

\* No two forgets claim to have deleted the same memory (server.go,
\* handleForget).
ForgottenOnce ==
    \A g, h \in Handlers :
        (/\ g # h /\ handler[g].op = "forget" /\ handler[h].op = "forget"
         /\ handler[g].status = 200 /\ handler[h].status = 200)
            => handler[g].target # handler[h].target
=============================================================================
