---------------------------- MODULE ConfigStore ----------------------------
(***************************************************************************)
(* The configuration in Valkey (internal/config): one section of settings, *)
(* edited by PUT /v1/config, and the list of MCP servers, edited by PUT,   *)
(* POST and DELETE on /v1/mcp/servers (internal/gateway/mcp.go).           *)
(*                                                                         *)
(* Every edit is a GET of the key followed by a SET of the whole value,    *)
(* with nothing that keeps another handler out between the two.  Either    *)
(* command can fail.  A setting is resolved from three layers: the stored  *)
(* value, then the environment, then the default.                          *)
(***************************************************************************)
EXTENDS Naturals, Sequences, FiniteSets, SequencesExt

CONSTANTS
    Handlers,    \* the HTTP handlers that may run at the same time
    Fields,      \* the settings of the section
    Values,      \* what a setting can be
    Env,         \* setting -> environment variable: a value, Unset or Garbled
    Default,     \* setting -> hardcoded default
    Names,       \* names of MCP servers
    GetFails,    \* the keys whose GET may fail, of {"section", "servers"}
    MaxRequests  \* bound: how many requests arrive

\* A setting that is not there, and text that does not parse as its type.
Unset == "unset"
Garbled == "garbled"

\* What the constants satisfy.
ConfigStoreAssumption ==
    /\ Default \in [Fields -> Values]
    /\ Env \in [Fields -> Values \cup {Unset, Garbled}]
    /\ GetFails \subseteq {"section", "servers"}
    /\ MaxRequests \in Nat
    /\ {Unset, Garbled} \cap Values = {}

VARIABLES
    section,   \* config:<section>: setting -> stored value or Unset
    servers,   \* config:mcp:servers: a sequence of entries
    handler,   \* handler -> the request it serves and what it has read
    answer,    \* handler -> the last status it answered
    saved,     \* setting -> the value of the last SET that carried it
    listed,    \* the names the edits that succeeded should have left
    requests   \* how many requests arrived

vars == <<section, servers, handler, answer, saved, listed, requests>>

Stored == [Fields -> Values \cup {Unset, Garbled}]

\* An MCP server of the list; "command" says whether it has a command.
Entries == [name : Names, command : BOOLEAN]
Lists == {<<>>} \cup {<<a>> : a \in Entries} \cup {<<a, b>> : a, b \in Entries}

\* The requests a client can send.
Bodies == [op : {"config"}, values : Stored \ {[f \in Fields |-> Unset]}]
            \cup [op : {"put"}, list : Lists]
            \cup [op : {"add"}, entry : Entries]
            \cup [op : {"delete"}, name : Names]
Idle == [op |-> "idle"]

NamesOf(list) == {list[i].name : i \in DOMAIN list}

\* Types; and the list is no longer than there are names.
TypeOK ==
    /\ section \in Stored
    /\ servers \in Seq(Entries) /\ Len(servers) <= Cardinality(Names)
    /\ \A h \in Handlers :
        /\ handler[h].body \in Bodies \cup {Idle}
        /\ handler[h].pc \in {"idle", "get", "set"}
        /\ handler[h].pc = "idle" <=> handler[h].body = Idle
    /\ answer \in [Handlers -> {0, 200, 201, 204, 400, 404, 409, 500}]
    /\ saved \in Stored
    /\ listed \subseteq Names
    /\ requests \in 0 .. MaxRequests

Init ==
    /\ section = [f \in Fields |-> Unset]
    /\ servers = <<>>
    /\ handler = [h \in Handlers |-> [pc |-> "idle", body |-> Idle, read |-> <<>>]]
    /\ answer = [h \in Handlers |-> 0]
    /\ saved = section
    /\ listed = {}
    /\ requests = 0

-----------------------------------------------------------------------------
(* Resolution: what a service that starts now would use. *)

\* The environment variable counts when it is set and parses.
EnvLayer(f) == IF Env[f] \in Values THEN Env[f] ELSE Default[f]

\* Load decodes the stored object over the layers below; a value of the wrong
\* type leaves the field as it was.
Resolve(f) == IF section[f] \in Values THEN section[f] ELSE EnvLayer(f)

-----------------------------------------------------------------------------
(* The list of MCP servers. *)

\* validateMCPServerEntry at position i of list: it has a command and no
\* earlier accepted entry has its name.
validateMCPServerEntry_Twice(list, i) == list[i].command
validateMCPServerEntry(list, i) ==
    list[i].command /\ \A j \in 1 .. i - 1 : list[j].command => list[j].name # list[i].name

\* ResolveMCPServers: the valid entries, in order.
ResolveMCPServers(list) ==
    LET ok == {i \in DOMAIN list : validateMCPServerEntry(list, i)}
    IN [i \in 1 .. Cardinality(ok) |-> list[SetToSortSeq(ok, <)[i]]]

\* SaveMCPServers refuses a list with an invalid entry.
Acceptable(list) == \A i \in DOMAIN list : validateMCPServerEntry(list, i)

-----------------------------------------------------------------------------
(* Requests.  A client's request reaches an idle handler. *)

Receive(h, body) ==
    /\ handler[h].pc = "idle"
    /\ requests < MaxRequests
    /\ requests' = requests + 1
    /\ handler' = [handler EXCEPT ![h] =
            [pc |-> IF body.op = "put" THEN "set" ELSE "get", body |-> body,
             read |-> <<>>]]
    /\ UNCHANGED <<section, servers, answer, saved, listed>>

Answered(h, status) ==
    /\ answer' = [answer EXCEPT ![h] = status]
    /\ handler' = [handler EXCEPT ![h] = [pc |-> "idle", body |-> Idle, read |-> <<>>]]

HasRead(h, value) ==
    handler' = [handler EXCEPT ![h].pc = "set", ![h].read = value]

\* Save: GET the section; a failed read ends the request, nothing is written.
GetSection(h) ==
    /\ handler[h].pc = "get" /\ handler[h].body.op = "config"
    /\ \/ HasRead(h, section) /\ UNCHANGED answer
       \/ "section" \in GetFails /\ Answered(h, 500)
    /\ UNCHANGED <<section, servers, saved, listed, requests>>

\* Save: the incoming settings laid over the ones that were read.
Merged_Replace(old, values) == values
Merged(old, values) == [f \in Fields |-> IF values[f] # Unset THEN values[f] ELSE old[f]]

\* A SET that fails may have been carried out all the same.
SetSection(h) ==
    LET values == handler[h].body.values
    IN /\ handler[h].pc = "set" /\ handler[h].body.op = "config"
       /\ \/ /\ section' = Merged(handler[h].read, values)
             /\ saved' = [f \in Fields |-> IF values[f] # Unset THEN values[f] ELSE saved[f]]
             /\ \E status \in {200, 500} : Answered(h, status)
          \/ Answered(h, 500) /\ UNCHANGED <<section, saved>>
       /\ UNCHANGED <<servers, listed, requests>>

\* handleAddMCPServer and handleDeleteMCPServer: ResolveMCPServers, which
\* answers a failed read with the empty list.
GetServers(h) ==
    /\ handler[h].pc = "get" /\ handler[h].body.op \in {"add", "delete"}
    /\ \/ HasRead(h, ResolveMCPServers(servers))
       \/ "servers" \in GetFails /\ HasRead(h, <<>>)
    /\ UNCHANGED <<section, servers, answer, saved, listed, requests>>

\* What an edit makes of the list it read.
Without(list, n) == SelectSeq(list, LAMBDA e : e.name # n)
Updated_AddOnly(body, list) ==
    CASE body.op = "put" -> body.list
      [] body.op = "add" -> <<body.entry>>
      [] body.op = "delete" -> Without(list, body.name)
Updated(body, list) ==
    CASE body.op = "put" -> body.list
      [] body.op = "add" -> Append(list, body.entry)
      [] body.op = "delete" -> Without(list, body.name)

\* 409 for a name that is there, 404 for one that is not.
Refusal(body, list) ==
    CASE body.op = "add" /\ body.entry.name \in NamesOf(list) -> 409
      [] body.op = "delete" /\ body.name \notin NamesOf(list) -> 404
      [] OTHER -> 0

Success(op) == IF op = "add" THEN 201 ELSE 204
Failure(op) == IF op = "delete" THEN 500 ELSE 400

\* The names that should be listed once the edit is done.
Intended(body) ==
    CASE body.op = "put" -> NamesOf(body.list)
      [] body.op = "add" -> listed \cup {body.entry.name}
      [] body.op = "delete" -> listed \ {body.name}

\* The check for conflicts, then SaveMCPServers.
SetServers(h) ==
    LET body == handler[h].body
        list == Updated(body, handler[h].read)
        refusal == Refusal(body, handler[h].read)
    IN /\ handler[h].pc = "set" /\ body.op \in {"put", "add", "delete"}
       /\ \/ /\ refusal # 0
             /\ Answered(h, refusal) /\ UNCHANGED <<servers, listed>>
          \/ /\ refusal = 0 /\ ~Acceptable(list)
             /\ Answered(h, Failure(body.op)) /\ UNCHANGED <<servers, listed>>
          \/ /\ refusal = 0 /\ Acceptable(list)
             /\ servers' = list
             /\ listed' = Intended(body)
             /\ \E status \in {Success(body.op), Failure(body.op)} : Answered(h, status)
          \/ /\ refusal = 0 /\ Acceptable(list)
             /\ Answered(h, Failure(body.op)) /\ UNCHANGED <<servers, listed>>
       /\ UNCHANGED <<section, saved, requests>>

Next ==
    \E h \in Handlers :
        \/ \E body \in Bodies : Receive(h, body)
        \/ GetSection(h) \/ SetSection(h)
        \/ GetServers(h) \/ SetServers(h)

Spec == Init /\ [][Next]_vars

-----------------------------------------------------------------------------
(* Properties *)

\* What a service that starts now uses is, for every setting, the last value
\* that was stored for it and parses, else the environment's, else the default:
\* Save merges, and gives up when it cannot read what is there (store.go, Save
\* and Load; resolve.go).
SettingsKept ==
    \A f \in Fields :
        Resolve(f) = IF saved[f] \in Values THEN saved[f]
                     ELSE IF Env[f] \in Values THEN Env[f] ELSE Default[f]

\* The list holds exactly the servers the successful edits should have left
\* (mcp.go, handleAddMCPServer and handleDeleteMCPServer).
ServersKept == NamesOf(servers) = listed

\* Whatever handlers run at the same time, the stored list never has two
\* servers of one name nor an entry without a command, so the read that skips
\* invalid entries skips none (resolve.go, SaveMCPServers, ResolveMCPServers).
ListValid ==
    /\ \A i, j \in DOMAIN servers : i # j => servers[i].name # servers[j].name
    /\ ResolveMCPServers(servers) = servers
=============================================================================
