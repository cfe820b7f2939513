------------------------------ MODULE LLMProxy -------------------------------
(***************************************************************************)
(* internal/llmproxy/server.go: an OpenAI-compatible HTTP request acquires *)
(* a hindsight slot, forwards the chat over the broker, relays the reply   *)
(* stream as one JSON body or as server-sent events, and gives the slot    *)
(* back.  Requests are handled concurrently and their client may go away.  *)
(*                                                                         *)
(* The broker is external: it may offer a slot or stay silent, and it      *)
(* answers with tokens, tool calls and a Done, or stops short.  Values are *)
(* numbered in the order the broker publishes them.                        *)
(***************************************************************************)
EXTENDS Naturals, Sequences, FiniteSets

CONSTANTS
    Requests,       \* HTTP requests
    Streaming,      \* those with "stream": true
    MaxReply,       \* tokens and tool calls the broker publishes per request
    MaxFaults       \* failing operations on Valkey

\* What the constants satisfy.
LLMProxyAssumption ==
    /\ Streaming \subseteq Requests
    /\ MaxReply \in Nat /\ MaxFaults \in Nat

VARIABLES
    pc,         \* where handleChatCompletions is
    slot,       \* the broker's view: "none", "offered", "acked", "freed"
    httpReply,  \* the LLM reply stream of a request, as published
    read,       \* how much of it was read and acknowledged
    content,    \* the tokens collected or emitted
    tools,      \* the tool calls collected
    gone,       \* requests whose client disconnected
    expired,    \* requests whose RequestTimeout passed
    http,       \* what was written to the client
    released,   \* how many SlotRelease messages with the slot's id went out
    defensive,  \* ... and how many with slot -1
    outstanding,
    faults

inbound == <<httpReply, read, content, tools>>
context == <<gone, expired>>
releases == <<released, defensive>>
proxyVars == <<pc, slot, inbound, context, http, releases, outstanding, faults>>

CtxDone(h) == h \in gone \cup expired

ProxyInit ==
    /\ pc = [h \in Requests |-> "new"] /\ slot = [h \in Requests |-> "none"]
    /\ httpReply = [h \in Requests |-> <<>>] /\ read = [h \in Requests |-> 0]
    /\ content = [h \in Requests |-> <<>>] /\ tools = [h \in Requests |-> <<>>]
    /\ gone = {} /\ expired = {} /\ http = [h \in Requests |-> <<>>]
    /\ released = [h \in Requests |-> 0] /\ defensive = [h \in Requests |-> 0]
    /\ outstanding = 0 /\ faults = 0

Goto(h, l) == pc' = [pc EXCEPT ![h] = l]
Write(h, events) == http' = [http EXCEPT ![h] = @ \o events]
Fault == faults < MaxFaults /\ faults' = faults + 1

\* A call on Valkey succeeds, or fails because the context ended or the
\* server did.
Succeeds(h) == ~CtxDone(h) /\ UNCHANGED faults
Fails(h) == \/ CtxDone(h) /\ UNCHANGED faults
            \/ ~CtxDone(h) /\ Fault

-----------------------------------------------------------------------------
(* The environment: the HTTP client, the clock and the broker. *)

\* Where the handler still looks at the request's context.
Watching == {"slot", "publish", "group", "role", "relay"}

Disconnect(h) ==
    /\ pc[h] \in Watching /\ h \notin gone
    /\ gone' = gone \cup {h}
    /\ UNCHANGED <<pc, slot, inbound, expired, http, releases, outstanding, faults>>

Expire(h) ==
    /\ pc[h] \in Watching /\ ~CtxDone(h)
    /\ expired' = expired \cup {h}
    /\ UNCHANGED <<pc, slot, inbound, gone, http, releases, outstanding, faults>>

\* The broker offers a slot, perhaps when the request has given up waiting,
\* and takes an offer back that is not acknowledged in time.
Offer(h) ==
    /\ pc[h] # "new" /\ http[h] # <<<<"error", 400>>>> /\ slot[h] = "none"
    /\ slot' = [slot EXCEPT ![h] = "offered"]
    /\ UNCHANGED <<pc, inbound, context, http, releases, outstanding, faults>>

Reclaim(h) ==
    /\ slot[h] = "offered"
    /\ slot' = [slot EXCEPT ![h] = "freed"]
    /\ UNCHANGED <<pc, inbound, context, http, releases, outstanding, faults>>

\* The broker relays one more token or tool call, or the terminal Done.
BrokerReply(h) ==
    LET n == Len(httpReply[h])
    IN  /\ pc[h] \in {"group", "role", "relay"}
        /\ \A i \in 1 .. n : httpReply[h][i][1] # "done"
        /\ \E kind \in IF n < MaxReply THEN {"token", "tool", "done"} ELSE {"done"} :
              httpReply' = [httpReply EXCEPT ![h] =
                  Append(@, <<kind, IF kind = "done" THEN 0 ELSE n + 1>>)]
        /\ UNCHANGED <<pc, slot, read, content, tools, context, http, releases,
                       outstanding, faults>>

-----------------------------------------------------------------------------
(* handleChatCompletions. *)

\* Count the request, decode it, and ask for a slot.
Receive(h) ==
    /\ pc[h] = "new" /\ outstanding' = outstanding + 1
    /\ \/ Goto(h, "slot") /\ UNCHANGED http
       \/ Goto(h, "leave") /\ Write(h, <<<<"error", 400>>>>)
    /\ UNCHANGED <<slot, inbound, context, releases, faults>>

\* acquireSlot: the offer arrives and is acknowledged ...
SlotAcquired(h) ==
    /\ pc[h] = "slot" /\ slot[h] # "none" /\ Succeeds(h)
    /\ slot' = [slot EXCEPT ![h] = IF @ = "offered" THEN "acked" ELSE @]
    /\ Goto(h, "publish")
    /\ UNCHANGED <<inbound, context, http, releases, outstanding>>

\* ... or SlotTimeout passes, the context ends, or a publish fails: the
\* defensive release names no slot, and the broker frees every slot of the
\* proxy's identity.
DefensiveRelease_Never(h) == UNCHANGED <<defensive, slot>>
DefensiveRelease(h) ==
    /\ defensive' = [defensive EXCEPT ![h] = @ + 1]
    /\ slot' = [r \in Requests |-> IF slot[r] = "none" THEN "none" ELSE "freed"]

SlotUnavailable(h) ==
    /\ pc[h] = "slot"
    /\ \/ DefensiveRelease(h) /\ UNCHANGED faults
       \/ Fault /\ UNCHANGED <<defensive, slot>>
    /\ Write(h, <<<<"error", 503>>>>)
    /\ Goto(h, "leave")
    /\ UNCHANGED <<inbound, context, released, outstanding>>

PublishLLMRequest(h) ==
    /\ pc[h] = "publish"
    /\ \/ Succeeds(h) /\ Goto(h, "group") /\ UNCHANGED http
       \/ Fails(h) /\ Goto(h, "release") /\ Write(h, <<<<"error", 502>>>>)
    /\ UNCHANGED <<slot, inbound, context, releases, outstanding>>

\* EnsureGroup from the start of the reply stream.
EnsureReplyGroup(h) ==
    /\ pc[h] = "group"
    /\ \/ /\ Succeeds(h) /\ UNCHANGED http
          /\ Goto(h, IF h \in Streaming THEN "role" ELSE "relay")
       \/ Fails(h) /\ Goto(h, "release") /\ Write(h, <<<<"error", 500>>>>)
    /\ UNCHANGED <<slot, inbound, context, releases, outstanding>>

\* streamResponse commits the status and emits the role; a failed write to a
\* client that is gone ends the response here.
EmitRole(h) ==
    /\ pc[h] = "role"
    /\ \/ Goto(h, "relay") /\ Write(h, <<<<"role", 0>>>>)
       \/ h \in gone /\ Goto(h, "release") /\ UNCHANGED http
    /\ UNCHANGED <<slot, inbound, context, releases, outstanding, faults>>

\* One message of consumeReplyWithCallbacks: a token is kept, and emitted at
\* once when streaming, a tool call is kept, Done ends the loop.
Taken(kept, msg, kind) == IF msg[1] = kind THEN Append(kept, msg) ELSE kept

ConsumeReply(h) ==
    LET msg == httpReply[h][read[h] + 1]
    IN  /\ pc[h] = "relay" /\ read[h] < Len(httpReply[h])
        /\ read' = [read EXCEPT ![h] = @ + 1]
        /\ content' = [content EXCEPT ![h] = Taken(@, msg, "token")]
        /\ tools' = [tools EXCEPT ![h] = Taken(@, msg, "tool")]
        /\ Goto(h, IF msg[1] = "done" THEN "respond" ELSE "relay")
        /\ IF msg[1] = "token" /\ h \in Streaming THEN Write(h, <<msg>>)
           ELSE UNCHANGED http
        /\ UNCHANGED <<slot, httpReply, context, releases, outstanding, faults>>

\* The head of the loop, or a failed read, notices that the context ended.
ReplyCut(h) ==
    /\ pc[h] = "relay" /\ CtxDone(h)
    /\ Goto(h, "cut")
    /\ UNCHANGED <<slot, inbound, context, http, releases, outstanding, faults>>

\* finishReason, and the tool calls that go with it.
Finish(calls) == <<IF calls = <<>> THEN "stop" ELSE "tool_calls", calls>>

\* aggregateResponse: one body after Done, an error otherwise;
\* streamResponse: the finish chunk and [DONE] in both cases.
AggregateAnswer_NoError(h) == content[h] \o <<Finish(tools[h])>>
AggregateAnswer(h) ==
    IF pc[h] = "cut" THEN <<<<"error", 502>>>> ELSE content[h] \o <<Finish(tools[h])>>

StreamTail_NoFinish(h) == <<<<"DONE", 0>>>>
StreamTail(h) == <<Finish(tools[h]), <<"DONE", 0>>>>

Respond(h) ==
    /\ pc[h] \in {"respond", "cut"}
    /\ Write(h, IF h \in Streaming THEN StreamTail(h) ELSE AggregateAnswer(h))
    /\ Goto(h, "release")
    /\ UNCHANGED <<slot, inbound, context, releases, outstanding, faults>>

\* The deferred release, under a context of its own.
ReleasePath_DoneOnly(h) == pc[h] = "release" /\ ~CtxDone(h)
ReleasePath(h) == pc[h] = "release"

Release(h) ==
    /\ ReleasePath(h)
    /\ \/ /\ released' = [released EXCEPT ![h] = @ + 1]
          /\ slot' = [slot EXCEPT ![h] = "freed"] /\ UNCHANGED faults
       \/ Fault /\ UNCHANGED <<released, slot>>
    /\ Goto(h, "leave")
    /\ UNCHANGED <<inbound, context, http, defensive, outstanding>>

EndOutstanding == outstanding - 1

Leave(h) ==
    /\ pc[h] = "leave"
    /\ outstanding' = EndOutstanding /\ Goto(h, "end")
    /\ UNCHANGED <<slot, inbound, context, http, releases, faults>>

Handler(h) ==
    \/ Receive(h) \/ SlotAcquired(h) \/ SlotUnavailable(h)
    \/ PublishLLMRequest(h) \/ EnsureReplyGroup(h) \/ EmitRole(h) \/ ConsumeReply(h)
    \/ ReplyCut(h) \/ Respond(h) \/ Release(h) \/ Leave(h)

ProxyNext == \E h \in Requests : \/ Disconnect(h) \/ Expire(h) \/ Offer(h)
                            \/ Reclaim(h) \/ BrokerReply(h) \/ Handler(h)

\* The handler runs and its deadline passes: nothing is asked of the broker
\* or of the client.
ProxyFairness == \A h \in Requests : WF_proxyVars(Handler(h)) /\ WF_proxyVars(Expire(h))

ProxySpec == ProxyInit /\ [][ProxyNext]_proxyVars /\ ProxyFairness

-----------------------------------------------------------------------------
\* The variables keep their types; outstanding counts the open requests.
ProxyTypeOK ==
    /\ slot \in [Requests -> {"none", "offered", "acked", "freed"}]
    /\ \A h \in Requests : read[h] \in 0..Len(httpReply[h])
    /\ released \in [Requests -> 0..1] /\ defensive \in [Requests -> 0..1]
    /\ outstanding = Cardinality({h \in Requests : pc[h] \notin {"new", "end"}})

\* A request that acquired its slot releases it exactly once and one that did
\* not sends one defensive release instead, on every path out of the handler:
\* answered, failed, timed out or disconnected.  No slot stays assigned to a
\* request that ended; an offer that came too late is the broker's to reclaim.
SlotGivenBack ==
    \A h \in Requests :
        pc[h] = "end" /\ faults = 0 =>
            /\ slot[h] # "acked"
            /\ released[h] + defensive[h] = IF http[h] = <<<<"error", 400>>>>
                                            THEN 0 ELSE 1

\* The messages of one kind among the first n of a reply, each once and in the
\* order they were published (a message carries its number).
AllOf(kept, all, n, kind) ==
    /\ \A i \in 1 .. Len(kept) : \E k \in 1 .. n : kept[i] = all[k] /\ all[k][1] = kind
    /\ \A k \in 1 .. n : all[k][1] = kind => \E i \in 1 .. Len(kept) : kept[i] = all[k]
    /\ \A i, j \in 1 .. Len(kept) : i < j => kept[i][2] < kept[j][2]

\* A non-streaming 200 is only written after the broker's Done, with every
\* token and every tool call in order: a cut answer is an error (server.go,
\* aggregateResponse).
BodyIsWhole ==
    \A h \in Requests \ Streaming :
        LET n == Len(http[h])
            all == httpReply[h]
        IN  pc[h] = "end" /\ http[h][1][1] # "error" =>
              /\ all # <<>> /\ all[Len(all)][1] = "done"
              /\ AllOf(SubSeq(http[h], 1, n - 1), all, Len(all), "token")
              /\ AllOf(http[h][n][2], all, Len(all), "tool")
              /\ http[h][n] = Finish(http[h][n][2])

\* A stream, once opened, is the role, the tokens in order, one finish chunk
\* with the tool calls and [DONE], whether the upstream answer finished or was
\* cut; what was read of the answer is in it whole (server.go, streamResponse).
StreamShape ==
    \A h \in Streaming :
        LET out == http[h]
            n == Len(out)
        IN  pc[h] = "end" /\ n > 0 /\ out[1][1] = "role" =>
              /\ n >= 3 /\ out[n][1] = "DONE"
              /\ out[n - 1] = Finish(out[n - 1][2])
              /\ AllOf(SubSeq(out, 2, n - 2), httpReply[h], read[h], "token")
              /\ AllOf(out[n - 1][2], httpReply[h], read[h], "tool")

\* What a request to llm-proxy keeps, all together (server.go).
ProxySound == ProxyTypeOK /\ SlotGivenBack /\ BodyIsWhole /\ StreamShape

\* Every request is answered and its handler ends, even if the broker never
\* offers a slot or never sends Done.
RequestEnds == \A h \in Requests : pc[h] = "new" ~> pc[h] = "end"
=============================================================================
