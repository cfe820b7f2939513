--------------------------- MODULE MCRequestsLive ---------------------------
(***************************************************************************)
(* The life of a request, for liveness: an LLM exchange on a slot          *)
(* (Inference), a request to llm-proxy (LLMProxy) and a chat turn through  *)
(* all services (Turn), in small instances.  MCRequests has the larger     *)
(* ones for safety.                                                        *)
(*                                                                         *)
(* A behaviour chooses one of six parts; the two parts of a component use  *)
(* the same variables, and the other components stay in an initial state.  *)
(***************************************************************************)
EXTENDS Naturals, Sequences

VARIABLES
    part,   \* the part that runs
    slots, requests, handler, proxy, reply, exec, listener, signal, preempted, used,
    pc, slot, httpReply, read, content, tools, gone, expired, http, released, defensive, outstanding, faults,
    turn, tokenSub, traceSub, tokenBuf, traceBuf, turnRequests, agentQ, agent, turnReply,
    stored, history, said, trace, answered, turnFaults

execVars == <<slots, requests, handler, proxy, reply, exec, listener, signal, preempted, used>>
proxyVars == <<pc, slot, httpReply, read, content, tools, gone, expired, http, released, defensive,
               outstanding, faults>>
turnVars == <<turn, tokenSub, traceSub, tokenBuf, traceBuf, turnRequests, agentQ, agent,
              turnReply, stored, history, said, trace, answered, turnFaults>>

\* An agent that can be preempted beside a client without a reply stream.
X == INSTANCE Inference WITH
        Agents <- {"retro", "client"}, Slots <- {1}, NoAgent <- "nobody",
        Preemptible <- {"retro"}, Silent <- {"client"}, MaxRuns <- 1, MaxTokens <- 1,
        MaxTools <- 1, TokenCap <- 1, ToolCap <- 1, MaxTaken <- 1, MaxLost <- 0,
        MaxCrashes <- 0

\* One agent that asks twice, a broker that may crash, a message that may be lost.
Y == INSTANCE Inference WITH
        Agents <- {"retro"}, Slots <- {1}, NoAgent <- "nobody",
        Preemptible <- {"retro"}, Silent <- {}, MaxRuns <- 2, MaxTokens <- 1,
        MaxTools <- 0, TokenCap <- 1, ToolCap <- 1, MaxTaken <- 1, MaxLost <- 1,
        MaxCrashes <- 1

\* A streaming request to llm-proxy, and one that is not.
P == INSTANCE LLMProxy WITH
        Requests <- {"one"}, Streaming <- {"one"}, MaxReply <- 2, MaxFaults <- 1
Q == INSTANCE LLMProxy WITH
        Requests <- {"one"}, Streaming <- {}, MaxReply <- 2, MaxFaults <- 1

\* Two turns of one session, the first of them streaming: at once, with text;
\* and one after the other, with two iterations of the tool loop.
T == INSTANCE Turn WITH
        Turns <- {"first", "second"}, Sessions <- {"s"},
        Session <- [t \in {"first", "second"} |-> "s"], Streaming <- {"first"},
        Traced <- {"first", "second"}, NoStore <- {"first"},
        After <- [t \in {"first", "second"} |-> {}], MaxTokens <- 1, MaxCalls <- 0,
        MaxIter <- 1, MaxFaults <- 1, MaxLost <- 1,
        requests <- turnRequests, reply <- turnReply, faults <- turnFaults
V == INSTANCE Turn WITH
        Turns <- {"first", "second"}, Sessions <- {"s"},
        Session <- [t \in {"first", "second"} |-> "s"], Streaming <- {"first"},
        Traced <- {"first"}, NoStore <- {},
        After <- [first |-> {}, second |-> {"first"}], MaxTokens <- 0, MaxCalls <- 1,
        MaxIter <- 2, MaxFaults <- 0, MaxLost <- 0,
        requests <- turnRequests, reply <- turnReply, faults <- turnFaults

ASSUME /\ X!InferenceAssumption /\ Y!InferenceAssumption
       /\ P!LLMProxyAssumption /\ Q!LLMProxyAssumption
       /\ T!TurnAssumption /\ V!TurnAssumption

MCInit ==
    /\ part \in {"exec", "preempted", "stream", "body", "turns", "loop"}
    /\ IF part = "preempted" THEN Y!Init ELSE X!Init
    /\ P!ProxyInit /\ T!Init

ExecStep ==
    /\ \/ part = "exec" /\ X!Next
       \/ part = "preempted" /\ Y!Next
    /\ UNCHANGED <<part, proxyVars, turnVars>>
ProxyStep ==
    /\ \/ part = "stream" /\ P!ProxyNext
       \/ part = "body" /\ Q!ProxyNext
    /\ UNCHANGED <<part, execVars, turnVars>>
TurnStep ==
    /\ \/ part = "turns" /\ T!Next
       \/ part = "loop" /\ V!Next
    /\ UNCHANGED <<part, execVars, proxyVars>>

MCNext == ExecStep \/ ProxyStep \/ TurnStep

\* Goroutines run, consumers poll and deadlines pass; llama-server answers or
\* fails.
MCFairness ==
    /\ WF_execVars((part = "exec" /\ X!Broker) \/ (part = "preempted" /\ Y!Broker))
    /\ \A r \in {<<"retro", 1>>, <<"client", 1>>} : WF_execVars(part = "exec" /\ X!Proxy(r))
    /\ \A r \in {<<"retro", 1>>, <<"retro", 2>>} : WF_execVars(part = "preempted" /\ Y!Proxy(r))
    /\ WF_execVars(X!SetPreempted("retro")) /\ WF_execVars(X!ReadReply("retro"))
    /\ WF_execVars(X!ReadNothing("retro")) /\ WF_execVars(X!FinalizeDeadline("retro"))
    /\ WF_proxyVars((part = "stream" /\ P!Handler("one")) \/ (part = "body" /\ Q!Handler("one")))
    /\ WF_proxyVars(P!Expire("one"))
    /\ \A t \in {"first", "second"} :
         WF_turnVars((part = "turns" /\ T!Gateway(t)) \/ (part = "loop" /\ V!Gateway(t)))
    /\ WF_turnVars((part = "turns" /\ T!AssembleContext) \/ (part = "loop" /\ V!AssembleContext))
    /\ WF_turnVars((part = "turns" /\ T!Agent) \/ (part = "loop" /\ V!Agent))

MCSpec == MCInit /\ [][MCNext]_<<part, execVars, proxyVars, turnVars>> /\ MCFairness

-----------------------------------------------------------------------------
\* While the broker runs and no publish fails every Execute returns, and one
\* that was told of its preemption returns even if the broker crashes or its
\* Done is lost (runtime.go, Execute; broker.go, handleLLMRequest).  Every
\* request to llm-proxy ends, even if the broker never offers a slot and never
\* sends Done (llmproxy/server.go, handleChatCompletions).
ExchangeEnds ==
    /\ X!ExecuteReturns /\ Y!PreemptedReturns
    /\ part \in {"stream", "body"} => P!RequestEnds

\* A streaming turn that was subscribed while main-agent still had its answer to
\* give ends, however main-agent's loop ended, if its Done is not lost
\* (cmd/main-agent/main.go, handleRequest; responses.go,
\* handleResponsesStreaming); a non-streaming turn ends, if only by its timeout
\* (client.go, WaitForReply).
TurnEnds == T!SubscribedEnds /\ T!BlockingEnds
=============================================================================
