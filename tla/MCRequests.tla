----------------------------- MODULE MCRequests -----------------------------
(***************************************************************************)
(* The life of a request, for safety: an LLM exchange on a slot            *)
(* (Inference), the assembly of its tool calls (ToolCallAssembly),         *)
(* requests to llm-proxy (LLMProxy) and chat turns through all services    *)
(* (Turn).  MCRequestsLive has smaller instances for liveness.             *)
(*                                                                         *)
(* A behaviour chooses one part; the parts of a component use the same     *)
(* variables, and the other components stay in an initial state.           *)
(***************************************************************************)
EXTENDS Inference, ToolCallAssembly, LLMProxy

VARIABLES
    part,   \* the part that runs
    turn, tokenSub, traceSub, tokenBuf, traceBuf, turnRequests, agentQ, agent, turnReply,
    stored, history, said, trace, answered, turnFaults

turnVars == <<turn, tokenSub, traceSub, tokenBuf, traceBuf, turnRequests, agentQ, agent,
              turnReply, stored, history, said, trace, answered, turnFaults>>

\* Two turns of a session at once, with two iterations of the tool loop; and one
\* after the other, with a failure and a lost message.
T == INSTANCE Turn WITH
        Turns <- {"first", "second"}, Sessions <- {"s"},
        Session <- [t \in {"first", "second"} |-> "s"], Streaming <- {"first"},
        Traced <- {"second"}, NoStore <- {}, After <- [t \in {"first", "second"} |-> {}],
        MaxTokens <- 1, MaxCalls <- 1, MaxIter <- 2, MaxFaults <- 0, MaxLost <- 0,
        requests <- turnRequests, reply <- turnReply, faults <- turnFaults
V == INSTANCE Turn WITH
        Turns <- {"first", "second"}, Sessions <- {"s"},
        Session <- [t \in {"first", "second"} |-> "s"], Streaming <- {"first"},
        Traced <- {"first"}, NoStore <- {}, After <- [first |-> {}, second |-> {"first"}],
        MaxTokens <- 1, MaxCalls <- 1, MaxIter <- 1, MaxFaults <- 1, MaxLost <- 1,
        requests <- turnRequests, reply <- turnReply, faults <- turnFaults

ASSUME /\ InferenceAssumption /\ LLMProxyAssumption /\ AssemblyAssumption
       /\ T!TurnAssumption /\ V!TurnAssumption

IsPiece(m) == m[1] # "done"

MCInit ==
    /\ part \in {"exec", "proxy", "stream", "body", "together", "ordered", "assembly"}
    /\ Init /\ ProxyInit /\ T!Init /\ AssemblyInit
    /\ part # "assembly" => call = [i \in Indices |-> [name |-> "bash", pieces |-> 0]]

\* Two agents that share a slot, one of them preemptible.
ExecStep == part = "exec" /\ Next /\ UNCHANGED <<part, proxyVars, turnVars, assemblyVars>>
\* Two requests at once, with short answers; and one with longer ones, streaming
\* or not.
ProxyStep ==
    /\ part \in {"proxy", "stream", "body"} /\ ProxyNext
    /\ IF part = "proxy" THEN \A h \in Requests : Len(SelectSeq(httpReply'[h], IsPiece)) <= 1
                         ELSE \A h \in Requests : pc'[h] = "new" \/ h = part
    /\ UNCHANGED <<part, vars, turnVars, assemblyVars>>
TurnStep ==
    /\ \/ part = "together" /\ T!Next
       \/ part = "ordered" /\ V!Next
    /\ UNCHANGED <<part, vars, proxyVars, assemblyVars>>
\* Up to three calls of two pieces, with every interleaving of their fragments.
AssemblyStep ==
    part = "assembly" /\ AssemblyNext /\ UNCHANGED <<part, vars, proxyVars, turnVars>>

MCNext == ExecStep \/ ProxyStep \/ TurnStep \/ AssemblyStep

MCSpec == MCInit /\ [][MCNext]_<<part, vars, proxyVars, turnVars, assemblyVars>>

-----------------------------------------------------------------------------
\* A non-streaming answer is the last text of its own turn, although turns of
\* the same session run at the same time; a turn sent after another of its
\* session was answered is assembled from a history that has it
\* (cmd/main-agent/main.go, handleRequest; gateway/responses.go;
\* context/manager.go).
TurnSound ==
    /\ IF part = "ordered" THEN V!TypeOK /\ V!ReplyIsOwn ELSE T!TypeOK /\ T!ReplyIsOwn
    /\ V!HistoryHasAnswered
=============================================================================
