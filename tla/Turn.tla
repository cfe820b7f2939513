-------------------------------- MODULE Turn ---------------------------------
(***************************************************************************)
(* A chat turn through every service: the gateway publishes the request    *)
(* (internal/gateway/server.go and responses.go), the context manager      *)
(* assembles history (internal/context/manager.go), main-agent runs the    *)
(* bounded tool loop (cmd/main-agent/main.go), and the answer comes back   *)
(* twice: token by token on pub/sub channels named after the session, and  *)
(* whole on a reply stream named after the request.                        *)
(*                                                                         *)
(* The consumers of the two request streams handle one message at a time.  *)
(* A token is <<turn, iteration, number>>; tool calls are numbered per     *)
(* turn.                                                                   *)
(***************************************************************************)
EXTENDS Naturals, Sequences, SequencesExt, FiniteSets

CONSTANTS
    Turns, Sessions,
    Session,        \* the session of each turn
    Streaming,      \* turns with "stream": true
    Traced,         \* turns of POST /v1/responses, which keep the tool trace
    NoStore,        \* turns with "store": false
    After,          \* u -> t: turns the client sends once u has been answered
    MaxTokens, MaxCalls,    \* per Execute
    MaxIter,        \* TOOL_LOOP_MAX_ITER
    MaxFaults,      \* operations on Valkey that fail
    MaxLost         \* publishes of main-agent whose error is ignored

\* What the constants satisfy.
TurnAssumption ==
    /\ Session \in [Turns -> Sessions] /\ After \in [Turns -> SUBSET Turns]
    /\ Streaming \subseteq Turns /\ NoStore \subseteq Traced
    /\ Traced \subseteq Turns
    /\ MaxIter \in Nat \ {0} /\ {MaxTokens, MaxCalls, MaxFaults, MaxLost} \subseteq Nat

NoTurn == "none"

VARIABLES
    turn,       \* the gateway's handler of each turn, with its locals
    tokenSub, traceSub,     \* turns subscribed to their session's channels
    tokenBuf, traceBuf,     \* what the subscriptions have received
    requests,   \* stream:gateway:requests
    agentQ,     \* stream:agent:main-agent:requests
    agent,      \* handleRequest of main-agent, with its locals
    reply,      \* the reply stream of each turn
    stored,     \* per session, the responses saved: [turn, text, trace]
    history,    \* the stored turns each prompt was assembled from
    said,       \* per turn, the tokens main-agent published
    trace,      \* per turn, the calls and results it published, in order
    answered,   \* per turn, the turns answered when it was published
    faults

vars == <<turn, tokenSub, traceSub, tokenBuf, traceBuf, requests, agentQ, agent,
          reply, stored, history, said, trace, answered, faults>>
pubsub == <<tokenSub, traceSub, tokenBuf, traceBuf>>
prompt == <<requests, agentQ, history>>
record == <<said, trace>>

NewTurn == [pc |-> "new", text |-> <<>>, trace |-> <<>>, result |-> "none"]
Idle == [pc |-> "idle", turn |-> NoTurn, iter |-> 0, text |-> <<>>,
         calls |-> <<>>, todo |-> <<>>, all |-> <<>>, outcome |-> "ok"]

Init ==
    /\ turn = [t \in Turns |-> NewTurn]
    /\ tokenSub = {} /\ traceSub = {}
    /\ tokenBuf = [t \in Turns |-> <<>>] /\ traceBuf = [t \in Turns |-> <<>>]
    /\ requests = <<>> /\ agentQ = <<>> /\ agent = Idle
    /\ reply = [t \in Turns |-> <<>>] /\ stored = [s \in Sessions |-> <<>>]
    /\ history = [t \in Turns |-> {}] /\ said = [t \in Turns |-> <<>>]
    /\ trace = [t \in Turns |-> <<>>] /\ answered = [t \in Turns |-> {}]
    /\ faults = [failed |-> 0, lost |-> 0]

Fault == /\ faults.failed < MaxFaults
         /\ faults' = [faults EXCEPT !.failed = @ + 1]
Lose == faults.lost < MaxLost /\ faults' = [faults EXCEPT !.lost = @ + 1]
Goto(t, l) == turn' = [turn EXCEPT ![t].pc = l]
Ended(t, r) == turn' = [turn EXCEPT ![t].pc = "end", ![t].result = r]
Live(t) == turn[t].pc \in {"published", "tools", "listening", "waiting"}

\* What a publish on a session's channel does to the subscriptions.
Broadcast(buf, subs, s, m) ==
    [t \in Turns |-> IF t \in subs /\ Session[t] = s THEN Append(buf[t], m)
                     ELSE buf[t]]

-----------------------------------------------------------------------------
(* The gateway. *)

\* handleChatCompletions and handleCreateResponse up to the publish.
PublishRequest(t) ==
    /\ turn[t].pc = "new" /\ \A u \in After[t] : turn[u].pc = "end"
    /\ \/ /\ requests' = Append(requests, t) /\ UNCHANGED faults
          /\ Goto(t, IF t \in Streaming THEN "published" ELSE "waiting")
       \/ Fault /\ Ended(t, "error") /\ UNCHANGED requests
    /\ answered' = [answered EXCEPT ![t] =
                       {u \in Turns : turn[u].result = "ok"}]
    /\ UNCHANGED <<pubsub, agentQ, history, agent, reply, stored, record>>

\* The token subscription is made after the request was published; a turn of
\* the Responses API then subscribes to the tool calls as well.
Subscribe(t) ==
    /\ turn[t].pc = "published"
    /\ tokenSub' = tokenSub \cup {t}
    /\ Goto(t, IF t \in Traced THEN "tools" ELSE "listening")
    /\ UNCHANGED <<traceSub, tokenBuf, traceBuf, prompt, agent, reply, stored,
                   record, answered, faults>>

SubscribeTools(t) ==
    /\ turn[t].pc = "tools"
    /\ traceSub' = traceSub \cup {t}
    /\ Goto(t, "listening")
    /\ UNCHANGED <<tokenSub, tokenBuf, traceBuf, prompt, agent, reply, stored,
                   record, answered, faults>>

\* The select picks either channel.
ReceiveToken(t) ==
    LET m == Head(tokenBuf[t])
    IN  /\ turn[t].pc = "listening" /\ tokenBuf[t] # <<>>
        /\ tokenBuf' = [tokenBuf EXCEPT ![t] = Tail(@)]
        /\ turn' = IF m[1] = "done" THEN [turn EXCEPT ![t].pc = "saving"]
                   ELSE [turn EXCEPT ![t].text = Append(@, m[2])]
        /\ UNCHANGED <<tokenSub, traceSub, traceBuf, prompt, agent, reply,
                       stored, record, answered, faults>>

ReceiveTrace(t) ==
    /\ turn[t].pc = "listening" /\ traceBuf[t] # <<>>
    /\ traceBuf' = [traceBuf EXCEPT ![t] = Tail(@)]
    /\ turn' = [turn EXCEPT ![t].trace = Append(@, Head(traceBuf[t]))]
    /\ UNCHANGED <<tokenSub, traceSub, tokenBuf, prompt, agent, reply, stored,
                   record, answered, faults>>

\* WaitForReply; the calls are paired with their results.
PairedTrace(calls) == FlattenSeq([i \in 1..Len(calls) |->
                        <<<<"call", calls[i]>>, <<"result", calls[i]>>>>])

ReceiveReply(t) ==
    LET r == Head(reply[t])
    IN  /\ turn[t].pc = "waiting" /\ reply[t] # <<>>
        /\ reply' = [reply EXCEPT ![t] = Tail(@)]
        /\ turn' = [turn EXCEPT ![t].pc = "saving", ![t].text = r.text,
                       ![t].trace = IF t \in Traced THEN PairedTrace(r.calls)
                                    ELSE <<>>]
        /\ UNCHANGED <<pubsub, prompt, agent, stored, record, answered, faults>>

RequestTimeout_Never(t) == FALSE /\ UNCHANGED vars
RequestTimeout(t) ==
    /\ turn[t].pc = "waiting" /\ Ended(t, "timeout")
    /\ UNCHANGED <<pubsub, prompt, agent, reply, stored, record, answered, faults>>

Disconnect(t) ==
    /\ Live(t) /\ Ended(t, "gone")
    /\ tokenSub' = tokenSub \ {t} /\ traceSub' = traceSub \ {t}
    /\ UNCHANGED <<tokenBuf, traceBuf, prompt, agent, reply, stored, record,
                   answered, faults>>

\* Save; its error is only logged.
Save(t) ==
    LET r == [turn |-> t, text |-> turn[t].text, trace |-> turn[t].trace]
    IN  /\ turn[t].pc = "saving" /\ Goto(t, "answering")
        /\ \/ /\ stored' = IF t \in NoStore THEN stored
                           ELSE [stored EXCEPT ![Session[t]] = Append(@, r)]
              /\ UNCHANGED faults
           \/ Fault /\ UNCHANGED stored
        /\ UNCHANGED <<pubsub, prompt, agent, reply, record, answered>>

\* publishTurnCompleted, the answer to the client, and the deferred Close of
\* the subscriptions.
Answer(t) ==
    /\ turn[t].pc = "answering" /\ Ended(t, "ok")
    /\ tokenSub' = tokenSub \ {t} /\ traceSub' = traceSub \ {t}
    /\ UNCHANGED <<tokenBuf, traceBuf, prompt, agent, reply, stored, record,
                   answered, faults>>

-----------------------------------------------------------------------------
(* The context manager. *)

StoredTurns(s) == {stored[s][i].turn : i \in 1..Len(stored[s])}

History_PayloadOnly(t) == {}
History(t) == StoredTurns(Session[t])

AssembleContext ==
    LET t == Head(requests)
    IN  /\ requests # <<>> /\ requests' = Tail(requests)
        /\ \/ /\ history' = [history EXCEPT ![t] = History(t)]
              /\ \/ agentQ' = Append(agentQ, t) /\ UNCHANGED faults
                 \/ Fault /\ UNCHANGED agentQ        \* the publish fails
           \/ /\ Fault /\ UNCHANGED history          \* the store fails: no history
              /\ agentQ' = Append(agentQ, t)
        /\ UNCHANGED <<turn, pubsub, agent, reply, stored, record, answered>>

-----------------------------------------------------------------------------
(* main-agent's handleRequest. *)

AgentTake ==
    /\ agent.pc = "idle" /\ agentQ # <<>>
    /\ agent' = [Idle EXCEPT !.pc = "slot", !.turn = Head(agentQ)]
    /\ agentQ' = Tail(agentQ)
    /\ UNCHANGED <<turn, pubsub, requests, history, reply, stored, record,
                   answered, faults>>

\* RequestSlot: an error ends the loop.
AgentSlot ==
    /\ agent.pc = "slot"
    /\ \/ agent' = [agent EXCEPT !.pc = "exec", !.text = <<>>, !.calls = <<>>]
          /\ UNCHANGED faults
       \/ Fault /\ agent' = [agent EXCEPT !.pc = "done", !.outcome = "error"]
    /\ UNCHANGED <<turn, pubsub, prompt, reply, stored, record, answered>>

\* Execute calls onToken and onToolCall as messages arrive ...
EmitToken ==
    LET t == agent.turn
        tok == <<t, agent.iter, Len(agent.text) + 1>>
    IN  /\ agent.pc = "exec" /\ Len(agent.text) < MaxTokens
        /\ agent' = [agent EXCEPT !.text = Append(@, tok)]
        /\ said' = [said EXCEPT ![t] = Append(@, tok)]
        /\ \/ /\ tokenBuf' = Broadcast(tokenBuf, tokenSub, Session[t],
                                       <<"token", tok>>)
              /\ UNCHANGED faults
           \/ Lose /\ UNCHANGED tokenBuf
        /\ UNCHANGED <<turn, tokenSub, traceSub, traceBuf, prompt, reply, stored,
                       trace, answered>>

EmitCall ==
    LET t == agent.turn
        n == Cardinality({i \in 1..Len(trace[t]) : trace[t][i][1] = "call"}) + 1
    IN  /\ agent.pc = "exec" /\ Len(agent.calls) < MaxCalls
        /\ agent' = [agent EXCEPT !.calls = Append(@, n)]
        /\ trace' = [trace EXCEPT ![t] = Append(@, <<"call", n>>)]
        /\ \/ /\ traceBuf' = Broadcast(traceBuf, traceSub, Session[t],
                                       <<"call", n>>)
              /\ UNCHANGED faults
           \/ Lose /\ UNCHANGED traceBuf
        /\ UNCHANGED <<turn, tokenSub, traceSub, tokenBuf, prompt, reply, stored,
                       said, answered>>

\* ... and returns; the slot is released before any tool runs.
EndExecute ==
    /\ agent.pc = "exec"
    /\ \E o \in {"ok", "preempted", "error"} :
       /\ IF o = "error" THEN Fault ELSE UNCHANGED faults
       /\ agent' = [agent EXCEPT
             !.outcome = o, !.todo = agent.calls,
             !.pc = IF agent.calls = <<>> \/ o # "ok" THEN "done" ELSE "tools"]
    /\ UNCHANGED <<turn, pubsub, prompt, reply, stored, record, answered>>

\* One tool call: invokeOrGate, then publishToolResult.  After the last one
\* the next iteration starts, up to the cap.
CapMarker(t) == <<t, MaxIter, 0>>   \* "(max iterations reached)"

NextIteration(a) ==
    IF a.iter + 1 < MaxIter THEN [a EXCEPT !.pc = "slot", !.iter = @ + 1]
    ELSE [a EXCEPT !.pc = "done", !.text = Append(@, CapMarker(a.turn))]

InvokeTool ==
    LET t == agent.turn
        n == Head(agent.todo)
        a == [agent EXCEPT !.todo = Tail(@), !.all = Append(@, n)]
    IN  /\ agent.pc = "tools"
        /\ agent' = IF a.todo # <<>> THEN a ELSE NextIteration(a)
        /\ trace' = [trace EXCEPT ![t] = Append(@, <<"result", n>>)]
        /\ \/ /\ traceBuf' = Broadcast(traceBuf, traceSub, Session[t],
                                       <<"result", n>>)
              /\ UNCHANGED faults
           \/ Lose /\ UNCHANGED traceBuf
        /\ UNCHANGED <<turn, tokenSub, traceSub, tokenBuf, prompt, reply, stored,
                       said, answered>>

\* The terminal token goes out on every path ...
OwesDone_OkOnly == agent.outcome = "ok"
OwesDone == TRUE

PublishDone ==
    /\ agent.pc = "done"
    /\ agent' = [agent EXCEPT !.pc = "reply"]
    /\ \/ /\ tokenBuf' = IF OwesDone THEN Broadcast(tokenBuf, tokenSub,
                                          Session[agent.turn], <<"done", 0>>)
                         ELSE tokenBuf
          /\ UNCHANGED faults
       \/ Lose /\ UNCHANGED tokenBuf
    /\ UNCHANGED <<turn, tokenSub, traceSub, traceBuf, prompt, reply, stored,
                   record, answered>>

\* ... the reply only when the loop had no error.
FinalContent_Everything(a) == said[a.turn]
FinalContent(a) == a.text

PublishReply ==
    /\ agent.pc = "reply" /\ agent' = Idle
    /\ \/ /\ reply' = IF agent.outcome = "error" THEN reply
                      ELSE [reply EXCEPT ![agent.turn] =
                              Append(@, [text |-> FinalContent(agent),
                                         calls |-> agent.all])]
          /\ UNCHANGED faults
       \/ Lose /\ UNCHANGED reply
    /\ UNCHANGED <<turn, pubsub, prompt, stored, record, answered>>

Gateway(t) ==
    \/ Subscribe(t) \/ SubscribeTools(t) \/ ReceiveToken(t)
    \/ ReceiveTrace(t) \/ ReceiveReply(t) \/ RequestTimeout(t) \/ Save(t)
    \/ Answer(t)
Agent ==
    \/ AgentTake \/ AgentSlot \/ EmitToken \/ EmitCall \/ EndExecute
    \/ InvokeTool \/ PublishDone \/ PublishReply

Next ==
    \/ \E t \in Turns : PublishRequest(t) \/ Gateway(t) \/ Disconnect(t)
    \/ AssembleContext
    \/ Agent

\* Handlers run, consumers poll, and Execute returns.
Fairness == /\ \A t \in Turns : WF_vars(Gateway(t))
            /\ WF_vars(AssembleContext) /\ WF_vars(Agent)

Spec == Init /\ [][Next]_vars /\ Fairness

-----------------------------------------------------------------------------
Running(t) == agent.turn = t /\ agent.pc # "idle"
ToCome(t) == t \in ToSet(agentQ) \/ Running(t)
LastText(t) == SelectSeq(turn[t].text, LAMBDA k : k # CapMarker(t))

\* The variables keep their types; a turn never exceeds the iteration cap.
TypeOK ==
    /\ tokenSub \cup traceSub \subseteq Streaming
    /\ agent.iter < MaxIter
    /\ \A t \in Turns : Len(reply[t]) <= 1
    /\ \A s \in Sessions : StoredTurns(s) \subseteq Turns \ NoStore

\* A non-streaming answer is the text of the last iteration of its own turn
\* and the stored trace pairs every call with its result, even when turns of
\* the same session run at the same time.
ReplyIsOwn ==
    \A t \in Turns \ Streaming :
        turn[t].result = "ok" =>
            /\ \A k \in ToSet(LastText(t)), j \in ToSet(said[t]) :
                  k[1] = t /\ j[2] <= k[2]
            /\ LastText(t) # <<>> =>
                  LastText(t) = SelectSeq(said[t],
                                    LAMBDA k : k[2] = LastText(t)[1][2])
            /\ ToSet(turn[t].trace) \subseteq ToSet(trace[t])

\* A turn sent after another of its session was answered is assembled from a
\* history that has it: the response is saved before the client hears of it.
HistoryHasAnswered ==
    \A t \in Turns :
        faults.failed = 0 /\ (t \in ToSet(agentQ) \/ Running(t)) =>
            {u \in answered[t] \ NoStore : Session[u] = Session[t]}
                \subseteq history[t]

\* A streaming turn that was subscribed while main-agent still had its answer
\* to give ends, however main-agent's loop ended, if its Done is not lost
\* (responses.go, handleResponsesStreaming; cmd/main-agent/main.go,
\* handleRequest).
SubscribedEnds ==
    \A t \in Streaming :
        turn[t].pc = "listening" /\ ToCome(t) /\ agent.pc # "reply"
            ~> turn[t].pc = "end" \/ faults.lost > 0

\* A non-streaming turn ends, if only by its timeout.
BlockingEnds == \A t \in Turns : turn[t].pc = "waiting" ~> turn[t].pc = "end"
=============================================================================
