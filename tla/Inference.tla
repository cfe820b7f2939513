------------------------------ MODULE Inference ------------------------------
(***************************************************************************)
(* One LLM exchange on a slot, end to end: Runtime.Execute in an agent     *)
(* (internal/agent/runtime.go), the LLM-request consumer of the broker and *)
(* the goroutine that reads the answer of llama-server                     *)
(* (internal/broker/broker.go), and the reply stream between them.  How    *)
(* slots are arbitrated is Broker's subject: here a slot is offered,       *)
(* committed, and may be taken back at any time by a reclaim timer, a      *)
(* forced preemption or a death.                                           *)
(*                                                                         *)
(* Tokens and tool calls are numbered in the order llama-server emits      *)
(* them.  ToolCallAssembly models how fragments become tool calls.         *)
(***************************************************************************)
EXTENDS Naturals, Sequences, FiniteSets

CONSTANTS
    Agents, Slots, NoAgent,
    Preemptible,        \* agents whose Execute listens for preemption
    Silent,             \* clients whose requests name no reply stream
    MaxRuns,            \* Execute calls per agent
    MaxTokens, MaxTools, \* what llama-server may emit for one request
    TokenCap, ToolCap,  \* capacities of tokenCh and toolCallCh
    MaxTaken, MaxLost, MaxCrashes

\* What the constants satisfy.
InferenceAssumption ==
    /\ Preemptible \subseteq Agents /\ Silent \subseteq Agents
    /\ {MaxRuns, TokenCap, ToolCap} \subseteq Nat \ {0}
    /\ {MaxTokens, MaxTools, MaxTaken, MaxLost, MaxCrashes} \subseteq Nat

Reqs == Agents \X (1..MaxRuns)

VARIABLES
    slots,      \* the broker's slot table: [agent, state]
    requests,   \* stream:broker:llm-requests: [req, slot]
    handler,    \* handleLLMRequest, per request
    proxy,      \* the goroutine of ProxyLLMRequest, per request
    reply,      \* the reply stream of each request
    exec,       \* Execute, per agent, with its locals
    listener,   \* ListenForPreemption: "off", "subscribing", "on"
    signal,     \* agents whose listener got a signal and has not set the flag
    preempted,  \* Runtime.preempted
    used        \* [taken, lost, crashes] so far

vars == <<slots, requests, handler, proxy, reply, exec, listener, signal,
          preempted, used>>
agentVars == <<exec, listener, signal, preempted>>
brokerVars == <<handler, proxy>>

Free == [agent |-> NoAgent, state |-> "unassigned"]
NoHandler == [pc |-> "none", slot |-> 0]
NoProxy == [pc |-> "none", tokenCh |-> <<>>, toolCh |-> <<>>,
            tokens |-> 0, tools |-> 0, emitted |-> 0]
Idle == [pc |-> "idle", run |-> 0, slot |-> 0, armed |-> FALSE,
         text |-> <<>>, calls |-> <<>>, outcome |-> "none"]

Req(a) == <<a, exec[a].run>>
Spend(what, limit) == used[what] < limit /\ used' = [used EXCEPT ![what] = @ + 1]

Init ==
    /\ slots = [s \in Slots |-> Free]
    /\ requests = <<>>
    /\ handler = [r \in Reqs |-> NoHandler] /\ proxy = [r \in Reqs |-> NoProxy]
    /\ reply = [r \in Reqs |-> <<>>]
    /\ exec = [a \in Agents |-> Idle]
    /\ listener = [a \in Agents |-> "off"]
    /\ signal = {} /\ preempted = {}
    /\ used = [taken |-> 0, lost |-> 0, crashes |-> 0]

-----------------------------------------------------------------------------
(* The slots, as Broker's agents see them. *)

\* RequestSlot: the offer arrives, is acknowledged and stored, and the
\* preempted flag is cleared.
GetSlot(a, s) ==
    /\ exec[a].pc = "idle" /\ exec[a].run < MaxRuns /\ slots[s] = Free
    /\ slots' = [slots EXCEPT ![s] = [agent |-> a, state |-> "provisional"]]
    /\ exec' = [exec EXCEPT ![a] = [Idle EXCEPT !.pc = "held", !.slot = s,
                                                !.run = exec[a].run + 1]]
    /\ preempted' = preempted \ {a}
    /\ UNCHANGED <<requests, brokerVars, reply, listener, signal, used>>

Commit(s) ==
    /\ slots[s].state = "provisional"
    /\ slots' = [slots EXCEPT ![s].state = "assigned"]
    /\ UNCHANGED <<requests, brokerVars, reply, agentVars, used>>

\* The broker publishes a preemption signal; it reaches a subscribed listener.
Preempt(s) ==
    LET a == slots[s].agent
    IN  /\ slots[s].state = "assigned" /\ a \in Preemptible
        /\ signal' = IF listener[a] = "on" THEN signal \cup {a} ELSE signal
        /\ listener' = IF listener[a] = "on"
                       THEN [listener EXCEPT ![a] = "off"] ELSE listener
        /\ UNCHANGED <<slots, requests, brokerVars, reply, exec, preempted, used>>

\* The reclaim timer, a forced preemption or a missed heartbeat frees it.
TakeBack(s) ==
    /\ slots[s] # Free /\ Spend("taken", MaxTaken)
    /\ slots' = [slots EXCEPT ![s] = Free]
    /\ UNCHANGED <<requests, brokerVars, reply, agentVars>>

-----------------------------------------------------------------------------
(* Execute. *)

StartExecute(a) ==
    /\ exec[a].pc = "held"
    /\ exec' = [exec EXCEPT ![a].pc = "waiting"]
    /\ listener' = IF a \in Preemptible
                   THEN [listener EXCEPT ![a] = "subscribing"] ELSE listener
    /\ requests' = Append(requests, [req |-> Req(a), slot |-> exec[a].slot])
    /\ UNCHANGED <<slots, brokerVars, reply, signal, preempted, used>>

Subscribe(a) ==
    /\ listener[a] = "subscribing"
    /\ listener' = [listener EXCEPT ![a] = "on"]
    /\ UNCHANGED <<slots, requests, brokerVars, reply, exec, signal, preempted,
                   used>>

SetPreempted(a) ==
    /\ a \in signal
    /\ signal' = signal \ {a} /\ preempted' = preempted \cup {a}
    /\ UNCHANGED <<slots, requests, brokerVars, reply, exec, listener, used>>

\* Execute returns; the deferred preemptCancel ends the listener.
Return(a, e, outcome) ==
    /\ exec' = [exec EXCEPT ![a] = [e EXCEPT !.pc = "returned",
                                             !.outcome = outcome]]
    /\ listener' = [listener EXCEPT ![a] = "off"]

\* One message of the reply stream, then the head of the loop, which arms the
\* finalize deadline once the flag is set.
AfterDone_AlwaysOk(e) == "ok"
AfterDone(e) == IF e.armed THEN "preempted" ELSE "ok"

ReadReply(a) ==
    LET e == exec[a]
        msg == Head(reply[Req(a)])
        armed == e.armed \/ a \in preempted
    IN  /\ e.pc = "waiting" /\ reply[Req(a)] # <<>>
        /\ reply' = [reply EXCEPT ![Req(a)] = Tail(@)]
        /\ \/ /\ msg[1] = "done" /\ Return(a, e, AfterDone(e))
           \/ /\ msg[1] = "token"
              /\ exec' = [exec EXCEPT ![a].text = Append(@, msg[2]),
                                      ![a].armed = armed]
              /\ UNCHANGED listener
           \/ /\ msg[1] = "tool"
              /\ exec' = [exec EXCEPT ![a].calls = Append(@, msg[2]),
                                      ![a].armed = armed]
              /\ UNCHANGED listener
        /\ UNCHANGED <<slots, requests, brokerVars, signal, preempted, used>>

\* A read that returns nothing goes back to the head of the loop.
ArmDeadline_Never(a) == FALSE
ArmDeadline(a) == a \in preempted

ReadNothing(a) ==
    /\ exec[a].pc = "waiting" /\ ~exec[a].armed /\ ArmDeadline(a)
    /\ exec' = [exec EXCEPT ![a].armed = TRUE]
    /\ UNCHANGED <<slots, requests, brokerVars, reply, listener, signal,
                   preempted, used>>

FinalizeDeadline(a) ==
    /\ exec[a].pc = "waiting" /\ exec[a].armed
    /\ Return(a, exec[a], "preempted")
    /\ UNCHANGED <<slots, requests, brokerVars, reply, signal, preempted, used>>

\* ReleaseSlot: the broker frees the slot the message names, whoever owns it
\* by then.
GiveBack(a) ==
    /\ exec[a].pc = "returned"
    /\ exec' = [exec EXCEPT ![a].pc = "idle"]
    /\ slots' = [slots EXCEPT ![exec[a].slot] = Free]
    /\ UNCHANGED <<requests, brokerVars, reply, listener, signal, preempted,
                   used>>

-----------------------------------------------------------------------------
(* handleLLMRequest: ConsumeStream runs one handler at a time. *)

Busy == {r \in Reqs : handler[r].pc \in {"relay", "drain", "drainTools"}}

MayStart_Always == TRUE
MayStart == Busy = {}

IsOwnedBy(s, a) == slots[s].agent = a /\ slots[s].state # "unassigned"

\* A publish to the reply stream; its error is ignored.
PublishReply(r, msg) ==
    \/ reply' = [reply EXCEPT ![r] = Append(@, msg)] /\ UNCHANGED used
    \/ Spend("lost", MaxLost) /\ UNCHANGED reply

\* A refused request is answered with a bare Done, if it names a reply stream.
sendDoneOnReply_Never(r) == UNCHANGED <<reply, used>>
sendDoneOnReply(r) == IF r[1] \in Silent THEN UNCHANGED <<reply, used>>
                      ELSE PublishReply(r, <<"done", 0>>)

\* A request of another slot class is refused like one for a slot its sender
\* does not own; the slots here are of one class.
HandleLLMRequest ==
    LET r == Head(requests).req
        s == Head(requests).slot
    IN  /\ requests # <<>> /\ MayStart
        /\ requests' = Tail(requests)
        /\ \/ /\ IsOwnedBy(s, r[1])
              /\ handler' = [handler EXCEPT ![r] =
                    [pc |-> IF r[1] \in Silent THEN "drain" ELSE "relay",
                     slot |-> s]]
              /\ proxy' = [proxy EXCEPT ![r].pc = "http"]
              /\ UNCHANGED <<reply, used>>
           \/ /\ ~IsOwnedBy(s, r[1])
              /\ sendDoneOnReply(r)
              /\ handler' = [handler EXCEPT ![r].pc = "rejected"]
              /\ UNCHANGED proxy
        /\ UNCHANGED <<slots, agentVars>>

RelayToken(r) ==
    /\ handler[r].pc \in {"relay", "drain"} /\ proxy[r].tokenCh # <<>>
    /\ proxy' = [proxy EXCEPT ![r].tokenCh = Tail(@)]
    /\ IF handler[r].pc = "drain" THEN UNCHANGED <<reply, used>>
       ELSE PublishReply(r, <<"token", Head(proxy[r].tokenCh)>>)
    /\ UNCHANGED <<slots, requests, handler, agentVars>>

RelayToolCall(r) ==
    /\ handler[r].pc \in {"relay", "drainTools"} /\ proxy[r].toolCh # <<>>
    /\ proxy' = [proxy EXCEPT ![r].toolCh = Tail(@)]
    /\ IF handler[r].pc = "drainTools" THEN UNCHANGED <<reply, used>>
       ELSE PublishReply(r, <<"tool", Head(proxy[r].toolCh)>>)
    /\ UNCHANGED <<slots, requests, handler, agentVars>>

\* The loop ends when both channels are closed and empty.
BothClosed_TokensOnly(r) == proxy[r].pc = "closed" /\ proxy[r].tokenCh = <<>>
BothClosed(r) == /\ proxy[r].pc = "closed"
                 /\ proxy[r].tokenCh = <<>> /\ proxy[r].toolCh = <<>>

FinishRelay(r) ==
    /\ handler[r].pc = "relay" /\ BothClosed(r)
    /\ PublishReply(r, <<"done", 0>>)
    /\ handler' = [handler EXCEPT ![r].pc = "finished"]
    /\ UNCHANGED <<slots, requests, proxy, agentVars>>

\* Without a reply stream: range over tokenCh until it is closed, then over
\* toolCallCh.
DrainTokens(r) ==
    /\ handler[r].pc = "drain"
    /\ proxy[r].pc = "closed" /\ proxy[r].tokenCh = <<>>
    /\ handler' = [handler EXCEPT ![r].pc = "drainTools"]
    /\ UNCHANGED <<slots, requests, proxy, reply, agentVars, used>>

FinishDrain(r) ==
    /\ handler[r].pc = "drainTools" /\ BothClosed(r)
    /\ handler' = [handler EXCEPT ![r].pc = "finished"]
    /\ UNCHANGED <<slots, requests, proxy, reply, agentVars, used>>

-----------------------------------------------------------------------------
(* The goroutine of ProxyLLMRequest. *)

\* The request fails or is refused, or the body is read: n tokens and then m
\* tool calls, assembled when the stream ends.
ProxyAnswer(r) ==
    /\ proxy[r].pc = "http"
    /\ \/ proxy' = [proxy EXCEPT ![r].pc = "closed"]
       \/ \E n \in 0..MaxTokens, m \in 0..MaxTools :
             proxy' = [proxy EXCEPT ![r].pc = "sse", ![r].tokens = n,
                                    ![r].tools = m]
    /\ UNCHANGED <<slots, requests, handler, reply, agentVars, used>>

HasRoom_OffByOne(ch, cap) == Len(ch) <= cap
HasRoom(ch, cap) == Len(ch) < cap

ReadSSEToken(r) ==
    LET p == proxy[r]
    IN  /\ p.pc = "sse" /\ p.emitted < p.tokens /\ HasRoom(p.tokenCh, TokenCap)
        /\ proxy' = [proxy EXCEPT ![r].emitted = @ + 1,
                                  ![r].tokenCh = Append(@, p.emitted + 1)]
        /\ UNCHANGED <<slots, requests, handler, reply, agentVars, used>>

EndSSE(r) ==
    /\ proxy[r].pc = "sse" /\ proxy[r].emitted = proxy[r].tokens
    /\ proxy' = [proxy EXCEPT ![r].pc = "tools", ![r].emitted = 0]
    /\ UNCHANGED <<slots, requests, handler, reply, agentVars, used>>

SendToolCall(r) ==
    LET p == proxy[r]
    IN  /\ p.pc = "tools" /\ p.emitted < p.tools /\ HasRoom(p.toolCh, ToolCap)
        /\ proxy' = [proxy EXCEPT ![r].emitted = @ + 1,
                                  ![r].toolCh = Append(@, p.emitted + 1)]
        /\ UNCHANGED <<slots, requests, handler, reply, agentVars, used>>

CloseChannels(r) ==
    /\ proxy[r].pc = "tools" /\ proxy[r].emitted = proxy[r].tools
    /\ proxy' = [proxy EXCEPT ![r].pc = "closed"]
    /\ UNCHANGED <<slots, requests, handler, reply, agentVars, used>>

\* The broker dies: the slot table, the handler and the goroutine are gone,
\* and the request it had read is not redelivered.
CrashBroker ==
    /\ Spend("crashes", MaxCrashes)
    /\ handler' = [r \in Reqs |-> IF r \in Busy
                                  THEN [handler[r] EXCEPT !.pc = "crashed"]
                                  ELSE handler[r]]
    /\ proxy' = [r \in Reqs |-> IF r \in Busy THEN NoProxy ELSE proxy[r]]
    /\ slots' = [s \in Slots |-> Free]
    /\ UNCHANGED <<requests, reply, agentVars>>

Broker ==
    \/ HandleLLMRequest
    \/ \E r \in Reqs : \/ RelayToken(r) \/ RelayToolCall(r) \/ FinishRelay(r)
                       \/ DrainTokens(r) \/ FinishDrain(r)
Proxy(r) == \/ ProxyAnswer(r) \/ ReadSSEToken(r) \/ EndSSE(r)
            \/ SendToolCall(r) \/ CloseChannels(r)

Next ==
    \/ \E s \in Slots : \/ \E a \in Agents : GetSlot(a, s)
                        \/ Commit(s) \/ Preempt(s) \/ TakeBack(s)
    \/ \E a \in Agents : \/ StartExecute(a) \/ Subscribe(a) \/ SetPreempted(a)
                         \/ ReadReply(a) \/ ReadNothing(a)
                         \/ FinalizeDeadline(a) \/ GiveBack(a)
    \/ Broker
    \/ \E r \in Reqs : Proxy(r)
    \/ CrashBroker

\* Consumers poll, goroutines run, and llama-server answers or fails: the
\* request carries the broker's context and no deadline, so that it answers
\* at all is an assumption.
Fairness ==
    /\ WF_vars(Broker)
    /\ \A r \in Reqs : WF_vars(Proxy(r))
    /\ \A a \in Agents :
         /\ WF_vars(SetPreempted(a)) /\ WF_vars(ReadReply(a))
         /\ WF_vars(ReadNothing(a)) /\ WF_vars(FinalizeDeadline(a))

Spec == Init /\ [][Next]_vars /\ Fairness

-----------------------------------------------------------------------------
Upto(n) == [i \in 1..n |-> i]
Whole(r) == handler[r].pc = "finished" /\ used.lost = 0

\* The variables keep their types; a channel never exceeds its capacity.
TypeOK ==
    /\ \A s \in Slots : slots[s].agent \in Agents \cup {NoAgent}
    /\ \A r \in Reqs : /\ Len(proxy[r].tokenCh) <= TokenCap
                       /\ Len(proxy[r].toolCh) <= ToolCap
    /\ listener \in [Agents -> {"off", "subscribing", "on"}]
    /\ {signal, preempted} \subseteq SUBSET Agents

\* An Execute that returns without error and whose answer was relayed has
\* the whole text and every tool call, in order: the terminal Done never
\* overtakes what it terminates, whichever channel the relay loop serves
\* first.
AnswerComplete ==
    \A a \in Agents :
        exec[a].pc = "returned" /\ exec[a].outcome = "ok" /\ Whole(Req(a))
            => /\ exec[a].text = Upto(proxy[Req(a)].tokens)
               /\ exec[a].calls = Upto(proxy[Req(a)].tools)

\* Even when preempted, Execute returns complete tool calls only, a prefix of
\* what the model called; after preemption was noticed it never reports
\* success.
PreemptionHonest ==
    \A a \in Agents :
        exec[a].pc = "returned" =>
            /\ used.lost = 0 =>
                 /\ Len(exec[a].calls) <= proxy[Req(a)].tools \/ used.crashes > 0
                 /\ exec[a].calls = Upto(Len(exec[a].calls))
            /\ exec[a].armed => exec[a].outcome = "preempted"

\* Two answers are never generated on one llama-server slot at a time, even
\* when the slot changes owner while an answer is still being streamed.
OneStreamPerSlot ==
    \A r, q \in Busy : handler[r].slot = handler[q].slot => r = q

\* What an exchange keeps, all together (runtime.go, Execute; broker.go,
\* handleLLMRequest).
ExchangeSound == TypeOK /\ AnswerComplete /\ PreemptionHonest /\ OneStreamPerSlot

\* While the broker runs and no publish fails, every Execute returns
\* (runtime.go, Execute; broker.go, handleLLMRequest).
ExecuteReturns ==
    \A a \in Agents \ Silent :
        exec[a].pc = "waiting"
            ~> exec[a].pc # "waiting" \/ used.lost + used.crashes > 0

\* An Execute that was told of its preemption returns even if the broker
\* crashes or its Done is lost.
PreemptedReturns ==
    \A a \in Agents : exec[a].pc = "waiting" /\ a \in preempted
                        ~> exec[a].pc # "waiting"
=============================================================================
