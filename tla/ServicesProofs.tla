---------------------------- MODULE ServicesProofs --------------------------
(***************************************************************************)
(* Three services, for any number of requests, services and invocations.   *)
(*                                                                         *)
(* LLMProxy: a request to llm-proxy gives its slot back and answers its    *)
(* client in full, for any replies and faults.                             *)
(*                                                                         *)
(* Registry: a registered service has at most one live monitor, for any    *)
(* starts and stalls.                                                      *)
(*                                                                         *)
(* MCPClient: a server is given one tools/call at a time, and a response   *)
(* goes to the invocation that asked.  The invariant adds who holds callMu *)
(* and that ids come from a counter that never falls behind one in use.    *)
(***************************************************************************)
EXTENDS LLMProxy, Registry, MCPClient, Integers, TLAPS

-----------------------------------------------------------------------------
(* Sequences *)

\* Sequences with the same elements are the same.
LEMMA SameSeq ==
  ASSUME NEW S, NEW s \in Seq(S), NEW t \in Seq(S), Len(s) = Len(t), \A i \in 1 .. Len(s) : s[i] = t[i]
  PROVE  s = t
OBVIOUS

\* The empty sequence adds nothing.
LEMMA EmptyConcat ==
  ASSUME NEW S, NEW s \in Seq(S) PROVE <<>> \o s = s /\ s \o <<>> = s
OBVIOUS

\* Appending is adding a sequence of one element.
LEMMA AppendIsConcat ==
  ASSUME NEW S, NEW s \in Seq(S), NEW e \in S PROVE Append(s, e) = s \o <<e>>
<1>1. Append(s, e) \in Seq(S) /\ Len(Append(s, e)) = Len(s) + 1
  OBVIOUS
<1>2. s \o <<e>> \in Seq(S) /\ Len(s \o <<e>>) = Len(s) + 1
  OBVIOUS
<1>3. \A i \in 1 .. Len(s) + 1 : (s \o <<e>>)[i] = Append(s, e)[i]
  OBVIOUS
<1>4. QED
  <2>1. \A i \in 1 .. Len(Append(s, e)) : Append(s, e)[i] = (s \o <<e>>)[i]
    BY <1>1, <1>3, Zenon
  <2>2. QED
    BY <1>1, <1>2, <2>1, SameSeq, Zenon

\* The order in which sequences are joined does not matter.
LEMMA ConcatAssociative ==
  ASSUME NEW S, NEW s \in Seq(S), NEW t \in Seq(S), NEW u \in Seq(S)
  PROVE  (s \o t) \o u = s \o (t \o u)
<1>1. /\ s \o (t \o u) \in Seq(S) /\ (s \o t) \o u \in Seq(S)
      /\ Len(s \o (t \o u)) = Len((s \o t) \o u)
  OBVIOUS
<1>2. ASSUME NEW i \in 1 .. Len(s \o (t \o u)) PROVE (s \o (t \o u))[i] = ((s \o t) \o u)[i]
  OBVIOUS
<1>3. QED
  BY <1>1, <1>2, SameSeq, Zenon

-----------------------------------------------------------------------------
(* A request to llm-proxy *)

\* Where a handler is: before the answer comes, while it is relayed, after it.
Before == {"new", "slot", "publish", "group", "role"}
Relaying == {"relay", "respond", "cut"}
After == {"release", "leave", "end"}
SlotStates == {"none", "offered", "acked", "freed"}
Messages == {"token", "tool", "done"} \X Nat
Events == Messages \cup ({"role", "error", "DONE"} \X Nat)
            \cup ({"stop", "tool_calls"} \X Seq(Messages))

ProxyTypes ==
    /\ pc \in [Requests -> Before \cup Relaying \cup After]
    /\ slot \in [Requests -> SlotStates]
    /\ httpReply \in [Requests -> Seq(Messages)] /\ read \in [Requests -> Nat]
    /\ content \in [Requests -> Seq(Messages)] /\ tools \in [Requests -> Seq(Messages)]
    /\ http \in [Requests -> Seq(Events)]
    /\ released \in [Requests -> Nat] /\ defensive \in [Requests -> Nat]
    /\ faults \in Nat

\* Messages carry their number; nothing follows Done.
Numbered(all) ==
    \A i \in 1 .. Len(all) :
        IF all[i][1] = "done" THEN i = Len(all) ELSE all[i][2] = i

\* What the loop has collected of the first n messages.
Collected(all, n, kept, calls) ==
    /\ n <= Len(all)
    /\ AllOf(kept, all, n, "token") /\ AllOf(calls, all, n, "tool")

\* The answer was read to its Done.
ReadWhole(all, n) == n = Len(all) /\ n > 0 /\ all[n][1] = "done"

\* What has been written to the client at each point of the handler.
Opened(h, kept) == IF h \in Streaming THEN <<<<"role", 0>>>> \o kept ELSE <<>>
ErrorBody(out) == \E e \in {400, 500, 502, 503} : out = <<<<"error", e>>>>
Answered(h, out, all, n, kept, calls) ==
    \/ h \in Streaming /\ out = <<>>
    \/ ErrorBody(out)
    \/ h \in Streaming /\ out = Opened(h, kept) \o <<Finish(calls), <<"DONE", 0>>>>
    \/ h \notin Streaming /\ ReadWhole(all, n) /\ out = kept \o <<Finish(calls)>>
Written(h, p, out, all, n, kept, calls) ==
    /\ p \in Before => out = <<>> /\ n = 0 /\ kept = <<>> /\ calls = <<>>
    /\ p = "role" => h \in Streaming
    /\ p \in Relaying => out = Opened(h, kept)
    /\ p = "respond" => ReadWhole(all, n)
    /\ p \in After => Answered(h, out, all, n, kept, calls)

\* What became of the slot, and of the message that gives it back.
Refused(out) == out = <<<<"error", 400>>>>
Accounted(p, s, out, rel, def, f) ==
    /\ p \in Before \cup Relaying \cup {"release"} => rel = 0 /\ def = 0
    /\ rel + def <= 1
    /\ p = "new" => s = "none"
    /\ s = "acked" => p # "slot"
    /\ p = "release" => ~Refused(out)
    /\ p \in {"leave", "end"} /\ f = 0 =>
          s # "acked" /\ rel + def = IF Refused(out) THEN 0 ELSE 1

\* All of it for a request, and the requests in the handlers' hands.
Request(h) ==
    /\ Numbered(httpReply[h])
    /\ Collected(httpReply[h], read[h], content[h], tools[h])
    /\ Written(h, pc[h], http[h], httpReply[h], read[h], content[h], tools[h])
    /\ Accounted(pc[h], slot[h], http[h], released[h], defensive[h], faults)

Open == {h \in Requests : pc[h] \notin {"new", "end"}}

\* The inductive invariant.
ProxyInv ==
    /\ ProxyTypes
    /\ \A h \in Requests : Request(h)
    /\ IsFiniteSet(Open) /\ outstanding = Cardinality(Open)

\* A step of request h: another one may lose its slot to a defensive release.
Apart(h) ==
    /\ faults' \in Nat /\ faults' >= faults
    /\ \A g \in Requests : g # h =>
        /\ pc'[g] = pc[g] /\ httpReply'[g] = httpReply[g] /\ read'[g] = read[g]
        /\ content'[g] = content[g] /\ tools'[g] = tools[g] /\ http'[g] = http[g]
        /\ released'[g] = released[g] /\ defensive'[g] = defensive[g]
        /\ slot'[g] = slot[g] \/ slot'[g] = (IF slot[g] = "none" THEN "none" ELSE "freed")

\* What holds of the others still does.
LEMMA ApartKeeps ==
  ASSUME ProxyTypes, NEW h \in Requests, NEW g \in Requests, g # h, Apart(h), Request(g)
  PROVE  Request(g)'
<1>1. Accounted(pc'[g], slot'[g], http'[g], released'[g], defensive'[g], faults')
  <2>1. Accounted(pc[g], slot[g], http[g], released[g], defensive[g], faults)
    BY Zenon DEF Request
  <2>2. Accounted(pc[g], slot'[g], http[g], released[g], defensive[g], faults')
    <3>1. faults' = 0 => faults = 0
      BY DEF Apart, ProxyTypes
    <3>2. (slot'[g] = "acked" => slot[g] = "acked") /\ (slot[g] = "none" => slot'[g] = "none")
      BY Zenon DEF Apart
    <3>3. QED
      BY <2>1, <3>1, <3>2, Zenon DEF Accounted
  <2>3. QED
    BY <2>2, Zenon DEF Apart
<1>2. QED
  BY <1>1, Zenon DEF Request, Apart

\* A loop that has read a message more has collected it.
LEMMA OneMore ==
  ASSUME NEW all \in Seq(Messages), Numbered(all), NEW n \in Nat, n < Len(all),
         NEW kept \in Seq(Messages), NEW kind \in {"token", "tool"}, AllOf(kept, all, n, kind)
  PROVE  AllOf(Taken(kept, all[n + 1], kind), all, n + 1, kind)
<1> DEFINE msg == all[n + 1]
           new == Taken(kept, msg, kind)
<1>1. /\ n + 1 \in 1 .. Len(all) /\ msg \in Messages /\ Len(kept) \in Nat
      /\ \A k \in 1 .. (n + 1) : k \in 1 .. n \/ k = n + 1
      /\ \A k \in 1 .. n : k \in 1 .. (n + 1) /\ k \in 1 .. Len(all)
      /\ n + 1 \in 1 .. (n + 1)
  OBVIOUS
<1>2. CASE msg[1] # kind
  <2>1. new = kept
    BY <1>2, Zenon DEF Taken
  <2>2. QED
    BY <1>1, <1>2, <2>1 DEF AllOf
<1>3. CASE msg[1] = kind
  <2>1. new = Append(kept, msg) /\ msg[2] = n + 1
    BY <1>1, <1>3, Zenon DEF Taken, Numbered
  <2>2. /\ Len(new) = Len(kept) + 1 /\ new[Len(kept) + 1] = msg
        /\ \A i \in 1 .. Len(kept) : new[i] = kept[i] /\ i \in 1 .. Len(new)
        /\ \A i \in 1 .. Len(new) : i \in 1 .. Len(kept) \/ i = Len(kept) + 1
        /\ Len(kept) + 1 \in 1 .. Len(new)
    BY <1>1, <2>1
  <2>3. \A i \in 1 .. Len(kept) : kept[i][2] < n + 1
    <3> SUFFICES ASSUME NEW i \in 1 .. Len(kept) PROVE kept[i][2] < n + 1
      BY Zenon
    <3>1. PICK k \in 1 .. n : kept[i] = all[k] /\ all[k][1] = kind
      BY Zenon DEF AllOf
    <3>2. all[k][2] = k
      BY <1>1, <3>1, Zenon DEF Numbered
    <3>3. QED
      BY <3>1, <3>2
  <2>4. \A i \in 1 .. Len(new) : \E k \in 1 .. (n + 1) : new[i] = all[k] /\ all[k][1] = kind
    <3> SUFFICES ASSUME NEW i \in 1 .. Len(new)
                 PROVE  \E k \in 1 .. (n + 1) : new[i] = all[k] /\ all[k][1] = kind
      BY Zenon
    <3>1. CASE i = Len(kept) + 1
      BY <1>1, <1>3, <2>1, <2>2, <3>1, Zenon
    <3>2. CASE i \in 1 .. Len(kept)
      <4>1. PICK k \in 1 .. n : kept[i] = all[k] /\ all[k][1] = kind
        BY <3>2, Zenon DEF AllOf
      <4>2. QED
        BY <1>1, <2>2, <3>2, <4>1, Zenon
    <3>3. QED
      BY <2>2, <3>1, <3>2, Zenon
  <2>5. \A k \in 1 .. (n + 1) : all[k][1] = kind => \E i \in 1 .. Len(new) : new[i] = all[k]
    BY <1>1, <1>3, <2>2 DEF AllOf
  <2>6. \A i, j \in 1 .. Len(new) : i < j => new[i][2] < new[j][2]
    <3> SUFFICES ASSUME NEW i \in 1 .. Len(new), NEW j \in 1 .. Len(new), i < j
                 PROVE  new[i][2] < new[j][2]
      BY Zenon
    <3>1. i \in 1 .. Len(kept)
      BY <1>1, <2>2
    <3>2. CASE j \in 1 .. Len(kept)
      BY <2>2, <3>1, <3>2, Zenon DEF AllOf
    <3>3. CASE j = Len(kept) + 1
      BY <2>1, <2>2, <2>3, <3>1, <3>3, Zenon
    <3>4. QED
      BY <2>2, <3>2, <3>3, Zenon
  <2>7. QED
    BY <2>4, <2>5, <2>6, Zenon DEF AllOf
<1>4. QED
  BY <1>2, <1>3, Zenon

\* Only what is read counts: a message that is published later changes nothing.
LEMMA LaterMessage ==
  ASSUME NEW all \in Seq(Messages), NEW n \in Nat, n <= Len(all), NEW m \in Messages,
         NEW kept, NEW kind, AllOf(kept, all, n, kind)
  PROVE  AllOf(kept, Append(all, m), n, kind)
<1>1. \A k \in 1 .. n : Append(all, m)[k] = all[k]
  OBVIOUS
<1>2. PICK more : more = Append(all, m) /\ \A k \in 1 .. n : more[k] = all[k]
  BY <1>1, Zenon
<1>3. ASSUME NEW i \in 1 .. Len(kept)
      PROVE  \E k \in 1 .. n : kept[i] = more[k] /\ more[k][1] = kind
  <2>1. PICK k \in 1 .. n : kept[i] = all[k] /\ all[k][1] = kind
    BY Zenon DEF AllOf
  <2>2. QED
    BY <1>2, <2>1, Zenon
<1>4. \A k \in 1 .. n : more[k][1] = kind => \E i \in 1 .. Len(kept) : kept[i] = more[k]
  BY <1>2, Zenon DEF AllOf
<1>5. AllOf(kept, more, n, kind)
  BY <1>3, <1>4, Zenon DEF AllOf
<1>6. QED
  BY <1>2, <1>5, Zenon

\* The events a handler writes are events.
LEMMA EventTypes ==
  /\ <<"error", 400>> \in Events /\ <<"error", 500>> \in Events /\ <<"error", 502>> \in Events
  /\ <<"error", 503>> \in Events /\ <<"role", 0>> \in Events /\ <<"DONE", 0>> \in Events
  /\ \A calls \in Seq(Messages) : Finish(calls) \in Events
  /\ \A m \in Messages : m \in Events
  BY DEF Events, Finish

\* Writing in two parts or in one is the same.
LEMMA EventsAssociative == \A r, c, t \in Seq(Events) : (r \o c) \o t = r \o (c \o t)
  BY ConcatAssociative

\* Messages are events, and so are sequences of them.
LEMMA MessagesAreEvents ==
  ASSUME NEW kept \in Seq(Messages) PROVE kept \in Seq(Events)
  BY EventTypes

\* What the handler writes at its end are events.
LEMMA AnswerTypes ==
  ASSUME NEW h \in Requests, ProxyTypes
  PROVE  StreamTail(h) \in Seq(Events) /\ AggregateAnswer(h) \in Seq(Events)
<1>1. content[h] \in Seq(Messages) /\ tools[h] \in Seq(Messages)
  BY Zenon DEF ProxyTypes
<1>2. Finish(tools[h]) \in Events /\ <<"DONE", 0>> \in Events /\ <<"error", 502>> \in Events
  BY <1>1, EventTypes
<1>3. content[h] \in Seq(Events)
  BY <1>1, MessagesAreEvents, Zenon
<1>4. QED
  BY <1>2, <1>3 DEF StreamTail, AggregateAnswer

\* Every step keeps the types of the variables.
LEMMA ProxyTypesStep ==
  ASSUME LLMProxyAssumption, ProxyTypes, [ProxyNext]_(proxyVars)
  PROVE  ProxyTypes'
<1> USE DEF ProxyTypes, inbound, context, releases
<1> DEFINE Places == Before \cup Relaying \cup After
<1>p. {"slot", "publish", "group", "role", "relay", "respond", "cut", "release", "leave", "end"} \subseteq Places
  BY Zenon DEF Before, Relaying, After
<1>s. {"none", "offered", "acked", "freed"} \subseteq SlotStates
  BY Zenon DEF SlotStates
<1>g. ASSUME NEW h \in Requests,
             NEW l \in {"slot", "publish", "group", "role", "relay", "respond", "cut", "release", "leave", "end"},
             Goto(h, l)
      PROVE  pc' \in [Requests -> Places]
  BY <1>g, <1>p, Zenon DEF Goto
<1>1. ASSUME NEW h \in Requests, Disconnect(h) \/ Expire(h) \/ Offer(h) \/ Reclaim(h)
      PROVE  ProxyTypes'
  <2>1. slot' \in [Requests -> SlotStates]
    BY <1>1, <1>s, Zenon DEF Disconnect, Expire, Offer, Reclaim
  <2>2. UNCHANGED <<pc, httpReply, read, content, tools, http, released, defensive, faults>>
    BY <1>1, Zenon DEF Disconnect, Expire, Offer, Reclaim
  <2>3. QED
    BY <2>1, <2>2, Zenon
<1>2. ASSUME NEW h \in Requests, BrokerReply(h) PROVE ProxyTypes'
  <2>1. PICK kind \in {"token", "tool", "done"} :
            httpReply' = [httpReply EXCEPT ![h] = Append(@, <<kind, IF kind = "done" THEN 0 ELSE Len(httpReply[h]) + 1>>)]
    BY <1>2, Zenon DEF BrokerReply
  <2>2. <<kind, IF kind = "done" THEN 0 ELSE Len(httpReply[h]) + 1>> \in Messages
    BY DEF Messages
  <2>3. httpReply' \in [Requests -> Seq(Messages)]
    BY <2>1, <2>2
  <2>4. QED
    BY <1>2, <2>3, Zenon DEF BrokerReply
<1>3. ASSUME NEW h \in Requests, NEW events \in Seq(Events), Write(h, events)
      PROVE  http' \in [Requests -> Seq(Events)]
  BY <1>3 DEF Write
<1>4. /\ <<<<"error", 400>>>> \in Seq(Events) /\ <<<<"error", 500>>>> \in Seq(Events)
      /\ <<<<"error", 502>>>> \in Seq(Events) /\ <<<<"error", 503>>>> \in Seq(Events)
      /\ <<<<"role", 0>>>> \in Seq(Events)
  BY EventTypes
<1>c. ASSUME NEW f \in [Requests -> Nat], NEW h \in Requests
      PROVE  [f EXCEPT ![h] = @ + 1] \in [Requests -> Nat]
  OBVIOUS
<1>f. Fault => faults' \in Nat
  BY DEF Fault
<1>5. ASSUME NEW h \in Requests, Receive(h) PROVE ProxyTypes'
  <2>1. pc' \in [Requests -> Places]
    BY <1>5, <1>g, Zenon DEF Receive
  <2>2. http' \in [Requests -> Seq(Events)]
    BY <1>3, <1>4, <1>5, Zenon DEF Receive
  <2>3. QED
    BY <1>5, <2>1, <2>2, Zenon DEF Receive
<1>6. ASSUME NEW h \in Requests, SlotAcquired(h) PROVE ProxyTypes'
  <2>1. pc' \in [Requests -> Places]
    BY <1>6, <1>g, Zenon DEF SlotAcquired
  <2>2. slot' \in [Requests -> SlotStates]
    BY <1>6, <1>s, Zenon DEF SlotAcquired
  <2>3. QED
    BY <1>6, <2>1, <2>2, Zenon DEF SlotAcquired, Succeeds
<1>7. ASSUME NEW h \in Requests, SlotUnavailable(h) PROVE ProxyTypes'
  <2>1. defensive' \in [Requests -> Nat] /\ slot' \in [Requests -> SlotStates]
    <3>1. defensive' = defensive \/ defensive' = [defensive EXCEPT ![h] = @ + 1]
      BY <1>7, Zenon DEF SlotUnavailable, DefensiveRelease
    <3>2. [defensive EXCEPT ![h] = @ + 1] \in [Requests -> Nat]
      BY <1>c, Zenon
    <3>3. slot' \in [Requests -> SlotStates]
      BY <1>7 DEF SlotUnavailable, DefensiveRelease, SlotStates
    <3>4. QED
      BY <3>1, <3>2, <3>3, Zenon
  <2>2. http' \in [Requests -> Seq(Events)]
    <3>1. Write(h, <<<<"error", 503>>>>)
      BY <1>7, Zenon DEF SlotUnavailable
    <3>2. QED
      BY <1>3, <1>4, <3>1, Zenon
  <2>3. pc' \in [Requests -> Places]
    BY <1>7, <1>g, Zenon DEF SlotUnavailable
  <2>4. faults' \in Nat
    BY <1>7, <1>f, Zenon DEF SlotUnavailable
  <2>5. QED
    BY <1>7, <2>1, <2>2, <2>3, <2>4, Zenon DEF SlotUnavailable
<1>8. ASSUME NEW h \in Requests, PublishLLMRequest(h) PROVE ProxyTypes'
  <2>1. pc' \in [Requests -> Places]
    BY <1>8, <1>g, Zenon DEF PublishLLMRequest
  <2>2. http' \in [Requests -> Seq(Events)]
    <3>1. http' = http \/ Write(h, <<<<"error", 502>>>>)
      BY <1>8, Zenon DEF PublishLLMRequest
    <3>2. QED
      BY <1>3, <1>4, <3>1, Zenon
  <2>3. faults' \in Nat
    BY <1>8, <1>f, Zenon DEF PublishLLMRequest, Succeeds, Fails
  <2>4. QED
    BY <1>8, <2>1, <2>2, <2>3, Zenon DEF PublishLLMRequest
<1>9. ASSUME NEW h \in Requests, EnsureReplyGroup(h) PROVE ProxyTypes'
  <2>1. pc' \in [Requests -> Places]
    BY <1>9, <1>g, Zenon DEF EnsureReplyGroup
  <2>2. http' \in [Requests -> Seq(Events)]
    BY <1>3, <1>4, <1>9, Zenon DEF EnsureReplyGroup
  <2>3. faults' \in Nat
    BY <1>9, <1>f, Zenon DEF EnsureReplyGroup, Succeeds, Fails
  <2>4. QED
    BY <1>9, <2>1, <2>2, <2>3, Zenon DEF EnsureReplyGroup
<1>10. ASSUME NEW h \in Requests, EmitRole(h) PROVE ProxyTypes'
  <2>1. pc' \in [Requests -> Places]
    BY <1>10, <1>g, Zenon DEF EmitRole
  <2>2. http' \in [Requests -> Seq(Events)]
    BY <1>3, <1>4, <1>10, Zenon DEF EmitRole
  <2>3. QED
    BY <1>10, <2>1, <2>2, Zenon DEF EmitRole
<1>11. ASSUME NEW h \in Requests, ConsumeReply(h) PROVE ProxyTypes'
  <2>1. httpReply[h][read[h] + 1] \in Messages
    BY <1>11 DEF ConsumeReply
  <2>2. <<httpReply[h][read[h] + 1]>> \in Seq(Events)
    BY <2>1, EventTypes
  <2>3. http' \in [Requests -> Seq(Events)]
    BY <1>3, <1>11, <2>2, Zenon DEF ConsumeReply
  <2>4. content' \in [Requests -> Seq(Messages)] /\ tools' \in [Requests -> Seq(Messages)]
    BY <1>11, <2>1 DEF ConsumeReply, Taken
  <2>5. QED
    <3>1. pc' \in [Requests -> Places]
      BY <1>11, <1>g, Zenon DEF ConsumeReply
    <3>2. read' \in [Requests -> Nat]
      BY <1>11, <1>c, Zenon DEF ConsumeReply
    <3>3. QED
      BY <1>11, <2>3, <2>4, <3>1, <3>2, Zenon DEF ConsumeReply
<1>12. ASSUME NEW h \in Requests, ReplyCut(h) PROVE ProxyTypes'
  <2>1. pc' \in [Requests -> Places]
    BY <1>12, <1>g, Zenon DEF ReplyCut
  <2>2. QED
    BY <1>12, <2>1, Zenon DEF ReplyCut
<1>13. ASSUME NEW h \in Requests, Respond(h) PROVE ProxyTypes'
  <2>1. pc' \in [Requests -> Places]
    BY <1>13, <1>g, Zenon DEF Respond
  <2>2. http' \in [Requests -> Seq(Events)]
    BY <1>3, <1>13, AnswerTypes, Zenon DEF Respond
  <2>3. QED
    BY <1>13, <2>1, <2>2, Zenon DEF Respond
<1>14. ASSUME NEW h \in Requests, Release(h) PROVE ProxyTypes'
  <2>1. released' \in [Requests -> Nat]
    <3>1. released' = released \/ released' = [released EXCEPT ![h] = @ + 1]
      BY <1>14, Zenon DEF Release
    <3>2. [released EXCEPT ![h] = @ + 1] \in [Requests -> Nat]
      BY <1>c, Zenon
    <3>3. QED
      BY <3>1, <3>2, Zenon
  <2>2. pc' \in [Requests -> Places]
    BY <1>14, <1>g, Zenon DEF Release
  <2>3. slot' \in [Requests -> SlotStates]
    BY <1>14, <1>s, Zenon DEF Release
  <2>4. faults' \in Nat
    BY <1>14, <1>f, Zenon DEF Release
  <2>5. QED
    BY <1>14, <2>1, <2>2, <2>3, <2>4, Zenon DEF Release
<1>15. ASSUME NEW h \in Requests, Leave(h) PROVE ProxyTypes'
  <2>1. pc' \in [Requests -> Places]
    BY <1>15, <1>g, Zenon DEF Leave
  <2>2. QED
    BY <1>15, <2>1, Zenon DEF Leave
<1>16. CASE UNCHANGED proxyVars
  BY <1>16, Zenon DEF proxyVars
<1> HIDE DEF ProxyTypes
<1>17. QED
  BY <1>1, <1>2, <1>5, <1>6, <1>7, <1>8, <1>9, <1>10, <1>11, <1>12, <1>13, <1>14, <1>15, <1>16, Zenon
     DEF ProxyNext, Handler

\* Request h moves from p to q, writes out and leaves what it has read.
SameReply(h) ==
    /\ httpReply'[h] = httpReply[h] /\ read'[h] = read[h]
    /\ content'[h] = content[h] /\ tools'[h] = tools[h]

\* A request of which nothing changed but the faults elsewhere.
LEMMA RequestOf ==
  ASSUME NEW h \in Requests, Request(h), SameReply(h),
         Written(h, pc'[h], http'[h], httpReply[h], read[h], content[h], tools[h]),
         Accounted(pc'[h], slot'[h], http'[h], released'[h], defensive'[h], faults')
  PROVE  Request(h)'
  BY Zenon DEF Request, SameReply

\* What may have been written, by where the handler is.
LEMMA WrittenBefore ==
  ASSUME NEW h, NEW p \in Before, NEW all, p = "role" => h \in Streaming
  PROVE  Written(h, p, <<>>, all, 0, <<>>, <<>>)
  BY Zenon DEF Written, Before, Relaying, After

LEMMA WrittenRelaying ==
  ASSUME NEW h, NEW p \in Relaying, NEW out, NEW all, NEW n, NEW kept, NEW calls,
         out = Opened(h, kept), p = "respond" => ReadWhole(all, n)
  PROVE  Written(h, p, out, all, n, kept, calls)
  BY Zenon DEF Written, Before, Relaying, After

LEMMA WrittenAfter ==
  ASSUME NEW h, NEW p \in After, NEW out, NEW all, NEW n, NEW kept, NEW calls,
         Answered(h, out, all, n, kept, calls)
  PROVE  Written(h, p, out, all, n, kept, calls)
  BY Zenon DEF Written, Before, Relaying, After

\* Until the slot is given back nothing is; then it is once, unless it failed or
\* the request was refused.
LEMMA AccountedOpen ==
  ASSUME NEW p \in Before \cup Relaying \cup {"release"}, NEW s, NEW out, NEW f,
         p = "new" => s = "none", s = "acked" => p # "slot", p = "release" => ~Refused(out)
  PROVE  Accounted(p, s, out, 0, 0, f)
  BY DEF Accounted, Before, Relaying

LEMMA AccountedOver ==
  ASSUME NEW p \in {"leave", "end"}, NEW s, NEW out, NEW rel \in Nat, NEW def \in Nat, NEW f,
         rel + def <= 1, f = 0 => s # "acked" /\ rel + def = IF Refused(out) THEN 0 ELSE 1
  PROVE  Accounted(p, s, out, rel, def, f)
  BY Zenon DEF Accounted, Before, Relaying

\* Where a handler goes and what it writes is its own.
LEMMA GoesTo ==
  ASSUME ProxyTypes, NEW h \in Requests, NEW l, Goto(h, l)
  PROVE  pc'[h] = l /\ \A g \in Requests : g # h => pc'[g] = pc[g]
  BY Zenon DEF ProxyTypes, Goto

LEMMA Writes ==
  ASSUME ProxyTypes, NEW h \in Requests, NEW events, Write(h, events)
  PROVE  http'[h] = http[h] \o events /\ \A g \in Requests : g # h => http'[g] = http[g]
  BY Zenon DEF ProxyTypes, Write

\* The errors a request may be refused with, and what each is as an answer.
BadRequest == <<<<"error", 400>>>>
NoSlot == <<<<"error", 503>>>>
NoGroup == <<<<"error", 500>>>>
Upstream == <<<<"error", 502>>>>
Role == <<<<"role", 0>>>>

LEMMA FirstWrites ==
  /\ <<>> \o BadRequest = BadRequest /\ <<>> \o NoSlot = NoSlot
  /\ <<>> \o NoGroup = NoGroup /\ <<>> \o Upstream = Upstream
  /\ <<>> \o Role = Role /\ Role \o <<>> = Role
<1>1. <<>> \o BadRequest = BadRequest /\ <<>> \o NoSlot = NoSlot
  BY DEF BadRequest, NoSlot
<1>2. <<>> \o NoGroup = NoGroup /\ <<>> \o Upstream = Upstream
  BY DEF NoGroup, Upstream
<1>3. <<>> \o Role = Role /\ Role \o <<>> = Role
  BY DEF Role
<1>4. QED
  BY <1>1, <1>2, <1>3, Zenon

LEMMA OnlyBadRequestRefuses ==
  /\ Refused(BadRequest) /\ ~Refused(<<>>) /\ ~Refused(NoSlot) /\ ~Refused(NoGroup)
  /\ ~Refused(Upstream)
  BY SMT DEF Refused, BadRequest, NoSlot, NoGroup, Upstream

LEMMA ErrorAnswers ==
  ASSUME NEW h, NEW all, NEW n, NEW kept, NEW calls,
         NEW out \in {BadRequest, NoSlot, NoGroup, Upstream}
  PROVE  Answered(h, out, all, n, kept, calls)
  BY SMT DEF Answered, ErrorBody, BadRequest, NoSlot, NoGroup, Upstream

\* A step that leaves the reply streams, the slots and the releases alone.
LEMMA ApartOf ==
  ASSUME NEW h \in Requests, faults \in Nat, faults' = faults \/ faults' = faults + 1,
         UNCHANGED <<httpReply, read, content, tools, released, defensive>>,
         \A g \in Requests : g # h => /\ pc'[g] = pc[g] /\ http'[g] = http[g]
                                      /\ slot'[g] = slot[g] \/ slot'[g] = (IF slot[g] = "none" THEN "none" ELSE "freed")
  PROVE  Apart(h)
<1>1. faults' \in Nat /\ faults' >= faults
  OBVIOUS
<1>2. QED
  BY <1>1, Zenon DEF Apart

\* The environment: the client leaves, the deadline passes, the broker offers a
\* slot, takes it back or publishes more of the answer.
LEMMA OutsideKeeps ==
  ASSUME ProxyTypes, NEW h \in Requests, Request(h),
         \/ Disconnect(h) \/ Expire(h) \/ Offer(h) \/ Reclaim(h) \/ BrokerReply(h)
  PROVE  Apart(h) /\ Request(h)'
<1> USE DEF inbound, context, releases
<1>e. faults' = faults
  BY Zenon DEF Disconnect, Expire, Offer, Reclaim, BrokerReply
<1>f. faults' = faults /\ faults \in Nat /\ faults >= faults
  BY <1>e DEF ProxyTypes
<1>1. CASE Disconnect(h) \/ Expire(h)
  <2>1. UNCHANGED <<pc, slot, httpReply, read, content, tools, http, released, defensive>>
    BY <1>1, Zenon DEF Disconnect, Expire
  <2>2. Apart(h)
    BY <1>f, <2>1, Zenon DEF Apart
  <2>3. QED
    BY <1>f, <2>1, <2>2, Zenon DEF Request
<1>2. CASE Offer(h) \/ Reclaim(h)
  <2>1. /\ UNCHANGED <<pc, httpReply, read, content, tools, http, released, defensive>>
        /\ slot'[h] \in {"offered", "freed"} /\ \A g \in Requests : g # h => slot'[g] = slot[g]
        /\ pc[h] # "new" \/ slot[h] # "none"
    BY <1>2 DEF Offer, Reclaim, ProxyTypes
  <2>2. Apart(h)
    BY <1>f, <2>1, Zenon DEF Apart
  <2>3. Accounted(pc'[h], slot'[h], http'[h], released'[h], defensive'[h], faults')
    BY <1>f, <2>1, Zenon DEF Accounted, Request
  <2>4. QED
    BY <2>1, <2>2, <2>3, RequestOf, Zenon DEF Request, SameReply
<1>3. CASE BrokerReply(h)
  <2>1. PICK kind \in {"token", "tool", "done"} :
            httpReply' = [httpReply EXCEPT ![h] = Append(@, <<kind, IF kind = "done" THEN 0 ELSE Len(httpReply[h]) + 1>>)]
    BY <1>3, Zenon DEF BrokerReply
  <2>2. PICK m : m = <<kind, IF kind = "done" THEN 0 ELSE Len(httpReply[h]) + 1>>
    BY Zenon
  <2>3. /\ m \in Messages /\ httpReply[h] \in Seq(Messages) /\ read[h] \in Nat
        /\ m[1] # "done" => m[2] = Len(httpReply[h]) + 1
    BY <2>2 DEF Messages, ProxyTypes
  <2>4. /\ httpReply'[h] = Append(httpReply[h], m) /\ \A g \in Requests : g # h => httpReply'[g] = httpReply[g]
        /\ UNCHANGED <<pc, slot, read, content, tools, http, released, defensive>>
        /\ pc[h] \in {"group", "role", "relay"} /\ \A i \in 1 .. Len(httpReply[h]) : httpReply[h][i][1] # "done"
    BY <1>3, <2>1, <2>2, Zenon DEF BrokerReply, ProxyTypes
  <2>5. Apart(h)
    BY <1>f, <2>4, Zenon DEF Apart
  <2>6. Numbered(httpReply'[h])
    <3>1. Len(Append(httpReply[h], m)) = Len(httpReply[h]) + 1 /\ Len(httpReply[h]) \in Nat
      BY <2>3
    <3>2. ASSUME NEW i \in 1 .. (Len(httpReply[h]) + 1)
          PROVE  IF Append(httpReply[h], m)[i][1] = "done" THEN i = Len(httpReply[h]) + 1
                 ELSE Append(httpReply[h], m)[i][2] = i
      <4>1. CASE i = Len(httpReply[h]) + 1
        BY <2>3, <3>1, <4>1
      <4>2. CASE i \in 1 .. Len(httpReply[h])
        <5>1. Append(httpReply[h], m)[i] = httpReply[h][i]
          BY <2>3, <4>2
        <5>2. QED
          BY <2>4, <4>2, <5>1, Zenon DEF Request, Numbered
      <4>3. QED
        BY <3>1, <4>1, <4>2
    <3>3. QED
      BY <2>4, <3>1, <3>2, Zenon DEF Numbered
  <2>7. Collected(httpReply'[h], read'[h], content'[h], tools'[h])
    <3>1. Collected(httpReply[h], read[h], content[h], tools[h])
      BY Zenon DEF Request
    <3>2. /\ read[h] <= Len(httpReply[h]) /\ AllOf(content[h], httpReply[h], read[h], "token")
          /\ AllOf(tools[h], httpReply[h], read[h], "tool")
      BY <3>1, Zenon DEF Collected
    <3>3. /\ AllOf(content[h], Append(httpReply[h], m), read[h], "token")
          /\ AllOf(tools[h], Append(httpReply[h], m), read[h], "tool")
      BY <2>3, <3>2, LaterMessage, Zenon
    <3>4. read[h] <= Len(Append(httpReply[h], m))
      <4>1. Len(Append(httpReply[h], m)) = Len(httpReply[h]) + 1 /\ Len(httpReply[h]) \in Nat
        BY <2>3
      <4>2. QED
        BY <2>3, <3>2, <4>1
    <3>5. QED
      BY <2>4, <3>3, <3>4, Zenon DEF Collected
  <2>8. Written(h, pc'[h], http'[h], httpReply'[h], read'[h], content'[h], tools'[h])
    <3>1. Written(h, pc[h], http[h], httpReply[h], read[h], content[h], tools[h])
      BY Zenon DEF Request
    <3>2. CASE pc[h] = "relay"
      <4>1. http[h] = Opened(h, content[h]) /\ pc[h] \in Relaying /\ pc[h] # "respond"
        BY <3>1, <3>2, Zenon DEF Written, Relaying
      <4>2. QED
        BY <2>4, <4>1, WrittenRelaying, Zenon
    <3>3. CASE pc[h] \in {"group", "role"}
      <4>1. /\ http[h] = <<>> /\ read[h] = 0 /\ content[h] = <<>> /\ tools[h] = <<>>
            /\ pc[h] \in Before /\ (pc[h] = "role" => h \in Streaming)
        BY <3>1, <3>3, Zenon DEF Written, Before
      <4>2. QED
        BY <2>4, <4>1, WrittenBefore, Zenon
    <3>4. QED
      BY <2>4, <3>2, <3>3, Zenon
  <2>9. QED
    BY <1>f, <2>4, <2>5, <2>6, <2>7, <2>8, Zenon DEF Request
<1>4. QED
  BY <1>1, <1>2, <1>3, Zenon

\* The handler up to its reply stream: every early return writes an error and
\* gives back, or does not have, a slot.
LEMMA AcquireKeeps ==
  ASSUME ProxyTypes, NEW h \in Requests, Request(h),
         Receive(h) \/ SlotAcquired(h) \/ SlotUnavailable(h)
  PROVE  Apart(h) /\ Request(h)'
<1> USE DEF inbound, context, releases
<1>0. /\ pc[h] \in {"new", "slot"} /\ faults \in Nat /\ slot[h] \in SlotStates
      /\ slot \in [Requests -> SlotStates] /\ defensive \in [Requests -> Nat]
  BY Zenon DEF ProxyTypes, Receive, SlotAcquired, SlotUnavailable
<1>a. /\ http[h] = <<>> /\ read[h] = 0 /\ content[h] = <<>> /\ tools[h] = <<>>
      /\ released[h] = 0 /\ defensive[h] = 0 /\ (pc[h] = "new" => slot[h] = "none")
  BY <1>0, Zenon DEF Request, Written, Accounted, Before
<1>1. UNCHANGED <<httpReply, read, content, tools, released>> /\ SameReply(h)
  BY Zenon DEF Receive, SlotAcquired, SlotUnavailable, SameReply
<1>3. CASE Receive(h)
  <2>1. /\ UNCHANGED <<slot, defensive, faults>> /\ pc[h] = "new"
        /\ \/ Goto(h, "slot") /\ http' = http
           \/ Goto(h, "leave") /\ Write(h, BadRequest)
    BY <1>3, Zenon DEF Receive, BadRequest
  <2>2. /\ \A g \in Requests : g # h => pc'[g] = pc[g] /\ http'[g] = http[g]
        /\ \/ pc'[h] = "slot" /\ http'[h] = <<>>
           \/ pc'[h] = "leave" /\ http'[h] = BadRequest
    <3>1. CASE Goto(h, "slot") /\ http' = http
      BY <1>a, <3>1, GoesTo, Zenon
    <3>2. CASE Goto(h, "leave") /\ Write(h, BadRequest)
      BY <1>a, <3>2, GoesTo, Writes, FirstWrites, Zenon
    <3>3. QED
      BY <2>1, <3>1, <3>2, Zenon
  <2>3. Apart(h)
    BY <1>0, <1>1, <2>1, <2>2, ApartOf, Zenon
  <2>4. CASE pc'[h] = "slot" /\ http'[h] = <<>>
    <3>1. pc'[h] \in Before /\ pc'[h] # "role" /\ pc'[h] # "new" /\ pc'[h] # "release" /\ slot'[h] # "acked"
      BY <1>a, <2>1, <2>4, Zenon DEF Before
    <3>2. Written(h, pc'[h], http'[h], httpReply[h], read[h], content[h], tools[h])
      BY <1>a, <2>4, <3>1, WrittenBefore, Zenon
    <3>3. Accounted(pc'[h], slot'[h], http'[h], 0, 0, faults')
      BY <3>1, AccountedOpen, Zenon
    <3>4. QED
      BY <1>1, <1>a, <2>1, <2>3, <3>2, <3>3, RequestOf, Zenon
  <2>5. CASE pc'[h] = "leave" /\ http'[h] = BadRequest
    <3>1. Answered(h, http'[h], httpReply[h], read[h], content[h], tools[h]) /\ pc'[h] \in After
      BY <2>5, ErrorAnswers, Zenon DEF After
    <3>2. Written(h, pc'[h], http'[h], httpReply[h], read[h], content[h], tools[h])
      BY <3>1, WrittenAfter, Zenon
    <3>3. Refused(http'[h]) /\ slot'[h] # "acked" /\ pc'[h] \in {"leave", "end"}
      BY <1>a, <2>1, <2>5, OnlyBadRequestRefuses, Zenon
    <3>4. Accounted(pc'[h], slot'[h], http'[h], 0, 0, faults')
      BY <3>3, AccountedOver
    <3>5. QED
      BY <1>1, <1>a, <2>1, <2>3, <3>2, <3>4, RequestOf, Zenon
  <2>6. QED
    BY <2>2, <2>4, <2>5, Zenon
<1>4. CASE SlotAcquired(h)
  <2>1. /\ UNCHANGED <<defensive, faults, http>> /\ Goto(h, "publish")
        /\ slot' = [slot EXCEPT ![h] = IF @ = "offered" THEN "acked" ELSE @]
    BY <1>4, Zenon DEF SlotAcquired, Succeeds
  <2>2. /\ pc'[h] = "publish" /\ \A g \in Requests : g # h => pc'[g] = pc[g] /\ slot'[g] = slot[g]
    BY <1>0, <2>1, GoesTo, Zenon
  <2>3. Apart(h)
    BY <1>0, <1>1, <2>1, <2>2, ApartOf, Zenon
  <2>4. pc'[h] \in Before /\ pc'[h] # "role" /\ pc'[h] # "new" /\ pc'[h] # "release" /\ pc'[h] # "slot"
    BY <2>2, Zenon DEF Before
  <2>5. Written(h, pc'[h], http'[h], httpReply[h], read[h], content[h], tools[h])
    BY <1>a, <2>1, <2>4, WrittenBefore, Zenon
  <2>6. Accounted(pc'[h], slot'[h], http'[h], 0, 0, faults')
    BY <2>4, AccountedOpen, Zenon
  <2>7. QED
    BY <1>1, <1>a, <2>1, <2>3, <2>5, <2>6, RequestOf, Zenon
<1>5. CASE SlotUnavailable(h)
  <2>1. http'[h] = NoSlot /\ pc'[h] = "leave"
        /\ \A g \in Requests : g # h => pc'[g] = pc[g] /\ http'[g] = http[g]
    <3>1. Write(h, NoSlot) /\ Goto(h, "leave")
      BY <1>5, Zenon DEF SlotUnavailable, NoSlot
    <3>2. QED
      BY <1>a, <3>1, GoesTo, Writes, FirstWrites, Zenon
  <2>2. ~Refused(http'[h]) /\ pc'[h] \in {"leave", "end"} /\ pc'[h] \in After
    BY <2>1, OnlyBadRequestRefuses, Zenon DEF After
  <2>3. Written(h, pc'[h], http'[h], httpReply[h], read[h], content[h], tools[h])
    <3>1. Answered(h, http'[h], httpReply[h], read[h], content[h], tools[h])
      BY <2>1, ErrorAnswers, Zenon
    <3>2. QED
      BY <2>2, <3>1, WrittenAfter, Zenon
  <2>4. CASE DefensiveRelease(h) /\ UNCHANGED faults
    <3>1. /\ \A g \in Requests : g # h => defensive'[g] = defensive[g]
          /\ defensive'[h] = defensive[h] + 1
          /\ \A g \in Requests : slot'[g] = (IF slot[g] = "none" THEN "none" ELSE "freed")
      BY <1>0, <2>4, Zenon DEF DefensiveRelease
    <3>2. faults' \in Nat /\ faults' >= faults
      BY <1>0, <2>4
    <3>3. Apart(h)
      BY <1>1, <2>1, <3>1, <3>2, Zenon DEF Apart
    <3>4. defensive'[h] = 1 /\ 0 + 1 = 1 /\ 0 + 1 <= 1
      BY <1>a, <3>1
    <3>5. slot'[h] # "acked"
      BY <3>1, Zenon
    <3>6. Accounted(pc'[h], slot'[h], http'[h], 0, 1, faults')
      BY <2>2, <3>4, <3>5, AccountedOver, Zenon
    <3>7. QED
      BY <1>1, <1>a, <2>3, <3>3, <3>4, <3>6, RequestOf, Zenon
  <2>5. CASE Fault /\ UNCHANGED <<defensive, slot>>
    <3>1. faults' = faults + 1 /\ faults' # 0
      BY <1>0, <2>5 DEF Fault
    <3>2. Apart(h)
      BY <1>0, <1>1, <2>1, <2>5, <3>1, ApartOf, Zenon
    <3>3. Accounted(pc'[h], slot'[h], http'[h], 0, 0, faults')
      BY <2>2, <3>1, AccountedOver
    <3>4. QED
      BY <1>1, <1>a, <2>3, <2>5, <3>2, <3>3, RequestOf, Zenon
  <2>6. QED
    BY <1>5, <2>4, <2>5, Zenon DEF SlotUnavailable
<1>6. QED
  BY <1>3, <1>4, <1>5, Zenon

\* The request is published, its reply stream joined and, for a stream, the role
\* emitted.
LEMMA DispatchKeeps ==
  ASSUME ProxyTypes, NEW h \in Requests, Request(h),
         PublishLLMRequest(h) \/ EnsureReplyGroup(h) \/ EmitRole(h)
  PROVE  Apart(h) /\ Request(h)'
<1> USE DEF inbound, context, releases
<1>0. /\ pc[h] \in {"publish", "group", "role"} /\ http[h] = <<>> /\ faults \in Nat
      /\ read[h] = 0 /\ content[h] = <<>> /\ tools[h] = <<>>
      /\ released[h] = 0 /\ defensive[h] = 0
      /\ pc[h] = "role" => h \in Streaming
  BY Zenon DEF Request, Written, Accounted, Before, ProxyTypes, PublishLLMRequest,
         EnsureReplyGroup, EmitRole
<1>1. /\ UNCHANGED <<httpReply, read, content, tools, slot, released, defensive>>
      /\ faults' = faults \/ faults' = faults + 1
  BY Zenon DEF PublishLLMRequest, EnsureReplyGroup, EmitRole, Succeeds, Fails, Fault
<1>2. /\ \A g \in Requests : g # h => pc'[g] = pc[g] /\ http'[g] = http[g]
      /\ \/ pc'[h] \in {"group", "role"} /\ http'[h] = <<>> /\ (pc'[h] = "role" => h \in Streaming)
         \/ pc'[h] = "relay" /\ http'[h] = Opened(h, <<>>)
         \/ pc'[h] = "release" /\ http'[h] \in {NoGroup, Upstream}
         \/ pc'[h] = "release" /\ http'[h] = <<>> /\ pc[h] = "role"
  <2>1. CASE Goto(h, "group") /\ http' = http
    <3>1. pc'[h] = "group" /\ \A g \in Requests : g # h => pc'[g] = pc[g]
      BY <2>1, GoesTo, Zenon
    <3>2. pc'[h] # "role"
      BY <3>1, Zenon
    <3>3. QED
      BY <1>0, <2>1, <3>1, <3>2, Zenon
  <2>2. CASE Goto(h, IF h \in Streaming THEN "role" ELSE "relay") /\ http' = http
    BY <1>0, <2>2, GoesTo, Zenon DEF Opened
  <2>3. CASE Goto(h, "release") /\ Write(h, NoGroup)
    BY <1>0, <2>3, GoesTo, Writes, FirstWrites, Zenon
  <2>4. CASE Goto(h, "release") /\ Write(h, Upstream)
    BY <1>0, <2>4, GoesTo, Writes, FirstWrites, Zenon
  <2>5. CASE Goto(h, "relay") /\ Write(h, Role) /\ pc[h] = "role"
    <3>1. Opened(h, <<>>) = Role \o <<>>
      BY <1>0, <2>5, Zenon DEF Opened, Role
    <3>2. /\ http'[h] = <<>> \o Role
          /\ \A g \in Requests : g # h => http'[g] = http[g]
      BY <1>0, <2>5, Writes, Zenon
    <3>3. pc'[h] = "relay" /\ \A g \in Requests : g # h => pc'[g] = pc[g]
      BY <2>5, GoesTo, Zenon
    <3>4. http'[h] = Opened(h, <<>>)
      BY <3>1, <3>2, FirstWrites, Zenon
    <3>5. QED
      BY <3>2, <3>3, <3>4, Zenon
  <2>6. CASE Goto(h, "release") /\ http' = http /\ pc[h] = "role"
    BY <1>0, <2>6, GoesTo, Zenon
  <2>7. CASE PublishLLMRequest(h)
    BY <2>1, <2>4, <2>7, Zenon DEF PublishLLMRequest, Upstream
  <2>8. CASE EnsureReplyGroup(h)
    BY <2>2, <2>3, <2>8, Zenon DEF EnsureReplyGroup, NoGroup
  <2>9. CASE EmitRole(h)
    BY <2>5, <2>6, <2>9, Zenon DEF EmitRole, Role
  <2>10. QED
    BY <2>7, <2>8, <2>9, Zenon
<1>3. Apart(h)
  BY <1>0, <1>1, <1>2, ApartOf, Zenon
<1>4. Written(h, pc'[h], http'[h], httpReply[h], read[h], content[h], tools[h])
  <2>1. CASE pc'[h] \in {"group", "role"} /\ http'[h] = <<>> /\ (pc'[h] = "role" => h \in Streaming)
    <3>1. pc'[h] \in Before
      BY <2>1, Zenon DEF Before
    <3>2. QED
      BY <1>0, <2>1, <3>1, WrittenBefore, Zenon
  <2>2. CASE pc'[h] = "relay" /\ http'[h] = Opened(h, <<>>)
    <3>1. pc'[h] \in Relaying /\ pc'[h] # "respond"
      BY <2>2, Zenon DEF Relaying
    <3>2. QED
      BY <1>0, <2>2, <3>1, WrittenRelaying, Zenon
  <2>3. CASE pc'[h] = "release" /\ http'[h] \in {NoGroup, Upstream}
    <3>1. pc'[h] \in After /\ http'[h] \in {BadRequest, NoSlot, NoGroup, Upstream}
      BY <2>3, Zenon DEF After
    <3>2. QED
      BY <3>1, WrittenAfter, ErrorAnswers, Zenon
  <2>4. CASE pc'[h] = "release" /\ http'[h] = <<>> /\ pc[h] = "role"
    <3>1. pc'[h] \in After /\ Answered(h, http'[h], httpReply[h], read[h], content[h], tools[h])
      BY <1>0, <2>4, Zenon DEF After, Answered
    <3>2. QED
      BY <3>1, WrittenAfter, Zenon
  <2>5. QED
    BY <1>2, <2>1, <2>2, <2>3, <2>4, Zenon
<1>5. Accounted(pc'[h], slot'[h], http'[h], 0, 0, faults')
  <2>1. /\ pc'[h] \in Before \cup Relaying \cup {"release"} /\ pc'[h] # "new" /\ pc'[h] # "slot"
        /\ pc'[h] = "release" => http'[h] \in {<<>>, NoGroup, Upstream}
    BY <1>2, Zenon DEF Before, Relaying
  <2>2. pc'[h] = "release" => ~Refused(http'[h])
    BY <2>1, OnlyBadRequestRefuses, Zenon
  <2>3. QED
    BY <2>1, <2>2, AccountedOpen, Zenon
<1>6. QED
  BY <1>0, <1>1, <1>3, <1>4, <1>5, RequestOf, Zenon DEF SameReply

\* The loop takes a message, or notices that the context ended.
LEMMA RelayKeeps ==
  ASSUME ProxyTypes, NEW h \in Requests, Request(h), ConsumeReply(h) \/ ReplyCut(h)
  PROVE  Apart(h) /\ Request(h)'
<1> USE DEF inbound, context, releases
<1>0. /\ pc[h] = "relay" /\ http[h] = Opened(h, content[h]) /\ faults \in Nat
      /\ released[h] = 0 /\ defensive[h] = 0
      /\ httpReply[h] \in Seq(Messages) /\ read[h] \in Nat
      /\ content[h] \in Seq(Messages) /\ tools[h] \in Seq(Messages)
  BY Zenon DEF Request, Written, Accounted, Before, Relaying, ProxyTypes, ConsumeReply, ReplyCut
<1>1. UNCHANGED <<httpReply, slot, released, defensive, faults>>
  BY Zenon DEF ConsumeReply, ReplyCut
<1>2. ASSUME NEW l \in Relaying, Goto(h, l)
      PROVE  Accounted(pc'[h], slot'[h], http'[h], released'[h], defensive'[h], faults')
  <2>1. pc'[h] \in Before \cup Relaying \cup {"release"}
    BY <1>2, GoesTo, Zenon
  <2>2. pc'[h] # "new" /\ pc'[h] # "slot" /\ pc'[h] # "release"
    BY <1>2, GoesTo, Zenon DEF Relaying
  <2>3. Accounted(pc'[h], slot'[h], http'[h], 0, 0, faults')
    BY <2>1, <2>2, AccountedOpen, Zenon
  <2>4. QED
    BY <1>0, <1>1, <2>3, Zenon
<1>4. CASE ReplyCut(h)
  <2>1. UNCHANGED <<http, read, content, tools>> /\ Goto(h, "cut") /\ SameReply(h)
    BY <1>1, <1>4, Zenon DEF ReplyCut, SameReply
  <2>2. pc'[h] = "cut" /\ \A g \in Requests : g # h => pc'[g] = pc[g]
    BY <2>1, GoesTo, Zenon
  <2>3. Apart(h)
    BY <1>0, <1>1, <2>1, <2>2, ApartOf, Zenon
  <2>4. pc'[h] \in Relaying /\ pc'[h] # "respond" /\ "cut" \in Relaying
    BY <2>2, Zenon DEF Relaying
  <2>5. Written(h, pc'[h], http'[h], httpReply[h], read[h], content[h], tools[h])
    BY <1>0, <2>1, <2>4, WrittenRelaying, Zenon
  <2>6. Accounted(pc'[h], slot'[h], http'[h], released'[h], defensive'[h], faults')
    BY <1>2, <2>1, <2>4, Zenon
  <2>7. QED
    BY <2>1, <2>3, <2>5, <2>6, RequestOf, Zenon
<1>5. CASE ConsumeReply(h)
  <2>1. PICK msg : msg = httpReply[h][read[h] + 1]
    BY Zenon
  <2>a. /\ Goto(h, IF msg[1] = "done" THEN "respond" ELSE "relay")
        /\ IF msg[1] = "token" /\ h \in Streaming THEN Write(h, <<msg>>) ELSE http' = http
    BY <1>5, <2>1, Zenon DEF ConsumeReply
  <2>b. /\ read[h] < Len(httpReply[h]) /\ read'[h] = read[h] + 1
        /\ content'[h] = Taken(content[h], msg, "token")
        /\ tools'[h] = Taken(tools[h], msg, "tool")
        /\ \A g \in Requests : g # h => read'[g] = read[g] /\ content'[g] = content[g] /\ tools'[g] = tools[g]
    BY <1>5, <2>1, Zenon DEF ConsumeReply, ProxyTypes
  <2>c. /\ pc'[h] = (IF msg[1] = "done" THEN "respond" ELSE "relay")
        /\ \A g \in Requests : g # h => pc'[g] = pc[g]
    BY <2>a, GoesTo, Zenon
  <2>d. /\ IF msg[1] = "token" /\ h \in Streaming THEN http'[h] = http[h] \o <<msg>>
           ELSE http'[h] = http[h]
        /\ \A g \in Requests : g # h => http'[g] = http[g]
    BY <2>a, Writes, Zenon
  <2>e. Apart(h)
    <3>1. faults' \in Nat /\ faults' >= faults
      BY <1>0, <1>1
    <3>2. QED
      BY <1>1, <2>b, <2>c, <2>d, <3>1, Zenon DEF Apart
  <2>f. Accounted(pc'[h], slot'[h], http'[h], released'[h], defensive'[h], faults')
    <3>1. (IF msg[1] = "done" THEN "respond" ELSE "relay") \in Relaying
      BY Zenon DEF Relaying
    <3>2. QED
      BY <1>2, <2>a, <3>1, Zenon
  <2>2. /\ read[h] < Len(httpReply[h]) /\ read'[h] = read[h] + 1
        /\ content'[h] = Taken(content[h], msg, "token")
        /\ tools'[h] = Taken(tools[h], msg, "tool")
        /\ pc'[h] = IF msg[1] = "done" THEN "respond" ELSE "relay"
        /\ IF msg[1] = "token" /\ h \in Streaming THEN http'[h] = http[h] \o <<msg>>
           ELSE http'[h] = http[h]
    BY <2>b, <2>c, <2>d, Zenon
  <2>3. msg \in Messages /\ read[h] + 1 \in 1 .. Len(httpReply[h])
    BY <1>0, <2>1, <2>2
  <2>4. Collected(httpReply'[h], read'[h], content'[h], tools'[h])
    <3>1. /\ AllOf(content'[h], httpReply[h], read[h] + 1, "token")
          /\ AllOf(tools'[h], httpReply[h], read[h] + 1, "tool")
      <4>1. /\ AllOf(content[h], httpReply[h], read[h], "token")
            /\ AllOf(tools[h], httpReply[h], read[h], "tool") /\ Numbered(httpReply[h])
        BY Zenon DEF Request, Collected
      <4>2. QED
        BY <1>0, <2>1, <2>2, <4>1, OneMore, Zenon
    <3>2. QED
      BY <1>0, <1>1, <2>2, <3>1 DEF Collected
  <2>5. http'[h] = Opened(h, content'[h])
    <3>1. CASE msg[1] = "token" /\ h \in Streaming
      <4>1. /\ http'[h] = (<<<<"role", 0>>>> \o content[h]) \o <<msg>>
            /\ content'[h] = Append(content[h], msg)
        BY <1>0, <2>2, <3>1, Zenon DEF Opened, Taken
      <4>2. /\ <<<<"role", 0>>>> \in Seq(Events) /\ <<msg>> \in Seq(Events)
            /\ content[h] \in Seq(Events)
        BY <1>0, <2>3, EventTypes, MessagesAreEvents
      <4>3. Append(content[h], msg) = content[h] \o <<msg>>
        BY <1>0, <2>3, AppendIsConcat, Zenon
      <4>4. (<<<<"role", 0>>>> \o content[h]) \o <<msg>> = <<<<"role", 0>>>> \o (content[h] \o <<msg>>)
        BY <4>2, EventsAssociative, Zenon
      <4>5. QED
        BY <3>1, <4>1, <4>3, <4>4, Zenon DEF Opened
    <3>2. CASE ~(msg[1] = "token" /\ h \in Streaming)
      BY <1>0, <2>2, <3>2, Zenon DEF Opened, Taken
    <3>3. QED
      BY <3>1, <3>2, Zenon
  <2>6. pc'[h] = "respond" => ReadWhole(httpReply'[h], read'[h])
    <3>1. ASSUME msg[1] = "done" PROVE read[h] + 1 = Len(httpReply[h])
      BY <2>1, <2>3, <3>1, Zenon DEF Request, Numbered
    <3>2. QED
      BY <1>0, <1>1, <2>1, <2>2, <3>1 DEF ReadWhole
  <2>7. Written(h, pc'[h], http'[h], httpReply'[h], read'[h], content'[h], tools'[h])
    <3>1. pc'[h] \in Relaying
      BY <2>2, Zenon DEF Relaying
    <3>2. QED
      BY <2>5, <2>6, <3>1, WrittenRelaying, Zenon
  <2>8. Request(h)'
    BY <1>1, <2>f, <2>4, <2>7, Zenon DEF Request
  <2>9. QED
    BY <2>e, <2>8, Zenon
<1>6. QED
  BY <1>4, <1>5, Zenon

\* The answer is written, the slot given back, the request over.
LEMMA EndKeeps ==
  ASSUME ProxyTypes, NEW h \in Requests, Request(h), Respond(h) \/ Release(h) \/ Leave(h)
  PROVE  Apart(h) /\ Request(h)'
<1> USE DEF inbound, context, releases
<1>0. /\ faults \in Nat /\ slot[h] \in SlotStates /\ released[h] \in Nat /\ defensive[h] \in Nat
      /\ content[h] \in Seq(Messages) /\ tools[h] \in Seq(Messages)
  BY Zenon DEF ProxyTypes
<1>1. UNCHANGED <<httpReply, read, content, tools, defensive>> /\ SameReply(h)
  BY Zenon DEF Respond, Release, Leave, SameReply
<1>3. CASE Respond(h)
  <2>0. /\ pc[h] \in {"respond", "cut"} /\ UNCHANGED <<slot, released, faults>> /\ Goto(h, "release")
        /\ Write(h, IF h \in Streaming THEN StreamTail(h) ELSE AggregateAnswer(h))
    BY <1>3, Zenon DEF Respond
  <2>1. /\ pc[h] \in {"respond", "cut"} /\ pc'[h] = "release"
        /\ http'[h] = http[h] \o (IF h \in Streaming THEN StreamTail(h) ELSE AggregateAnswer(h))
        /\ \A g \in Requests : g # h => pc'[g] = pc[g] /\ http'[g] = http[g]
    BY <2>0, GoesTo, Writes, Zenon
  <2>a. Apart(h)
    BY <1>0, <1>1, <2>0, <2>1, ApartOf, Zenon
  <2>b. pc'[h] \in After
    BY <2>1, Zenon DEF After
  <2>2. http[h] = Opened(h, content[h]) /\ (pc[h] = "respond" => ReadWhole(httpReply[h], read[h]))
    BY <2>1, Zenon DEF Request, Written, Relaying
  <2>3. StreamTail(h) \in Seq(Events) /\ AggregateAnswer(h) \in Seq(Events)
    BY AnswerTypes, Zenon
  <2>4. ASSUME h \in Streaming
        PROVE  /\ Written(h, pc'[h], http'[h], httpReply[h], read[h], content[h], tools[h])
               /\ ~Refused(http'[h])
    <3>1. http'[h] = Opened(h, content[h]) \o <<Finish(tools[h]), <<"DONE", 0>>>>
      BY <2>1, <2>2, <2>4, Zenon DEF StreamTail
    <3>2. /\ <<<<"role", 0>>>> \in Seq(Events) /\ content[h] \in Seq(Events)
          /\ Len(<<Finish(tools[h]), <<"DONE", 0>>>>) = 2
          /\ <<Finish(tools[h]), <<"DONE", 0>>>> \in Seq(Events)
      <4>1. <<<<"role", 0>>>> \in Seq(Events) /\ content[h] \in Seq(Events)
        <5>1. <<"role", 0>> \in Events /\ content[h] \in Seq(Events)
          BY <1>0, EventTypes, MessagesAreEvents, Zenon
        <5>2. QED
          BY <5>1
      <4>2. <<Finish(tools[h]), <<"DONE", 0>>>> \in Seq(Events)
        BY <2>3, Zenon DEF StreamTail
      <4>3. Len(<<Finish(tools[h]), <<"DONE", 0>>>>) = 2
        BY Zenon
      <4>4. QED
        BY <4>1, <4>2, <4>3, Zenon
    <3>3. Len(http'[h]) >= 2
      <4>1. PICK tail \in Seq(Events) : tail = <<Finish(tools[h]), <<"DONE", 0>>>> /\ Len(tail) = 2
        BY <3>2, Zenon
      <4>2. PICK start \in Seq(Events) : start = Opened(h, content[h])
        <5>1. <<<<"role", 0>>>> \o content[h] \in Seq(Events)
          BY <3>2
        <5>2. QED
          BY <2>4, <5>1, Zenon DEF Opened
      <4>3. http'[h] = start \o tail
        BY <3>1, <4>1, <4>2, Zenon
      <4>4. QED
        BY <4>1, <4>3
    <3>4. ~Refused(http'[h])
      BY <3>3 DEF Refused
    <3>5. QED
      <4>1. Answered(h, http'[h], httpReply[h], read[h], content[h], tools[h])
        BY <2>4, <3>1, Zenon DEF Answered
      <4>2. QED
        BY <2>b, <3>4, <4>1, WrittenAfter, Zenon
  <2>5. ASSUME h \notin Streaming
        PROVE  /\ Written(h, pc'[h], http'[h], httpReply[h], read[h], content[h], tools[h])
               /\ ~Refused(http'[h])
    <3>1. http'[h] = AggregateAnswer(h)
      BY <2>1, <2>2, <2>3, <2>5, EmptyConcat, Zenon DEF Opened
    <3>2. CASE pc[h] = "cut"
      <4>1. http'[h] = Upstream
        BY <3>1, <3>2, Zenon DEF AggregateAnswer, Upstream
      <4>2. QED
        BY <2>b, <4>1, ErrorAnswers, OnlyBadRequestRefuses, WrittenAfter, Zenon
    <3>3. CASE pc[h] = "respond"
      <4>1. http'[h] = content[h] \o <<Finish(tools[h])>>
        <5>1. pc[h] # "cut"
          BY <3>3, Zenon
        <5>2. QED
          BY <3>1, <5>1, Zenon DEF AggregateAnswer
      <4>2. content[h] \in Seq(Events) /\ Finish(tools[h]) \in Events /\ Len(content[h]) \in Nat
        <5>1. content[h] \in Seq(Events) /\ Finish(tools[h]) \in Events
          BY <1>0, EventTypes, MessagesAreEvents, Zenon
        <5>2. QED
          BY <1>0, <5>1
      <4>3. /\ Len(http'[h]) = Len(content[h]) + 1
            /\ http'[h][Len(content[h]) + 1] = Finish(tools[h])
        BY <4>1, <4>2
      <4>4. Finish(tools[h])[1] # "error"
        BY Zenon DEF Finish
      <4>5. ~Refused(http'[h])
        BY <4>2, <4>3, <4>4 DEF Refused
      <4>6. QED
        <5>1. Answered(h, http'[h], httpReply[h], read[h], content[h], tools[h])
          BY <2>2, <2>5, <3>3, <4>1, Zenon DEF Answered
        <5>2. QED
          BY <2>b, <4>5, <5>1, WrittenAfter, Zenon
    <3>4. QED
      BY <2>1, <3>2, <3>3, Zenon
  <2>6. Accounted(pc'[h], slot'[h], http'[h], released'[h], defensive'[h], faults')
    <3>1. released[h] = 0 /\ defensive[h] = 0
      BY <2>1, Zenon DEF Request, Accounted, Relaying
    <3>2. /\ pc'[h] \in Before \cup Relaying \cup {"release"} /\ pc'[h] # "new" /\ pc'[h] # "slot"
          /\ ~Refused(http'[h])
      BY <2>1, <2>4, <2>5, Zenon
    <3>3. Accounted(pc'[h], slot'[h], http'[h], 0, 0, faults')
      BY <3>2, AccountedOpen, Zenon
    <3>4. QED
      BY <1>1, <2>0, <3>1, <3>3, Zenon
  <2>7. QED
    BY <1>1, <2>a, <2>4, <2>5, <2>6, RequestOf, Zenon
<1>a. Answered(h, http[h], httpReply[h], read[h], content[h], tools[h])
      => Written(h, "leave", http[h], httpReply[h], read[h], content[h], tools[h])
         /\ Written(h, "end", http[h], httpReply[h], read[h], content[h], tools[h])
  <2>1. "leave" \in After /\ "end" \in After
    BY Zenon DEF After
  <2>2. QED
    BY <2>1, WrittenAfter, Zenon
<1>4. CASE Release(h)
  <2>1. /\ pc[h] = "release" /\ Goto(h, "leave") /\ http' = http
        /\ \/ faults' = faults /\ released' = [released EXCEPT ![h] = @ + 1] /\ slot' = [slot EXCEPT ![h] = "freed"]
           \/ faults' = faults + 1 /\ released' = released /\ slot' = slot
    BY <1>4, Zenon DEF Release, ReleasePath, Fault
  <2>2. /\ pc'[h] = "leave" /\ \A g \in Requests : g # h => pc'[g] = pc[g]
    BY <2>1, GoesTo, Zenon
  <2>3. /\ \A g \in Requests : g # h => slot'[g] = slot[g] /\ released'[g] = released[g]
        /\ \/ faults' = faults /\ released'[h] = released[h] + 1 /\ slot'[h] = "freed"
           \/ faults' = faults + 1 /\ released'[h] = released[h]
    BY <2>1, Zenon DEF ProxyTypes
  <2>4. Apart(h)
    <3>1. faults' \in Nat /\ faults' >= faults
      BY <1>0, <2>3
    <3>2. QED
      BY <1>1, <2>1, <2>2, <2>3, <3>1, Zenon DEF Apart
  <2>5. Answered(h, http[h], httpReply[h], read[h], content[h], tools[h])
    BY <2>1, Zenon DEF Request, Written, After
  <2>6. released[h] = 0 /\ defensive'[h] = 0 /\ ~Refused(http'[h])
    BY <1>1, <2>1, Zenon DEF Request, Accounted
  <2>7. Accounted(pc'[h], slot'[h], http'[h], released'[h], defensive'[h], faults')
    <3>1. pc'[h] \in {"leave", "end"}
      BY <2>2, Zenon
    <3>2. CASE faults' = faults /\ released'[h] = released[h] + 1 /\ slot'[h] = "freed"
      BY <2>6, <3>1, <3>2, AccountedOver
    <3>3. CASE faults' = faults + 1 /\ released'[h] = released[h]
      BY <1>0, <2>6, <3>1, <3>3, AccountedOver
    <3>4. QED
      BY <2>3, <3>2, <3>3, Zenon
  <2>8. QED
    BY <1>1, <1>a, <2>1, <2>2, <2>4, <2>5, <2>7, RequestOf, Zenon
<1>5. CASE Leave(h)
  <2>1. pc[h] = "leave" /\ Goto(h, "end") /\ UNCHANGED <<slot, http, released, faults>>
    BY <1>5, Zenon DEF Leave
  <2>2. /\ pc'[h] = "end" /\ \A g \in Requests : g # h => pc'[g] = pc[g]
    BY <2>1, GoesTo, Zenon
  <2>3. Apart(h)
    BY <1>0, <1>1, <2>1, <2>2, ApartOf, Zenon
  <2>4. Answered(h, http[h], httpReply[h], read[h], content[h], tools[h])
    BY <2>1, Zenon DEF Request, Written, After
  <2>5. Accounted("leave", slot[h], http[h], released[h], defensive[h], faults)
    BY <2>1, Zenon DEF Request
  <2>6. Accounted("end", slot[h], http[h], released[h], defensive[h], faults)
    BY <2>5, Zenon DEF Accounted, Before, Relaying
  <2>7. QED
    BY <1>1, <1>a, <2>1, <2>2, <2>3, <2>4, <2>6, RequestOf, Zenon
<1>6. QED
  BY <1>3, <1>4, <1>5, Zenon

\* Every step keeps what holds of each request.
LEMMA RequestsStep ==
  ASSUME ProxyTypes, \A h \in Requests : Request(h), [ProxyNext]_(proxyVars)
  PROVE  \A h \in Requests : Request(h)'
<1>1. ASSUME NEW h \in Requests, Apart(h), Request(h)' PROVE \A g \in Requests : Request(g)'
  BY <1>1, ApartKeeps, Zenon
<1>2. ASSUME NEW h \in Requests, Handler(h) PROVE Apart(h) /\ Request(h)'
  BY <1>2, AcquireKeeps, DispatchKeeps, RelayKeeps, EndKeeps, Zenon DEF Handler
<1>3. CASE UNCHANGED proxyVars
  BY <1>3, Zenon DEF proxyVars, inbound, releases, Request
<1>4. QED
  BY <1>1, <1>2, <1>3, OutsideKeeps, Zenon DEF ProxyNext

\* A request that ended was answered as its client expects.
LEMMA AnswersAreWhole ==
  ASSUME LLMProxyAssumption, ProxyInv
  PROVE  BodyIsWhole /\ StreamShape
<1>0. ASSUME NEW h \in Requests, pc[h] = "end"
      PROVE  /\ Answered(h, http[h], httpReply[h], read[h], content[h], tools[h])
             /\ AllOf(content[h], httpReply[h], read[h], "token")
             /\ AllOf(tools[h], httpReply[h], read[h], "tool")
             /\ content[h] \in Seq(Messages) /\ tools[h] \in Seq(Messages)
             /\ content[h] \in Seq(Events) /\ Finish(tools[h]) \in Events /\ Len(content[h]) \in Nat
  <2>1. content[h] \in Seq(Messages) /\ tools[h] \in Seq(Messages)
    BY Zenon DEF ProxyInv, ProxyTypes
  <2>2. content[h] \in Seq(Events) /\ Finish(tools[h]) \in Events /\ Len(content[h]) \in Nat
    BY <2>1, EventTypes, MessagesAreEvents
  <2>3. QED
    BY <1>0, <2>1, <2>2, Zenon DEF ProxyInv, Request, Written, Collected, After
<1>1. BodyIsWhole
  <2> SUFFICES ASSUME NEW h \in Requests \ Streaming, pc[h] = "end", http[h][1][1] # "error"
               PROVE  LET n == Len(http[h])
                          all == httpReply[h]
                      IN  /\ all # <<>> /\ all[Len(all)][1] = "done"
                          /\ AllOf(SubSeq(http[h], 1, n - 1), all, Len(all), "token")
                          /\ AllOf(http[h][n][2], all, Len(all), "tool")
                          /\ http[h][n] = Finish(http[h][n][2])
    BY Zenon DEF BodyIsWhole
  <2>1. ReadWhole(httpReply[h], read[h]) /\ http[h] = content[h] \o <<Finish(tools[h])>>
    <3>1. ~ErrorBody(http[h])
      BY DEF ErrorBody
    <3>2. QED
      <4>1. Answered(h, http[h], httpReply[h], read[h], content[h], tools[h]) /\ h \notin Streaming
        BY <1>0, Zenon
      <4>2. QED
        BY <3>1, <4>1, Zenon DEF Answered
  <2>2. /\ Len(http[h]) = Len(content[h]) + 1 /\ http[h][Len(content[h]) + 1] = Finish(tools[h])
        /\ \A i \in 1 .. Len(content[h]) : http[h][i] = content[h][i]
        /\ http[h] \in Seq(Events)
    BY <1>0, <2>1
  <2>3. Finish(tools[h])[2] = tools[h]
    BY Zenon DEF Finish
  <2>4. SubSeq(http[h], 1, Len(content[h])) = content[h]
    <3> DEFINE body == SubSeq(http[h], 1, Len(content[h]))
    <3>1. body \in Seq(Events) /\ Len(body) = Len(content[h]) /\ \A i \in 1 .. Len(body) : body[i] = content[h][i]
      BY <1>0, <2>2
    <3>2. QED
      BY <1>0, <3>1, SameSeq, Zenon
  <2>5. AllOf(SubSeq(http[h], 1, Len(content[h])), httpReply[h], read[h], "token")
    BY <1>0, <2>4, Zenon
  <2>6. Len(http[h]) - 1 = Len(content[h])
    BY <1>0, <2>2
  <2>7. QED
    BY <1>0, <2>1, <2>2, <2>3, <2>5, <2>6 DEF ReadWhole
<1>2. StreamShape
  <2> SUFFICES ASSUME NEW h \in Requests, h \in Streaming, pc[h] = "end", Len(http[h]) > 0, http[h][1][1] = "role"
               PROVE  LET out == http[h]
                          n == Len(out)
                      IN  /\ n >= 3 /\ out[n][1] = "DONE"
                          /\ out[n - 1] = Finish(out[n - 1][2])
                          /\ AllOf(SubSeq(out, 2, n - 2), httpReply[h], read[h], "token")
                          /\ AllOf(out[n - 1][2], httpReply[h], read[h], "tool")
    BY Zenon DEF StreamShape, LLMProxyAssumption
  <2> DEFINE out == http[h]
             first == <<<<"role", 0>>>> \o content[h]
             last == <<Finish(tools[h]), <<"DONE", 0>>>>
             k == Len(content[h])
  <2>1. out = first \o last
    <3>1. ~ErrorBody(out)
      BY DEF ErrorBody
    <3>2. out # <<>>
      OBVIOUS
    <3>3. Answered(h, out, httpReply[h], read[h], content[h], tools[h]) /\ first = Opened(h, content[h])
      BY <1>0, Zenon DEF Opened
    <3> HIDE DEF first, last
    <3>4. out = Opened(h, content[h]) \o last
      <4> USE DEF last
      <4>1. QED
        BY <3>1, <3>2, <3>3, Zenon DEF Answered
    <3>5. QED
      BY <3>3, <3>4, Zenon
  <2>2. /\ first \in Seq(Events) /\ Len(first) = k + 1
        /\ \A i \in 1 .. k : first[i + 1] = content[h][i]
    BY <1>0, EventTypes
  <2>3. last \in Seq(Events) /\ Len(last) = 2 /\ last[1] = Finish(tools[h]) /\ last[2] = <<"DONE", 0>>
    BY <1>0, EventTypes
  <2>4. /\ out \in Seq(Events) /\ Len(out) = k + 3
        /\ out[k + 2] = Finish(tools[h]) /\ out[k + 3] = <<"DONE", 0>>
        /\ \A i \in 1 .. k : out[i + 1] = content[h][i]
    <3> HIDE DEF first, last
    <3>0. /\ out \in Seq(Events) /\ Len(out) = Len(first) + Len(last)
          /\ \A i \in 1 .. Len(first) : out[i] = first[i]
          /\ \A i \in Len(first) + 1 .. Len(first) + Len(last) : out[i] = last[i - Len(first)]
      <4>1. first \in Seq(Events) /\ last \in Seq(Events)
        BY <2>2, <2>3, Zenon
      <4>2. first \o last \in Seq(Events) /\ Len(first \o last) = Len(first) + Len(last)
        BY <4>1
      <4>3. \A i \in 1 .. Len(first) : (first \o last)[i] = first[i]
        BY <4>1
      <4>4. \A i \in Len(first) + 1 .. Len(first) + Len(last) : (first \o last)[i] = last[i - Len(first)]
        BY <4>1
      <4>5. QED
        BY <2>1, <4>2, <4>3, <4>4, Zenon
    <3>1. Len(out) = k + 3
      BY <1>0, <2>2, <2>3, <3>0
    <3>2. out[k + 2] = last[1] /\ out[k + 3] = last[2]
      <4>1. k + 2 \in Len(first) + 1 .. Len(first) + Len(last) /\ k + 3 \in Len(first) + 1 .. Len(first) + Len(last)
        BY <1>0, <2>2, <2>3
      <4>2. (k + 2) - Len(first) = 1 /\ (k + 3) - Len(first) = 2
        BY <1>0, <2>2
      <4>3. out[k + 2] = last[(k + 2) - Len(first)] /\ out[k + 3] = last[(k + 3) - Len(first)]
        BY <3>0, <4>1, Zenon
      <4>4. QED
        BY <4>2, <4>3, Zenon
    <3>3. \A i \in 1 .. k : out[i + 1] = first[i + 1]
      BY <1>0, <2>2, <3>0
    <3>4. QED
      BY <2>2, <2>3, <3>0, <3>1, <3>2, <3>3, Zenon
  <2>5. Finish(tools[h])[2] = tools[h]
    BY Zenon DEF Finish
  <2>6. SubSeq(out, 2, k + 1) = content[h]
    <3> DEFINE body == SubSeq(out, 2, k + 1)
    <3>1. body \in Seq(Events) /\ Len(body) = k /\ \A i \in 1 .. k : body[i] = out[i + 1]
      BY <1>0, <2>4
    <3>2. QED
      BY <1>0, <2>4, <3>1, SameSeq
  <2>7. Len(out) - 1 = k + 2 /\ Len(out) - 2 = k + 1 /\ Len(out) >= 3
    BY <1>0, <2>4
  <2>8. out[Len(out)][1] = "DONE" /\ out[Len(out) - 1] = Finish(tools[h])
    BY <2>4, <2>7
  <2>9. AllOf(SubSeq(out, 2, Len(out) - 2), httpReply[h], read[h], "token")
    BY <1>0, <2>6, <2>7, Zenon
  <2>10. out[Len(out) - 1][2] = tools[h]
    BY <2>5, <2>8, Zenon
  <2>11. QED
    BY <1>0, <2>7, <2>8, <2>9, <2>10, Zenon
<1>3. QED
  BY <1>1, <1>2, Zenon

-----------------------------------------------------------------------------
(* The client of one server *)

CallLabels == {"idle", "mu", "done"} \cup Inside
CallRecord == [pc : CallLabels, id : Nat, expired : BOOLEAN, result : Results,
           got : Nat]

ClientTypes ==
    /\ call \in [Calls -> CallRecord] /\ nextID \in Nat

\* An invocation past LockCall holds callMu.
Held == \A c \in Calls : call[c].pc \in Inside => callMu = c

\* Ids are at most the counter and belong to one invocation; what was received
\* was received under the invocation's id, which it has from StoreCall on.
Ids ==
    /\ \A c \in Calls : call[c].id <= nextID
    /\ \A c, d \in Calls : call[c].id = call[d].id /\ call[c].id > 0 => c = d
    /\ \A c \in Calls : call[c].pc \in {"write", "wait"} => call[c].id > 0
    /\ \A c \in Calls : call[c].pc \in {"idle", "mu", "store"} => call[c].result # "reply"
    /\ \A c \in Calls : call[c].result = "reply" =>
         call[c].got = call[c].id /\ call[c].id > 0 /\ call[c].pc = "done"

\* Where an id may be: nowhere before it is taken, and in pending or in its
\* channel, never in both.
Places ==
    /\ server \in {"up", "stalled", "exited"} /\ loop \in {"reading", "closing", "ended"}
    /\ callMu \in Calls \cup {NoCall}
    /\ inbox \subseteq 1 .. nextID /\ outbox \in Seq(1 .. nextID)
    /\ pending \subseteq 1 .. nextID /\ chan \subseteq 1 .. nextID
    /\ pending \cap chan = {}

\* An id has been taken for each invocation past StoreCall, and for no other.
WithID == {c \in Calls : call[c].id > 0}
IDsCounted ==
    /\ nextID = Cardinality(WithID)
    /\ \A c \in Calls : call[c].pc \in {"idle", "mu", "store"} => call[c].id = 0

ClientInv == ClientTypes /\ Held /\ Ids /\ Places /\ IDsCounted

\* Setting one field of one invocation keeps its shape.
LEMMA SetPc ==
  ASSUME NEW f \in [Calls -> CallRecord], NEW c \in Calls, NEW p \in CallLabels
  PROVE  [f EXCEPT ![c].pc = p] \in [Calls -> CallRecord]
  BY Zenon DEF CallRecord

\* The same for its result.
LEMMA SetResult ==
  ASSUME NEW f \in [Calls -> CallRecord], NEW c \in Calls, NEW r \in Results
  PROVE  [f EXCEPT ![c].result = r] \in [Calls -> CallRecord]
  BY Zenon DEF CallRecord

\* The same for the response it got.
LEMMA SetGot ==
  ASSUME NEW f \in [Calls -> CallRecord], NEW c \in Calls, NEW n \in Nat
  PROVE  [f EXCEPT ![c].got = n] \in [Calls -> CallRecord]
  BY Zenon DEF CallRecord

\* What a return writes.
LEMMA MovesOn ==
  ASSUME NEW f \in [Calls -> CallRecord], NEW c \in Calls, NEW p \in CallLabels, NEW r \in Results
  PROVE  [f EXCEPT ![c].pc = p, ![c].result = r] \in [Calls -> CallRecord]
<1>1. [f EXCEPT ![c].pc = p] \in [Calls -> CallRecord]
  BY SetPc, Zenon
<1>2. [[f EXCEPT ![c].pc = p] EXCEPT ![c].result = r] \in [Calls -> CallRecord]
  BY <1>1, SetResult, Zenon
<1>3. QED
  BY <1>2, Zenon

\* What AwaitReply writes.
LEMMA Receives ==
  ASSUME NEW f \in [Calls -> CallRecord], NEW c \in Calls, NEW p \in CallLabels, NEW r \in Results,
         NEW n \in Nat
  PROVE  [f EXCEPT ![c].pc = p, ![c].result = r, ![c].got = n] \in [Calls -> CallRecord]
<1>1. [f EXCEPT ![c].pc = p, ![c].result = r] \in [Calls -> CallRecord]
  BY MovesOn, Zenon
<1>2. [[f EXCEPT ![c].pc = p, ![c].result = r] EXCEPT ![c].got = n] \in [Calls -> CallRecord]
  BY <1>1, SetGot, Zenon
<1>3. QED
  BY <1>2, Zenon

\* Every step keeps the shapes of the variables.
LEMMA ClientTypesStep == ClientTypes /\ [Next]_vars => ClientTypes'
<1> SUFFICES ASSUME ClientTypes, [Next]_vars PROVE ClientTypes'
  BY Zenon
<1>b. {"closed", "badargs", "timeout", "writeerr", "reply", "none", "disconnected"}
        \subseteq Results
  BY Zenon DEF Results
<1>c. {"store", "write", "wait", "done", "mu"} \subseteq CallLabels
  BY Zenon DEF CallLabels, Inside
<1>a. ASSUME NEW r \in Results, NEW c \in Calls, Return(c, r)
      PROVE  call' \in [Calls -> CallRecord]
  BY <1>a, <1>c, MovesOn, Zenon DEF ClientTypes, Return
<1>1. ASSUME NEW c \in Calls, Invoke(c) PROVE ClientTypes'
  <2>1. PICK p \in CallLabels, r \in Results :
          call' = [call EXCEPT ![c].pc = p, ![c].result = r]
    <3>1. CASE closed
      BY <1>1, <1>b, <1>c, <3>1, Zenon DEF Invoke
    <3>2. CASE ~closed
      BY <1>1, <1>b, <1>c, <3>2, Zenon DEF Invoke
    <3>3. QED
      BY <3>1, <3>2, Zenon
  <2>2. call' \in [Calls -> CallRecord]
    BY <2>1, MovesOn, Zenon DEF ClientTypes
  <2>3. QED
    BY <1>1, <2>2, Zenon DEF ClientTypes, Invoke
<1>2. ASSUME NEW c \in Calls, LockCall(c) PROVE ClientTypes'
  BY <1>2, <1>a, <1>b, <1>c, SetPc DEF LockCall, ClientTypes
<1>3. ASSUME NEW c \in Calls, StoreCall(c) PROVE ClientTypes'
  <2>1. CASE closed
    BY <1>3, <1>a, <1>b, <2>1, Zenon DEF StoreCall, ClientTypes
  <2>2. CASE ~closed
    BY <1>3, <1>c, <2>2 DEF StoreCall, FreshID, ClientTypes, CallRecord
  <2>3. QED
    BY <2>1, <2>2, Zenon
<1>4. ASSUME NEW c \in Calls, WriteRequest(c) PROVE ClientTypes'
  BY <1>4, <1>a, <1>b, <1>c, SetPc DEF WriteRequest, ClientTypes
<1>5. ASSUME NEW c \in Calls, AwaitReply(c) PROVE ClientTypes'
  <2>1. call[c].id \in Nat
    BY Zenon DEF ClientTypes, CallRecord
  <2>2. call' \in [Calls -> CallRecord]
    BY <1>5, <1>b, <1>c, <2>1, Receives, Zenon DEF AwaitReply, ClientTypes
  <2>3. QED
    BY <1>5, <2>2, Zenon DEF AwaitReply, ClientTypes
<1>6. ASSUME NEW c \in Calls, AwaitTimeout(c) PROVE ClientTypes'
  BY <1>6, <1>a, <1>b, Zenon DEF AwaitTimeout, ClientTypes
<1>7. ASSUME NEW c \in Calls, AwaitDone(c) PROVE ClientTypes'
  BY <1>7, <1>a, <1>b, Zenon DEF AwaitDone, ClientTypes
<1>8. ASSUME NEW c \in Calls, Deadline(c) PROVE ClientTypes'
  BY <1>8, Zenon DEF Deadline, ClientTypes, CallRecord
<1>9. CASE UNCHANGED <<call, nextID>>
  BY <1>9, Zenon DEF ClientTypes
<1>10. QED
  BY <1>1, <1>2, <1>3, <1>4, <1>5, <1>6, <1>7, <1>8, <1>9, Zenon
     DEF Next, Serve, ReadResponse, LoopEnds, LoopDone, ServerReplies, Exit, Stall, vars

\* Every step keeps callMu with the invocation that holds it.
LEMMA HeldStep == ClientTypes /\ Held /\ [Next]_vars => Held'
<1> SUFFICES ASSUME ClientTypes, Held, [Next]_vars PROVE Held'
  BY Zenon
<1> USE MCPClientAssumption DEF ClientTypes, CallRecord, Held, Inside
<1>1. ASSUME NEW c \in Calls, Invoke(c) PROVE Held'
  BY <1>1, Zenon DEF Invoke
<1>2. ASSUME NEW c \in Calls, LockCall(c) PROVE Held'
  BY <1>2 DEF LockCall, MuFree, Return
<1>3. ASSUME NEW c \in Calls, StoreCall(c) PROVE Held'
  BY <1>3 DEF StoreCall, Return
<1>4. ASSUME NEW c \in Calls, WriteRequest(c) PROVE Held'
  BY <1>4 DEF WriteRequest, Return
<1>5. ASSUME NEW c \in Calls, AwaitReply(c) PROVE Held'
  BY <1>5 DEF AwaitReply
<1>6. ASSUME NEW c \in Calls, AwaitTimeout(c) PROVE Held'
  BY <1>6, Zenon DEF AwaitTimeout, Return
<1>7. ASSUME NEW c \in Calls, AwaitDone(c) PROVE Held'
  BY <1>7, Zenon DEF AwaitDone, Return
<1>8. ASSUME NEW c \in Calls, Deadline(c) PROVE Held'
  BY <1>8, Zenon DEF Deadline
<1>9. CASE UNCHANGED <<call, callMu>>
  BY <1>9, Zenon
<1>10. QED
  BY <1>1, <1>2, <1>3, <1>4, <1>5, <1>6, <1>7, <1>8, <1>9, Zenon
     DEF Next, Serve, ReadResponse, LoopEnds, LoopDone, ServerReplies, Exit, Stall, vars

\* Every step keeps ids apart and responses with their invocation.
LEMMA IdsStep == ClientTypes /\ Ids /\ [Next]_vars => Ids'
<1> SUFFICES ASSUME ClientTypes, Ids, [Next]_vars PROVE Ids'
  BY Zenon
<1> USE DEF ClientTypes, CallRecord, Ids
<1>1. ASSUME NEW c \in Calls, Invoke(c) PROVE Ids'
  BY <1>1 DEF Invoke
<1>2. ASSUME NEW c \in Calls, LockCall(c) PROVE Ids'
  <2>1. CASE Return(c, "closed") \/ Return(c, "badargs")
    BY <1>2, <2>1, SMTT(30) DEF LockCall, Return
  <2>2. CASE call' = [call EXCEPT ![c].pc = "store"]
    BY <1>2, <2>2 DEF LockCall
  <2>3. QED
    BY <1>2, <2>1, <2>2, Zenon DEF LockCall
<1>3. ASSUME NEW c \in Calls, StoreCall(c) PROVE Ids'
  <2>1. CASE closed
    BY <1>3, <2>1 DEF StoreCall, Return
  <2>2. CASE ~closed
    BY <1>3, <2>2 DEF StoreCall, FreshID
  <2>3. QED
    BY <2>1, <2>2, Zenon
<1>4. ASSUME NEW c \in Calls, WriteRequest(c) PROVE Ids'
  BY <1>4 DEF WriteRequest, Return
<1>5. ASSUME NEW c \in Calls, AwaitReply(c) PROVE Ids'
  BY <1>5 DEF AwaitReply
<1>6. ASSUME NEW c \in Calls, AwaitTimeout(c) PROVE Ids'
  BY <1>6 DEF AwaitTimeout, Return
<1>7. ASSUME NEW c \in Calls, AwaitDone(c) PROVE Ids'
  BY <1>7 DEF AwaitDone, Return
<1>8. ASSUME NEW c \in Calls, Deadline(c) PROVE Ids'
  BY <1>8 DEF Deadline
<1>9. CASE UNCHANGED <<call, nextID>>
  BY <1>9, Zenon
<1>10. QED
  BY <1>1, <1>2, <1>3, <1>4, <1>5, <1>6, <1>7, <1>8, <1>9, Zenon
     DEF Next, Serve, ReadResponse, LoopEnds, LoopDone, ServerReplies, Exit, Stall, vars

\* An id is taken once, and then waits in one place.
LEMMA PlacesStep == ClientTypes /\ Ids /\ Places /\ [Next]_vars => Places'
<1> SUFFICES ASSUME ClientTypes, Ids, Places, [Next]_vars PROVE Places'
  BY Zenon
<1>1. ASSUME NEW c \in Calls, Invoke(c) PROVE Places'
  BY <1>1, Zenon DEF Invoke, Places, serverVars, loopVars
<1>2. ASSUME NEW c \in Calls, LockCall(c) PROVE Places'
  BY <1>2, Zenon DEF LockCall, Return, Places, serverVars, loopVars
<1>3. ASSUME NEW c \in Calls, StoreCall(c) PROVE Places'
  <2>1. CASE closed
    BY <1>3, <2>1, Zenon DEF StoreCall, Return, Places, serverVars, loopVars
  <2>2. CASE ~closed
    <3>1. nextID \in Nat /\ nextID' = nextID + 1 /\ 1 .. nextID \subseteq 1 .. nextID'
      BY <1>3, <2>2 DEF StoreCall, FreshID, ClientTypes
    <3>2. outbox' \in Seq(1 .. nextID')
      <4>1. outbox' = outbox /\ outbox \in Seq(1 .. nextID)
        BY <1>3, Zenon DEF StoreCall, Places, serverVars
      <4>2. QED
        BY <3>1, <4>1
    <3>3. QED
      BY <1>3, <2>2, <3>1, <3>2 DEF StoreCall, FreshID, Places, serverVars, loopVars
  <2>3. QED
    BY <2>1, <2>2, Zenon
<1>4. ASSUME NEW c \in Calls, WriteRequest(c) PROVE Places'
  <2>1. call[c].id \in 1 .. nextID
    BY <1>4 DEF WriteRequest, ClientTypes, CallRecord, Ids
  <2>2. QED
    BY <1>4, <2>1, Zenon DEF WriteRequest, Return, Places, loopVars
<1>5. ASSUME NEW c \in Calls, AwaitReply(c) PROVE Places'
  BY <1>5, Zenon DEF AwaitReply, Places, serverVars, loopVars
<1>6. ASSUME NEW c \in Calls, AwaitTimeout(c) PROVE Places'
  BY <1>6, Zenon DEF AwaitTimeout, Return, Places, serverVars, loopVars
<1>7. ASSUME NEW c \in Calls, AwaitDone(c) PROVE Places'
  BY <1>7, Zenon DEF AwaitDone, Return, Places, serverVars, loopVars
<1>8. ASSUME NEW c \in Calls, Deadline(c) PROVE Places'
  BY <1>8, Zenon DEF Deadline, Places, serverVars, loopVars
<1>9. CASE ReadResponse
  <2>1. Tail(outbox) \in Seq(1 .. nextID)
    BY <1>9 DEF ReadResponse, Places
  <2>2. QED
    BY <1>9, <2>1, Zenon DEF ReadResponse, Unclaimed, Places, loopVars
<1>10. CASE LoopEnds \/ LoopDone \/ Exit \/ Stall
  BY <1>10, Zenon DEF LoopEnds, LoopDone, Exit, Stall, Places, serverVars, loopVars
<1>11. ASSUME NEW id \in IDs, ServerReplies(id) PROVE Places'
  <2>1. id \in 1 .. nextID /\ Append(outbox, id) \in Seq(1 .. nextID)
    BY <1>11 DEF ServerReplies, Places
  <2>2. QED
    BY <1>11, <2>1, Zenon DEF ServerReplies, Places, loopVars
<1>12. CASE UNCHANGED vars
  BY <1>12, Zenon DEF vars, Places
<1>13. QED
  BY <1>1, <1>2, <1>3, <1>4, <1>5, <1>6, <1>7, <1>8, <1>9, <1>10, <1>11, <1>12, Zenon
     DEF Next, Serve

-----------------------------------------------------------------------------
(* Counting *)

FS == INSTANCE FiniteSetTheorems

\* The library counts as FiniteSets does.
LEMMA SameCount ==
  ASSUME NEW S PROVE FS!Cardinality(S) = Cardinality(S) /\ FS!IsFiniteSet(S) = IsFiniteSet(S)
<1>1. FS!Cardinality(S) = Cardinality(S)
  BY Zenon DEF FS!Cardinality, Cardinality
<1>2. FS!IsFiniteSet(S) = IsFiniteSet(S)
  BY Zenon DEF FS!IsFiniteSet, IsFiniteSet
<1>3. QED
  BY <1>1, <1>2, Zenon

LEMMA CountEmpty == IsFiniteSet({}) /\ Cardinality({}) = 0
  BY FS!FS_EmptySet, SameCount, Zenon

LEMMA CountType ==
  ASSUME NEW S, IsFiniteSet(S) PROVE Cardinality(S) \in Nat
  BY FS!FS_CardinalityType, SameCount, Zenon

LEMMA CountAdd ==
  ASSUME NEW S, IsFiniteSet(S), NEW x
  PROVE  /\ IsFiniteSet(S \cup {x})
         /\ Cardinality(S \cup {x}) = IF x \in S THEN Cardinality(S) ELSE Cardinality(S) + 1
  BY FS!FS_AddElement, SameCount, Zenon

LEMMA CountRemove ==
  ASSUME NEW S, IsFiniteSet(S), NEW x
  PROVE  /\ IsFiniteSet(S \ {x})
         /\ Cardinality(S \ {x}) = IF x \in S THEN Cardinality(S) - 1 ELSE Cardinality(S)
  BY FS!FS_RemoveElement, SameCount, Zenon

LEMMA CountSubset ==
  ASSUME NEW S, IsFiniteSet(S), NEW T \in SUBSET S
  PROVE  IsFiniteSet(T) /\ Cardinality(T) <= Cardinality(S)
  BY FS!FS_Subset, SameCount, Zenon

LEMMA CountInterval ==
  ASSUME NEW n \in Nat PROVE IsFiniteSet(1 .. n)
<1>1. 1 \in Int /\ n \in Int
  OBVIOUS
<1>2. QED
  BY <1>1, FS!FS_Interval, SameCount, Zenon

LEMMA CountSame ==
  ASSUME NEW S, IsFiniteSet(S), NEW T, NEW f \in [S -> T],
         \A x, y \in S : f[x] = f[y] => x = y, \A y \in T : \E x \in S : f[x] = y
  PROVE  IsFiniteSet(T) /\ Cardinality(T) = Cardinality(S)
<1>1. f \in FS!Bijection(S, T)
  BY Zenon DEF FS!Bijection, FS!Injection, FS!IsInjective, FS!Surjection
<1>2. FS!ExistsBijection(S, T)
  BY <1>1, Zenon DEF FS!ExistsBijection
<1>3. QED
  BY <1>2, FS!FS_Bijection, SameCount, Zenon

-----------------------------------------------------------------------------
(* The requests in progress, and what a request to llm-proxy keeps *)

\* outstanding counts the requests between their arrival and their end.
LEMMA OpenStep ==
  ASSUME ProxyTypes, IsFiniteSet(Open), outstanding = Cardinality(Open), [ProxyNext]_(proxyVars)
  PROVE  IsFiniteSet(Open') /\ outstanding' = Cardinality(Open')
<1> USE DEF inbound, context, releases, Goto
<1>1. ASSUME outstanding' = outstanding,
             \A h \in Requests : pc'[h] \in {"new", "end"} <=> pc[h] \in {"new", "end"}
      PROVE  IsFiniteSet(Open') /\ outstanding' = Cardinality(Open')
  <2>1. Open' = Open
    BY <1>1, Zenon DEF Open
  <2>2. QED
    BY <1>1, <2>1, Zenon
<1>2. ASSUME NEW h \in Requests, Receive(h)
      PROVE  IsFiniteSet(Open') /\ outstanding' = Cardinality(Open')
  <2>1. pc[h] = "new" /\ pc'[h] \in {"slot", "leave"} /\ \A g \in Requests : g # h => pc'[g] = pc[g]
    BY <1>2, Zenon DEF Receive, ProxyTypes
  <2>2. h \notin Open /\ Open' = Open \cup {h}
    BY <2>1, Zenon DEF Open
  <2>3. outstanding' = outstanding + 1
    BY <1>2, Zenon DEF Receive
  <2>4. QED
    BY <2>2, <2>3, CountAdd, Zenon
<1>3. ASSUME NEW h \in Requests, Leave(h)
      PROVE  IsFiniteSet(Open') /\ outstanding' = Cardinality(Open')
  <2>1. pc[h] = "leave" /\ pc'[h] = "end" /\ \A g \in Requests : g # h => pc'[g] = pc[g]
    BY <1>3, Zenon DEF Leave, ProxyTypes
  <2>2. h \in Open /\ Open' = Open \ {h}
    BY <2>1, Zenon DEF Open
  <2>3. outstanding' = outstanding - 1
    BY <1>3, Zenon DEF Leave, EndOutstanding
  <2>4. QED
    BY <2>2, <2>3, CountRemove, Zenon
<1>4. ASSUME NEW h \in Requests,
             \/ SlotAcquired(h) \/ SlotUnavailable(h) \/ PublishLLMRequest(h)
             \/ EnsureReplyGroup(h) \/ EmitRole(h) \/ ConsumeReply(h) \/ ReplyCut(h)
             \/ Respond(h) \/ Release(h)
      PROVE  /\ outstanding' = outstanding
             /\ \A g \in Requests : pc'[g] \in {"new", "end"} <=> pc[g] \in {"new", "end"}
  <2>1. outstanding' = outstanding /\ \A g \in Requests : g # h => pc'[g] = pc[g]
    BY <1>4, Zenon DEF SlotAcquired, SlotUnavailable, PublishLLMRequest, EnsureReplyGroup,
            EmitRole, ConsumeReply, ReplyCut, Respond, Release, ProxyTypes
  <2>2. pc[h] \notin {"new", "end"} /\ pc'[h] \notin {"new", "end"}
    BY <1>4, Zenon DEF SlotAcquired, SlotUnavailable, PublishLLMRequest, EnsureReplyGroup,
            EmitRole, ConsumeReply, ReplyCut, Respond, Release, ReleasePath, ProxyTypes
  <2>3. QED
    BY <2>1, <2>2, Zenon
<1>5. ASSUME NEW h \in Requests,
             \/ Disconnect(h) \/ Expire(h) \/ Offer(h) \/ Reclaim(h) \/ BrokerReply(h)
      PROVE  outstanding' = outstanding /\ pc' = pc
  BY <1>5, Zenon DEF Disconnect, Expire, Offer, Reclaim, BrokerReply
<1>6. CASE UNCHANGED proxyVars
  BY <1>1, <1>6, Zenon DEF proxyVars
<1>7. ASSUME NEW h \in Requests, Handler(h)
      PROVE  IsFiniteSet(Open') /\ outstanding' = Cardinality(Open')
  BY <1>1, <1>2, <1>3, <1>4, <1>7, Zenon DEF Handler
<1>8. QED
  BY <1>1, <1>5, <1>6, <1>7, Zenon DEF ProxyNext

\* The invariant holds when the server starts.
LEMMA ProxyStarts ==
  ASSUME ProxyInit
  PROVE  ProxyInv
<1>1. ProxyTypes
  BY DEF ProxyInit, ProxyTypes, Before, SlotStates, Messages, Events
<1>2. ASSUME NEW h \in Requests PROVE Request(h)
  <2>1. /\ pc[h] = "new" /\ slot[h] = "none" /\ httpReply[h] = <<>> /\ read[h] = 0 /\ content[h] = <<>>
        /\ tools[h] = <<>> /\ http[h] = <<>> /\ released[h] = 0 /\ defensive[h] = 0
    BY Zenon DEF ProxyInit
  <2>2. Numbered(<<>>) /\ Collected(<<>>, 0, <<>>, <<>>)
    BY DEF Numbered, Collected, AllOf
  <2>3. Written(h, "new", <<>>, <<>>, 0, <<>>, <<>>)
    BY Zenon DEF Written, Before, Relaying, After
  <2>4. ~Refused(<<>>)
    BY Zenon DEF Refused
  <2>5. Accounted("new", "none", <<>>, 0, 0, faults)
    BY <2>4 DEF Accounted
  <2>6. QED
    BY <2>1, <2>2, <2>3, <2>5, Zenon DEF Request
<1>3. Open = {} /\ outstanding = 0
  BY Zenon DEF Open, ProxyInit
<1>4. QED
  BY <1>1, <1>2, <1>3, CountEmpty, Zenon DEF ProxyInv

\* What TLC checks of the slot and of the types follows from the invariant.
LEMMA SlotsAreGivenBack ==
  ASSUME ProxyInv
  PROVE  ProxyTypeOK /\ SlotGivenBack
<1>1. ProxyTypeOK
  <2>1. ASSUME NEW h \in Requests
        PROVE  read[h] \in 0 .. Len(httpReply[h]) /\ released[h] \in 0 .. 1 /\ defensive[h] \in 0 .. 1
    <3>1. read[h] \in Nat /\ Len(httpReply[h]) \in Nat /\ released[h] \in Nat /\ defensive[h] \in Nat
      BY DEF ProxyInv, ProxyTypes
    <3>2. read[h] <= Len(httpReply[h]) /\ released[h] + defensive[h] <= 1
      BY Zenon DEF ProxyInv, Request, Collected, Accounted
    <3>3. QED
      BY <3>1, <3>2
  <2>2. released \in [Requests -> 0 .. 1] /\ defensive \in [Requests -> 0 .. 1]
    BY <2>1, Zenon DEF ProxyInv, ProxyTypes
  <2>3. slot \in [Requests -> {"none", "offered", "acked", "freed"}]
    BY Zenon DEF ProxyInv, ProxyTypes, SlotStates
  <2>4. outstanding = Cardinality(Open)
    BY Zenon DEF ProxyInv
  <2>5. outstanding = Cardinality({h \in Requests : pc[h] \notin {"new", "end"}})
    BY <2>4, Zenon DEF Open
  <2>6. \A h \in Requests : read[h] \in 0 .. Len(httpReply[h])
    BY <2>1, Zenon
  <2>7. QED
    BY <2>2, <2>3, <2>5, <2>6, Zenon DEF ProxyTypeOK
<1>2. SlotGivenBack
  BY Zenon DEF ProxyInv, Request, Accounted, Refused, SlotGivenBack, Written, After, Answered, ErrorBody
<1>3. QED
  BY <1>1, <1>2, Zenon

\* What a request to llm-proxy keeps holds for any number of requests,
\* streaming or not, whatever the broker sends or fails to send and whenever
\* the client leaves: the slot is given back once, a 200 is the whole answer,
\* a stream is closed by one finish chunk and [DONE] (server.go).
THEOREM ProxyIsSound == ASSUME LLMProxyAssumption PROVE ProxySpec => []ProxySound
<1>1. ProxyInit => ProxyInv
  BY ProxyStarts, Zenon
<1>2. ProxyInv /\ [ProxyNext]_(proxyVars) => ProxyInv'
  <2> SUFFICES ASSUME ProxyInv, [ProxyNext]_(proxyVars) PROVE ProxyInv'
    BY Zenon
  <2>1. QED
    BY ProxyTypesStep, RequestsStep, OpenStep, Zenon DEF ProxyInv
<1>3. ProxyInv => ProxySound
  BY AnswersAreWhole, SlotsAreGivenBack, Zenon DEF ProxySound
<1>4. QED
  BY <1>1, <1>2, <1>3, PTL DEF ProxySpec
-----------------------------------------------------------------------------
(* The invariant: a cancelled monitor has a start of its own *)

Announcements == [type : {"register", "deregister"}, agent : Agents]

\* The registrations of a service that wait to be consumed.
Registration(a) == [type |-> "register", agent |-> a]
Waiting(q, a) == {i \in 1 .. Len(q) : q[i] = Registration(a)}

RegistryTypes ==
    /\ proc \in [Agents -> {"off", "up"}] /\ starts \in [Agents -> 0 .. MaxStarts]
    /\ subs \subseteq Agents /\ dying \subseteq Agents
    /\ held \subseteq Agents \X (1 .. MaxStarts)
    /\ announce \in Seq(Announcements)
    /\ agents \in [Agents -> {"absent", "alive", "dead"}]
    /\ phase \in {"wait", "prune"} /\ stalls \in 0 .. MaxStalls
    /\ running \in [Agents -> Nat] /\ cancelled \in [Agents -> Nat]
    /\ \A a \in Agents : proc[a] = "up" => starts[a] > 0

\* Every start of a service is announced once; the announcement waits, or is
\* what the service is known by, or its monitor was cancelled.
Noticed(a) == IF a \in subs \/ agents[a] # "absent" THEN 1 ELSE 0
Counted == \A a \in Agents : Cardinality(Waiting(announce, a)) + cancelled[a] + Noticed(a) <= starts[a]

RegistryInv == RegistryTypes /\ OneMonitor /\ Counted

\* The waiting registrations are finitely many.
LEMMA WaitingFinite ==
  ASSUME NEW q \in Seq(Announcements), NEW a
  PROVE  IsFiniteSet(Waiting(q, a)) /\ Cardinality(Waiting(q, a)) \in Nat
<1>1. Len(q) \in Nat /\ 1 \in Int /\ Len(q) \in Int
  OBVIOUS
<1>2. IsFiniteSet(1 .. Len(q))
  BY <1>1, CountInterval, Zenon
<1>3. Waiting(q, a) \subseteq 1 .. Len(q)
  BY Zenon DEF Waiting
<1>4. IsFiniteSet(Waiting(q, a))
  BY <1>2, <1>3, CountSubset, Zenon
<1>5. QED
  BY <1>4, CountType, Zenon

\* An announcement that is sent waits, if it is a registration.
LEMMA WaitingSent ==
  ASSUME NEW q \in Seq(Announcements), NEW a, NEW m \in Announcements
  PROVE  Cardinality(Waiting(Append(q, m), a)) =
            Cardinality(Waiting(q, a)) + (IF m = Registration(a) THEN 1 ELSE 0)
<1>1. /\ Len(q) \in Nat /\ Len(Append(q, m)) = Len(q) + 1 /\ Append(q, m)[Len(q) + 1] = m
      /\ \A i \in 1 .. Len(q) : Append(q, m)[i] = q[i]
  OBVIOUS
<1>2. IsFiniteSet(Waiting(q, a)) /\ Cardinality(Waiting(q, a)) \in Nat
  BY WaitingFinite, Zenon
<1>3. Len(q) + 1 \notin Waiting(q, a)
  BY <1>1 DEF Waiting
<1>4. \A i \in 1 .. Len(q) + 1 : i \in 1 .. Len(q) \/ i = Len(q) + 1
  BY <1>1
<1>5. \A i : i \in 1 .. Len(q) => i \in 1 .. Len(q) + 1
  BY <1>1
<1>6. Len(q) + 1 \in 1 .. Len(q) + 1
  BY <1>1
<1>7. CASE m = Registration(a)
  <2>1. Waiting(Append(q, m), a) = Waiting(q, a) \cup {Len(q) + 1}
    BY <1>1, <1>4, <1>5, <1>6, <1>7, Zenon DEF Waiting
  <2>2. QED
    BY <1>2, <1>3, <1>7, <2>1, CountAdd, Zenon
<1>8. CASE m # Registration(a)
  <2>1. Waiting(Append(q, m), a) = Waiting(q, a)
    BY <1>1, <1>4, <1>5, <1>8, Zenon DEF Waiting
  <2>2. QED
    BY <1>2, <1>8, <2>1
<1>9. QED
  BY <1>7, <1>8, Zenon

\* The first announcement does not wait any more once it is consumed.
LEMMA WaitingConsumed ==
  ASSUME NEW q \in Seq(Announcements), NEW a, q # <<>>
  PROVE  Cardinality(Waiting(q, a)) =
            Cardinality(Waiting(Tail(q), a)) + (IF Head(q) = Registration(a) THEN 1 ELSE 0)
<1> DEFINE W == Waiting(q, a) \ {1}
           V == Waiting(Tail(q), a)
           f == [i \in V |-> i + 1]
<1>1. /\ Len(q) \in Nat \ {0} /\ Tail(q) \in Seq(Announcements) /\ Len(Tail(q)) = Len(q) - 1
      /\ Head(q) = q[1] /\ \A i \in 1 .. Len(q) - 1 : Tail(q)[i] = q[i + 1]
  OBVIOUS
<1>2. IsFiniteSet(Waiting(q, a)) /\ Cardinality(Waiting(q, a)) \in Nat
  BY WaitingFinite, Zenon
<1>3. IsFiniteSet(V) /\ Cardinality(V) \in Nat
  BY <1>1, WaitingFinite, Zenon
<1>4. Cardinality(W) = Cardinality(V)
  <2>1. \A i \in V : i \in 1 .. Len(q) - 1 /\ i + 1 \in W /\ i \in Nat
    BY <1>1 DEF Waiting
  <2>2. \A j \in W : j - 1 \in V /\ (j - 1) + 1 = j
    <3>1. SUFFICES ASSUME NEW j \in W PROVE j - 1 \in V /\ (j - 1) + 1 = j
      BY Zenon
    <3>2. j \in 2 .. Len(q) /\ q[j] = Registration(a)
      BY <1>1 DEF Waiting
    <3>3. j - 1 \in 1 .. Len(q) - 1 /\ (j - 1) + 1 = j
      BY <1>1, <3>2
    <3>4. QED
      BY <1>1, <3>2, <3>3, Zenon DEF Waiting
  <2> HIDE DEF V, W
  <2>3. f \in [V -> W]
    BY <2>1, Zenon
  <2>4. \A i, j \in V : f[i] = f[j] => i = j
    BY <2>1
  <2>5. \A j \in W : \E i \in V : f[i] = j
    BY <2>2, Zenon
  <2> HIDE DEF f
  <2>6. QED
    BY <1>3, <2>3, <2>4, <2>5, CountSame, Zenon
<1>5. CASE Head(q) = Registration(a)
  <2>1. 1 \in Waiting(q, a)
    BY <1>1, <1>5 DEF Waiting
  <2>2. Cardinality(W) = Cardinality(Waiting(q, a)) - 1
    BY <1>2, <2>1, CountRemove, Zenon
  <2>3. QED
    BY <1>2, <1>3, <1>4, <1>5, <2>2
<1>6. CASE Head(q) # Registration(a)
  <2>1. W = Waiting(q, a)
    BY <1>1, <1>6, Zenon DEF Waiting
  <2>2. QED
    BY <1>3, <1>4, <1>6, <2>1, SMTT(30)
<1>7. QED
  BY <1>5, <1>6, Zenon

\* Every step keeps the types.
LEMMA RegistryTypesStep ==
  ASSUME RegistryAssumption, RegistryTypes, [RegistryNext]_registryVars
  PROVE  RegistryTypes'
<1>a. MaxStarts \in Nat \ {0} /\ MaxStalls \in Nat
  BY Zenon DEF RegistryAssumption
<1>1. ASSUME NEW a \in Agents, StartAgent(a) PROVE RegistryTypes'
  <2>1. [type |-> "register", agent |-> a] \in Announcements
    BY Zenon DEF Announcements
  <2>2. announce' \in Seq(Announcements)
    BY <1>1, <2>1 DEF StartAgent, RegistryTypes
  <2>3. starts' \in [Agents -> 0 .. MaxStarts] /\ \A x \in Agents : proc'[x] = "up" => starts'[x] > 0
    BY <1>1, <1>a DEF StartAgent, RegistryTypes
  <2>4. QED
    BY <1>1, <2>2, <2>3, Zenon DEF StartAgent, RegistryTypes, monitor
<1>2. ASSUME NEW a \in Agents, Shutdown(a) PROVE RegistryTypes'
  <2>1. [type |-> "deregister", agent |-> a] \in Announcements
    BY Zenon DEF Announcements
  <2>2. announce' \in Seq(Announcements)
    BY <1>2, <2>1 DEF Shutdown, RegistryTypes
  <2>3. QED
    BY <1>2, <2>2, Zenon DEF Shutdown, RegistryTypes, monitor
<1>3. ASSUME NEW a \in Agents, CrashAgent(a) PROVE RegistryTypes'
  BY <1>3, Zenon DEF CrashAgent, RegistryTypes, monitor
<1>4. ASSUME NEW a \in Agents, HoldSlot(a) PROVE RegistryTypes'
  <2>1. starts[a] \in 1 .. MaxStarts
    BY <1>4, <1>a DEF HoldSlot, RegistryTypes
  <2>2. held' \subseteq Agents \X (1 .. MaxStarts)
    BY <1>4, <2>1 DEF HoldSlot, RegistryTypes
  <2>3. QED
    BY <1>4, <2>2, Zenon DEF HoldSlot, RegistryTypes, monitor
<1>5. ASSUME NEW a \in Agents, Heartbeat(a) PROVE RegistryTypes'
  BY <1>5, Zenon DEF Heartbeat, RegistryTypes, service, monitor
<1>6. CASE Consume
  <2>1. Head(announce) \in Announcements /\ announce' \in Seq(Announcements)
    BY <1>6 DEF Consume, RegistryTypes
  <2>2. Head(announce).agent \in Agents
    BY <2>1, Zenon DEF Announcements
  <2>3. agents' \in [Agents -> {"absent", "alive", "dead"}]
    BY <1>6, <2>2, Zenon DEF Consume, RegistryTypes, Registered, Deregistered
  <2>4. QED
    BY <1>6, <2>1, <2>3 DEF Consume, RegistryTypes, monitor
<1>7. CASE TickSubscribe
  <2>1. running' \in [Agents -> Nat]
    BY <1>7 DEF TickSubscribe, RegistryTypes
  <2>2. QED
    BY <1>7, <2>1 DEF TickSubscribe, RegistryTypes, service, Unwatched
<1>8. CASE TickPrune
  <2>1. running' \in [Agents -> Nat] /\ cancelled' \in [Agents -> Nat]
    BY <1>8 DEF TickPrune, RegistryTypes
  <2>2. QED
    BY <1>8, <2>1, Zenon DEF TickPrune, RegistryTypes, service
<1>9. ASSUME NEW a \in Agents, MonitorExpire(a) PROVE RegistryTypes'
  <2>1. running' \in [Agents -> Nat] /\ stalls' \in 0 .. MaxStalls
    BY <1>9, <1>a DEF MonitorExpire, Overdue, RegistryTypes
  <2>2. agents' \in [Agents -> {"absent", "alive", "dead"}] /\ dying' \subseteq Agents
    BY <1>9, Zenon DEF MonitorExpire, MarkDead, RegistryTypes
  <2>3. QED
    BY <1>9, <2>1, <2>2, Zenon DEF MonitorExpire, RegistryTypes, service
<1>10. ASSUME NEW a \in Agents, MonitorCancelled(a) PROVE RegistryTypes'
  <2>1. cancelled' \in [Agents -> Nat] /\ stalls' \in 0 .. MaxStalls
    BY <1>10, <1>a DEF MonitorCancelled, Overdue, RegistryTypes
  <2>2. agents' \in [Agents -> {"absent", "alive", "dead"}] /\ dying' \subseteq Agents
    BY <1>10, Zenon DEF MonitorCancelled, MarkDead, RegistryTypes
  <2>3. QED
    BY <1>10, <2>1, <2>2, SMTT(30) DEF MonitorCancelled, RegistryTypes, service
<1>11. ASSUME NEW a \in Agents, OnDead(a) PROVE RegistryTypes'
  BY <1>11 DEF OnDead, RegistryTypes
<1>12. CASE UNCHANGED registryVars
  BY <1>12, Zenon DEF registryVars, RegistryTypes
<1>13. QED
  BY <1>1, <1>2, <1>3, <1>4, <1>5, <1>6, <1>7, <1>8, <1>9, <1>10, <1>11, <1>12, Zenon DEF RegistryNext

\* A monitor is started only for a service that has no subscription, and a
\* subscription is dropped only with its monitor.
LEMMA OneMonitorStep ==
  ASSUME RegistryTypes, OneMonitor, [RegistryNext]_registryVars
  PROVE  OneMonitor'
<1>1. CASE UNCHANGED <<running, subs>>
  BY <1>1, Zenon DEF OneMonitor
<1>2. CASE TickSubscribe
  <2>1. SUFFICES ASSUME NEW a \in Agents PROVE running'[a] <= (IF a \in subs' THEN 1 ELSE 0)
    BY Zenon DEF OneMonitor
  <2>2. running[a] \in Nat /\ running[a] <= (IF a \in subs THEN 1 ELSE 0)
    BY Zenon DEF OneMonitor, RegistryTypes
  <2>3. QED
    BY <1>2, <2>2 DEF TickSubscribe, Unwatched
<1>3. CASE TickPrune
  <2>1. SUFFICES ASSUME NEW a \in Agents PROVE running'[a] <= (IF a \in subs' THEN 1 ELSE 0)
    BY Zenon DEF OneMonitor
  <2>2. running[a] \in Nat /\ running[a] <= (IF a \in subs THEN 1 ELSE 0)
    BY Zenon DEF OneMonitor, RegistryTypes
  <2>3. QED
    BY <1>3, <2>2 DEF TickPrune, Gone
<1>4. ASSUME NEW b \in Agents, MonitorExpire(b) PROVE OneMonitor'
  <2>1. SUFFICES ASSUME NEW a \in Agents PROVE running'[a] <= (IF a \in subs' THEN 1 ELSE 0)
    BY Zenon DEF OneMonitor
  <2>2. running[a] \in Nat /\ running[a] <= (IF a \in subs THEN 1 ELSE 0)
    BY Zenon DEF OneMonitor, RegistryTypes
  <2>3. QED
    BY <1>4, <2>2 DEF MonitorExpire, RegistryTypes
<1>5. QED
  BY <1>1, <1>2, <1>3, <1>4, Zenon
     DEF RegistryNext, registryVars, service, monitor, StartAgent, Shutdown, CrashAgent, HoldSlot, Heartbeat,
         MonitorCancelled, OnDead, Consume

\* Every cancelled monitor has a start of its own.
LEMMA CountedStep ==
  ASSUME RegistryAssumption, RegistryTypes, OneMonitor, Counted, [RegistryNext]_registryVars
  PROVE  Counted'
<1> SUFFICES ASSUME NEW a \in Agents
             PROVE  Cardinality(Waiting(announce', a)) + cancelled'[a] + Noticed(a)' <= starts'[a]
  BY Zenon DEF Counted
<1> DEFINE n == Cardinality(Waiting(announce, a))
           n1 == Cardinality(Waiting(announce', a))
<1>a. /\ announce \in Seq(Announcements) /\ cancelled[a] \in Nat /\ starts[a] \in Nat
      /\ n \in Nat /\ Noticed(a) \in 0 .. 1 /\ n + cancelled[a] + Noticed(a) <= starts[a]
      /\ running[a] \in Nat /\ running[a] <= (IF a \in subs THEN 1 ELSE 0)
  BY WaitingFinite DEF RegistryTypes, Counted, Noticed, OneMonitor
<1>b. ASSUME n1 <= n, cancelled'[a] <= cancelled[a], cancelled'[a] \in Nat, n1 \in Nat,
             Noticed(a)' <= Noticed(a), Noticed(a)' \in 0 .. 1, starts'[a] = starts[a]
      PROVE  n1 + cancelled'[a] + Noticed(a)' <= starts'[a]
  BY <1>a, <1>b, SMTT(30)
<1>c. Noticed(a)' \in 0 .. 1
  BY DEF Noticed
<1> HIDE DEF n, n1
<1> SUFFICES n1 + cancelled'[a] + Noticed(a)' <= starts'[a]
  BY Zenon DEF n1
<1>1. ASSUME NEW b \in Agents, StartAgent(b)
      PROVE  n1 + cancelled'[a] + Noticed(a)' <= starts'[a]
  <2>1. n1 = n + (IF Registration(b) = Registration(a) THEN 1 ELSE 0)
    <3>1. announce' = Append(announce, Registration(b)) /\ Registration(b) \in Announcements
      BY <1>1, Zenon DEF StartAgent, Registration, Announcements
    <3>2. QED
      BY <1>a, <3>1, WaitingSent, Zenon DEF n, n1
  <2>2. Registration(b) = Registration(a) => a = b
    BY Zenon DEF Registration
  <2>3. cancelled'[a] = cancelled[a] /\ Noticed(a)' = Noticed(a)
    BY <1>1, Zenon DEF StartAgent, monitor, Noticed
  <2>4. CASE a = b
    <3>1. starts'[a] = starts[a] + 1
      BY <1>1, <2>4, Zenon DEF StartAgent, RegistryTypes
    <3>2. QED
      BY <1>a, <2>1, <2>3, <3>1, SMTT(30)
  <2>5. CASE a # b
    <3>1. starts'[a] = starts[a] /\ n1 = n
      <4>1. starts'[a] = starts[a]
        BY <1>1, <2>5, Zenon DEF StartAgent, RegistryTypes
      <4>2. n1 = n + 0
        BY <2>1, <2>2, <2>5, Zenon
      <4>3. n + 0 = n
        BY <1>a
      <4>4. QED
        BY <4>1, <4>2, <4>3, Zenon
    <3>2. QED
      BY <1>a, <2>3, <3>1, Zenon
  <2>6. QED
    BY <2>4, <2>5, Zenon
<1>2. ASSUME NEW b \in Agents, Shutdown(b)
      PROVE  n1 + cancelled'[a] + Noticed(a)' <= starts'[a]
  <2> DEFINE m == [type |-> "deregister", agent |-> b]
  <2>1. announce' = Append(announce, m) /\ m \in Announcements /\ m # Registration(a)
    BY <1>2, Zenon DEF Shutdown, Registration, Announcements
  <2>2. n1 = n + 0
    BY <1>a, <2>1, WaitingSent, Zenon DEF n, n1
  <2>3. cancelled'[a] = cancelled[a] /\ Noticed(a)' = Noticed(a) /\ starts'[a] = starts[a]
    BY <1>2, Zenon DEF Shutdown, monitor, Noticed
  <2>4. QED
    BY <1>a, <2>2, <2>3
<1>3. CASE Consume
  <2>1. /\ announce # <<>> /\ announce' = Tail(announce) /\ Head(announce) \in Announcements
        /\ UNCHANGED <<starts, cancelled, subs>>
    BY <1>3, <1>a DEF Consume, monitor
  <2>2. n = n1 + (IF Head(announce) = Registration(a) THEN 1 ELSE 0) /\ n1 \in Nat
    <3>1. Tail(announce) \in Seq(Announcements)
      BY <1>a, <2>1
    <3>2. n1 \in Nat
      BY <2>1, <3>1, WaitingFinite, Zenon DEF n1
    <3>3. n = n1 + (IF Head(announce) = Registration(a) THEN 1 ELSE 0)
      BY <1>a, <2>1, WaitingConsumed, Zenon DEF n, n1
    <3>4. QED
      BY <3>2, <3>3, Zenon
  <2>3. Head(announce) # Registration(a) => Noticed(a)' <= Noticed(a)
    <3>1. SUFFICES ASSUME Head(announce) # Registration(a) PROVE Noticed(a)' <= Noticed(a)
      BY Zenon
    <3>2. agents'[a] = agents[a] \/ agents'[a] = "absent"
      <4>1. CASE Head(announce).type = "register"
        <5>1. Head(announce).agent # a
          BY <2>1, <3>1, <4>1, Zenon DEF Announcements, Registration
        <5>2. QED
          BY <1>3, <4>1, <5>1, Zenon DEF Consume, Registered, RegistryTypes
      <4>2. CASE Head(announce).type # "register"
        BY <1>3, <4>2, Zenon DEF Consume, Deregistered, RegistryTypes
      <4>3. QED
        BY <4>1, <4>2, Zenon
    <3>3. QED
      BY <2>1, <3>2 DEF Noticed
  <2>4. QED
    <3>1. cancelled'[a] = cancelled[a] /\ starts'[a] = starts[a]
      BY <2>1, Zenon
    <3>2. CASE Head(announce) = Registration(a)
      BY <1>a, <1>c, <2>2, <3>1, <3>2, SMTT(30)
    <3>3. CASE Head(announce) # Registration(a)
      <4>1. n1 + 0 <= n
        BY <2>2, <3>3
      <4>2. n1 <= n /\ cancelled[a] <= cancelled[a]
        BY <1>a, <2>2, <4>1
      <4>3. QED
        BY <1>a, <1>b, <1>c, <2>2, <2>3, <3>1, <3>3, <4>2, Zenon
    <3>4. QED
      BY <3>2, <3>3, Zenon
<1>4. CASE TickSubscribe
  <2>1. Noticed(a)' <= Noticed(a) /\ UNCHANGED <<announce, cancelled, starts>>
    BY <1>4 DEF TickSubscribe, Unwatched, Noticed, service
  <2>2. QED
    BY <1>a, <1>b, <1>c, <2>1 DEF n, n1
<1>5. CASE TickPrune
  <2>1. /\ UNCHANGED <<announce, starts, agents>> /\ subs' = subs \ Gone
        /\ cancelled'[a] = cancelled[a] + (IF a \in Gone THEN running[a] ELSE 0)
    BY <1>5, Zenon DEF TickPrune, service
  <2>2. CASE a \in Gone
    <3>1. Noticed(a) = 1 /\ Noticed(a)' = 0 /\ a \in subs
      BY <2>1, <2>2, Zenon DEF Noticed, Gone
    <3>2. n1 = n /\ cancelled'[a] = cancelled[a] + running[a] /\ starts'[a] = starts[a]
      BY <2>1, <2>2, Zenon DEF n, n1
    <3>3. running[a] <= 1
      BY <1>a, <3>1, Zenon
    <3>4. QED
      BY <1>a, <3>1, <3>2, <3>3
  <2>3. CASE a \notin Gone
    <3>1. Noticed(a)' = Noticed(a) /\ cancelled'[a] = cancelled[a] + 0
      BY <2>1, <2>3, Zenon DEF Noticed
    <3>2. QED
      BY <1>a, <2>1, <3>1 DEF n, n1
  <2>4. QED
    BY <2>2, <2>3, Zenon
<1>6. ASSUME NEW b \in Agents, Heartbeat(b) \/ MonitorExpire(b) \/ MonitorCancelled(b)
      PROVE  n1 + cancelled'[a] + Noticed(a)' <= starts'[a]
  <2>1. UNCHANGED <<announce, starts, subs>>
    BY <1>6, Zenon DEF Heartbeat, MonitorExpire, MonitorCancelled, service, monitor
  <2>2. agents'[a] # "absent" => agents[a] # "absent"
    BY <1>6, Zenon DEF Heartbeat, MonitorExpire, MonitorCancelled, MarkDead, RegistryTypes
  <2>3. cancelled'[a] \in Nat /\ cancelled'[a] <= cancelled[a]
    BY <1>6, <1>a DEF Heartbeat, MonitorExpire, MonitorCancelled, monitor, RegistryTypes
  <2>4. Noticed(a)' <= Noticed(a)
    BY <2>1, <2>2 DEF Noticed
  <2>5. QED
    <3>1. n1 = n /\ starts'[a] = starts[a]
      BY <2>1, Zenon DEF n, n1
    <3>2. n <= n
      BY <1>a
    <3>3. QED
      BY <1>a, <1>b, <1>c, <2>3, <2>4, <3>1, <3>2, Zenon
<1>7. CASE UNCHANGED <<announce, starts, subs, agents, cancelled>>
  BY <1>7, <1>a, Zenon DEF n, n1, Noticed
<1>8. QED
  BY <1>1, <1>2, <1>3, <1>4, <1>5, <1>6, <1>7, Zenon
     DEF RegistryNext, registryVars, service, monitor, CrashAgent, HoldSlot, OnDead

\* For any services, starts and stalls, RunHeartbeatMonitor never has two live
\* monitors for one service, a live monitor has its subscription, and no more
\* cancelled monitors wait to return than the service had starts
\* (registry/consumer.go).
THEOREM MonitorsAreSound ==
  ASSUME RegistryAssumption
  PROVE  RegistrySpec => []MonitorsSound
<1>1. RegistryInit => RegistryInv
  <2> SUFFICES ASSUME RegistryInit PROVE RegistryInv
    BY Zenon
  <2>1. RegistryTypes /\ OneMonitor
    BY DEF RegistryInit, RegistryTypes, OneMonitor, RegistryAssumption
  <2>2. ASSUME NEW a \in Agents
        PROVE  Cardinality(Waiting(announce, a)) + cancelled[a] + Noticed(a) <= starts[a]
    <3>1. Waiting(announce, a) = {}
      BY DEF RegistryInit, Waiting
    <3>2. Cardinality(Waiting(announce, a)) = 0
      BY <3>1, CountEmpty, Zenon
    <3>3. cancelled[a] = 0 /\ Noticed(a) = 0 /\ starts[a] = 0
      BY Zenon DEF RegistryInit, Noticed
    <3>4. QED
      BY <3>2, <3>3
  <2>3. QED
    BY <2>1, <2>2, Zenon DEF RegistryInv, Counted
<1>2. RegistryInv /\ [RegistryNext]_registryVars => RegistryInv'
  BY RegistryTypesStep, OneMonitorStep, CountedStep, Zenon DEF RegistryInv
<1>3. RegistryInv => MonitorsSound
  <2> SUFFICES ASSUME RegistryInv PROVE MonitorsSound
    BY Zenon
  <2>1. ASSUME NEW a \in Agents PROVE cancelled[a] <= starts[a]
    <3>1. /\ Cardinality(Waiting(announce, a)) \in Nat /\ cancelled[a] \in Nat
          /\ starts[a] \in Nat /\ Noticed(a) \in 0 .. 1
      BY WaitingFinite DEF RegistryInv, RegistryTypes, Noticed
    <3>2. Cardinality(Waiting(announce, a)) + cancelled[a] + Noticed(a) <= starts[a]
      BY Zenon DEF RegistryInv, Counted
    <3>3. QED
      BY <3>1, <3>2
  <2>2. QED
    BY <2>1, Zenon DEF RegistryInv, RegistryTypes, RegistryTypeOK, MonitorsSound
<1>4. QED
  BY <1>1, <1>2, <1>3, PTL DEF RegistrySpec

-----------------------------------------------------------------------------
(* What the client of one server keeps *)

\* The initial state satisfies the invariant.
LEMMA ClientStarts == Init => ClientInv
<1> SUFFICES ASSUME Init PROVE ClientInv
  BY Zenon
<1>1. ClientTypes /\ Held /\ Ids
  BY DEF Init, ClientTypes, CallRecord, Held, Ids, CallLabels, Inside, Results
<1>2. Places
  BY DEF Init, Places
<1>3. IDsCounted
  <2>1. WithID = {}
    BY DEF Init, WithID
  <2>2. QED
    BY <2>1, CountEmpty, Zenon DEF Init, IDsCounted
<1>4. QED
  BY <1>1, <1>2, <1>3, Zenon DEF ClientInv

\* The counter counts the invocations that have an id.
LEMMA IDsCountedStep == ClientTypes /\ IDsCounted /\ [Next]_vars => IDsCounted'
<1> SUFFICES ASSUME ClientTypes, IDsCounted, [Next]_vars PROVE IDsCounted'
  BY Zenon
<1>1. ASSUME UNCHANGED nextID, \A c \in Calls : call'[c].id = call[c].id,
             \A c \in Calls : call'[c].pc \in {"idle", "mu", "store"} =>
                                call[c].pc \in {"idle", "mu", "store"}
      PROVE  IDsCounted'
  <2>1. WithID' = WithID
    BY <1>1, Zenon DEF WithID
  <2>2. QED
    BY <1>1, <2>1, Zenon DEF IDsCounted
<1>2. ASSUME NEW c \in Calls, StoreCall(c), ~closed PROVE IDsCounted'
  <2>1. /\ nextID \in Nat /\ nextID' = nextID + 1 /\ call[c].id = 0
        /\ call'[c].id = nextID + 1 /\ call'[c].pc = "write"
        /\ \A d \in Calls : d # c => call'[d] = call[d]
    BY <1>2, Zenon DEF StoreCall, FreshID, ClientTypes, CallRecord, IDsCounted
  <2>2. WithID' = WithID \cup {c} /\ c \notin WithID
    BY <2>1 DEF WithID
  <2>3. IsFiniteSet(WithID)
    BY MCPClientAssumption, CountSubset, Zenon DEF WithID
  <2>4. Cardinality(WithID') = Cardinality(WithID) + 1
    BY <2>2, <2>3, CountAdd, Zenon
  <2>5. QED
    BY <2>1, <2>4, Zenon DEF IDsCounted
<1>3. ASSUME NEW c \in Calls,
             \/ Invoke(c) \/ LockCall(c) \/ (StoreCall(c) /\ closed) \/ WriteRequest(c)
             \/ AwaitReply(c) \/ AwaitTimeout(c) \/ AwaitDone(c) \/ Deadline(c)
      PROVE  IDsCounted'
  <2>1. /\ UNCHANGED nextID /\ \A d \in Calls : call'[d].id = call[d].id
        /\ \A d \in Calls : call'[d].pc \in {"idle", "mu", "store"} =>
                              call[d].pc \in {"idle", "mu", "store"}
    BY <1>3 DEF Invoke, LockCall, StoreCall, WriteRequest, AwaitReply, AwaitTimeout, AwaitDone,
                Deadline, Return, ClientTypes, CallRecord
  <2>2. QED
    BY <1>1, <2>1, Zenon
<1>4. CASE UNCHANGED <<call, nextID>>
  BY <1>1, <1>4, Zenon
<1>5. QED
  BY <1>2, <1>3, <1>4, Zenon
     DEF Next, Serve, ReadResponse, LoopEnds, LoopDone, ServerReplies, Exit, Stall, vars

\* The invariant holds in every reachable state.
LEMMA ClientInvariant == Spec => []ClientInv
<1>1. ClientInv /\ [Next]_vars => ClientInv'
  BY ClientTypesStep, HeldStep, IdsStep, PlacesStep, IDsCountedStep, Zenon DEF ClientInv
<1>2. QED
  BY ClientStarts, <1>1, PTL DEF Spec

\* The counter never passes the number of invocations.
LEMMA EnoughIDs ==
  ASSUME ClientTypes, IDsCounted
  PROVE  nextID \in 0 .. Cardinality(Calls) /\ 1 .. nextID \subseteq IDs
<1>1. Cardinality(WithID) <= Cardinality(Calls)
  BY MCPClientAssumption, CountSubset, Zenon DEF WithID
<1>2. Cardinality(Calls) \in Nat
  BY MCPClientAssumption, CountType, Zenon
<1>3. QED
  BY <1>1, <1>2 DEF ClientTypes, IDsCounted, IDs

\* Client.CallTool and Client.call: a server is given one call at a time, and an
\* invocation never returns the response to another one's request.
THEOREM CallsAreSound == Spec => []CallsSound
<1>1. ClientInv => OneAtATime
  BY Zenon DEF ClientInv, Held, OneAtATime
<1>2. ClientInv => OwnReply
  BY DEF ClientInv, ClientTypes, CallRecord, Ids, OwnReply
<1>3. ClientInv => TypeOK
  <2> SUFFICES ASSUME ClientInv PROVE TypeOK
    BY Zenon
  <2>1. nextID \in 0 .. Cardinality(Calls) /\ 1 .. nextID \subseteq IDs
    BY EnoughIDs, Zenon DEF ClientInv
  <2>2. outbox \in Seq(IDs)
    BY <2>1 DEF ClientInv, Places
  <2>3. \A c \in Calls : call[c].pc \in CallLabels /\ call[c].result \in Results
    BY Zenon DEF ClientInv, ClientTypes, CallRecord
  <2>4. QED
    BY <2>1, <2>2, <2>3, Zenon DEF ClientInv, Places, TypeOK, CallLabels
<1>4. QED
  BY ClientInvariant, <1>1, <1>2, <1>3, PTL DEF CallsSound

=============================================================================
