------------------------------- MODULE Broker -------------------------------
(***************************************************************************)
(* The slot arbiter of llm-broker (internal/broker/broker.go) together     *)
(* with the agents that use it: main-agent and retro-agent through         *)
(* internal/agent/runtime.go, llm-proxy through internal/llmproxy.         *)
(*                                                                         *)
(* The broker is several goroutines over one slot table and one queue:     *)
(*   - the slot arbiter, which consumes stream:broker:slot-requests and    *)
(*     runs one handler at a time;                                         *)
(*   - for each request, the goroutine scheduleReclaim or preemptAgent     *)
(*     starts, identified here by the request;                             *)
(*   - for each agent, the heartbeat monitor that calls handleDeadAgent,   *)
(*     identified here by the agent.                                       *)
(* A step of a goroutine is one call on the slot table, one critical       *)
(* section of the queue's lock b.mu (split at its slot-table calls), or    *)
(* one publish.                                                            *)
(***************************************************************************)
EXTENDS SlotTable, Sequences, FiniteSets

CONSTANTS
  Arbiter,      \* the goroutine of consumeSlotRequests
  AgentOf,      \* the agent that makes each request
  PriorityOf,   \* an agent's priority; a lower number is more urgent
  SlotClass,    \* the slot class an agent names in its requests
  Preemptible,  \* the agents registered as preemptible
  Shared,       \* the agents with several requests in flight (llm-proxy)
  Mortal,       \* the agents that may crash or miss their heartbeats
  Punctual,     \* TRUE: nothing is so late that a timer fires on work that
                \* is still under way (see TakingOffer and AtWork)
  MaxFailures   \* bound on failed publishes in a behaviour

ASSUME BrokerAssumption ==
  /\ Agents \cap Reqs = {}
  /\ Arbiter \notin Agents \cup Reqs
  /\ AgentOf \in [Reqs -> Agents]
  /\ PriorityOf \in [Agents -> Int]
  /\ SlotClass \in [Agents -> STRING]
  /\ Preemptible \subseteq Agents
  /\ Shared \subseteq Agents
  /\ Mortal \subseteq Agents
  /\ Punctual \in BOOLEAN
  /\ MaxFailures \in Nat

VARIABLES
  slots,         \* the slot table
  pendingQueue,  \* queued requests, in order of arrival
  inbox,         \* stream:broker:slot-requests, what is not yet consumed
  job,           \* what each goroutine is doing, with its local variables
  alive,         \* the registry's Alive flag of each agent
  status,        \* what each request's caller is doing
  reply,         \* the slot in the request's reply stream, if any
  held,          \* the slot its caller has accepted, if any
  failures       \* failed publishes so far

brokerVars == <<slots, pendingQueue, job, alive>>
clientVars == <<status, held>>
vars == <<slots, pendingQueue, inbox, job, alive, status, reply, held, failures>>

ReqClass(r) == NormalizeClass(SlotClass[AgentOf[r]])
ReqPriority(r) == PriorityOf[AgentOf[r]]

Goroutines == {Arbiter} \cup Reqs \cup Agents

(* A goroutine's program counter and its locals: the request and slot it   *)
(* works on, the agent it preempts, and, inside the scan of                *)
(* assignFromQueue, the next index and the best index so far.              *)
Labels ==
  {"idle", "assign", "send", "victim", "enqueue",     \* the arbiter
   "none", "armed", "preempt", "release", "force", "notify", "exited",
   "watch",                                           \* a monitor
   "queue", "scan", "grant", "requeue", "offer"}      \* assignFromQueue

Job == [pc : Labels, req : Reqs \cup {NoReq}, slot : SlotId \cup {NoSlot},
        agent : Agents \cup {NoAgent}, next : Nat, best : Nat]

At(p, label) == job[p].pc = label
Preempting(label, r, s, a) ==
  [pc |-> label, req |-> r, slot |-> s, agent |-> a, next |-> 0, best |-> 0]
Scanning(i, best, s) ==
  [pc |-> "scan", req |-> NoReq, slot |-> s, agent |-> NoAgent, next |-> i, best |-> best]
Doing(label, r, s) == Preempting(label, r, s, NoAgent)
Resting(label) == Doing(label, NoReq, NoSlot)
Onward(p, label) == Doing(label, job[p].req, job[p].slot)

(* Where a goroutine goes when its work is done.                           *)
Finished(p) == Resting(IF p = Arbiter THEN "idle" ELSE "exited")

Message == [type : {"request", "ack", "release"}, req : Reqs,
            slot : SlotId \cup {NoSlot}]
Msg(type, r, s) == [type |-> type, req |-> r, slot |-> s]

(* Requests whose caller still waits for a slot or uses one.               *)
InFlight(r) == status[r] \in {"waiting", "holding"}

Init ==
  /\ slots = NewSlotTable
  /\ pendingQueue = << >>
  /\ inbox = << >>
  /\ job = [p \in Goroutines |->
              Resting(IF p = Arbiter THEN "idle"
                      ELSE IF p \in Agents THEN "watch" ELSE "none")]
  /\ alive = [a \in Agents |-> TRUE]
  /\ status = [r \in Reqs |-> "idle"]
  /\ reply = [r \in Reqs |-> NoSlot]
  /\ held = [r \in Reqs |-> NoSlot]
  /\ failures = 0

(* One more publish fails; the defensive release that follows it in the    *)
(* same call may fail along with it.                                       *)
PublishFails ==
  /\ failures < MaxFailures
  /\ failures' = failures + 1

-----------------------------------------------------------------------------
(* The callers.  A caller publishes to the inbox, which keeps its order.   *)

Send(m) == inbox' = Append(inbox, m)

DefensiveRelease(r) == Send(Msg("release", r, NoSlot))

(* An agent runs its requests one after the other, unless it is shared.    *)
MayRequest(r) ==
  /\ status[r] = "idle"
  /\ \/ AgentOf[r] \in Shared
     \/ \A q \in Reqs : AgentOf[q] = AgentOf[r] => ~InFlight(q)

RequestSlot(r) ==
  /\ MayRequest(r)
  /\ Send(Msg("request", r, NoSlot))
  /\ status' = [status EXCEPT ![r] = "waiting"]
  /\ UNCHANGED <<brokerVars, reply, held, failures>>

(* When the request cannot be published the runtime just returns the error; *)
(* llm-proxy treats it as any failure to acquire and releases defensively. *)
RequestPublishFails(r) ==
  /\ MayRequest(r)
  /\ PublishFails
  /\ \/ AgentOf[r] \in Shared /\ DefensiveRelease(r)
     \/ UNCHANGED inbox
  /\ status' = [status EXCEPT ![r] = "gaveup"]
  /\ UNCHANGED <<brokerVars, reply, held>>

(* WaitForReply returns the reply and the caller acknowledges it.          *)
AcceptSlot(r) ==
  /\ status[r] = "waiting"
  /\ reply[r] # NoSlot
  /\ Send(Msg("ack", r, reply[r]))
  /\ status' = [status EXCEPT ![r] = "holding"]
  /\ held' = [held EXCEPT ![r] = reply[r]]
  /\ UNCHANGED <<brokerVars, reply, failures>>

AckPublishFails(r) ==
  /\ status[r] = "waiting"
  /\ reply[r] # NoSlot
  /\ PublishFails
  /\ DefensiveRelease(r) \/ UNCHANGED inbox
  /\ status' = [status EXCEPT ![r] = "gaveup"]
  /\ UNCHANGED <<brokerVars, reply, held>>

(* WaitForReply gives up, whether or not a reply is on its way, and the    *)
(* caller releases whatever may have been assigned to it.                  *)
SlotTimeout(r) ==
  /\ status[r] = "waiting"
  /\ \/ DefensiveRelease(r) /\ UNCHANGED failures
     \/ PublishFails /\ UNCHANGED inbox
  /\ status' = [status EXCEPT ![r] = "gaveup"]
  /\ UNCHANGED <<brokerVars, reply, held>>

(* The caller is done with the slot, for whatever reason, a preemption     *)
(* signal included.  It forgets the slot even when the publish fails.      *)
ReleaseSlot(r) ==
  /\ status[r] = "holding"
  /\ \/ Send(Msg("release", r, held[r])) /\ UNCHANGED failures
     \/ PublishFails /\ UNCHANGED inbox
  /\ status' = [status EXCEPT ![r] = "released"]
  /\ UNCHANGED <<brokerVars, reply, held>>

(* The agent's process dies with its requests in flight.                   *)
Crash(a) ==
  /\ a \in Mortal
  /\ \E r \in Reqs : AgentOf[r] = a /\ InFlight(r)
  /\ status' = [r \in Reqs |-> IF AgentOf[r] = a /\ InFlight(r)
                               THEN "crashed" ELSE status[r]]
  /\ UNCHANGED <<brokerVars, inbox, reply, held, failures>>

-----------------------------------------------------------------------------
(* assignFromQueue, which any of the goroutines may run.                   *)

(* The goroutine that will revert the offer to r unless it is acknowledged. *)
ScheduleReclaim_Dropped(j, r) == j

ScheduleReclaim(j, r) == [j EXCEPT ![r] = Resting("armed")]

(* b.mu is held from the start of a scan until the request is taken out.   *)
QueueLocked == \E p \in Goroutines : At(p, "scan")

StartScan(p) ==
  /\ At(p, "queue")
  /\ ~QueueLocked
  /\ job' = [job EXCEPT ![p] =
               IF pendingQueue = << >> THEN Finished(p)
               ELSE Scanning(1, 0, NoSlot)]
  /\ UNCHANGED <<slots, pendingQueue, inbox, alive, clientVars, reply, failures>>

(* One round of the loop: the table may change between two rounds.         *)
ScanNext(p) ==
  /\ At(p, "scan")
  /\ job[p].next <= Len(pendingQueue)
  /\ LET i == job[p].next
         r == pendingQueue[i]
         found == FindUnassigned(slots, ReqClass(r))
         better == \/ job[p].best = 0
                   \/ ReqPriority(r) < ReqPriority(pendingQueue[job[p].best])
     IN  IF found # {} /\ better
         THEN \E s \in found :
                job' = [job EXCEPT ![p] = Scanning(i + 1, i, s)]
         ELSE job' = [job EXCEPT ![p] = Scanning(i + 1, job[p].best, job[p].slot)]
  /\ UNCHANGED <<slots, pendingQueue, inbox, alive, clientVars, reply, failures>>

Without_Nothing(queue, i) == queue

(* The queue without its i-th entry.                                       *)
Without(queue, i) ==
  [j \in 1 .. Len(queue) - 1 |-> IF j < i THEN queue[j] ELSE queue[j + 1]]

EndScan(p) ==
  /\ At(p, "scan")
  /\ job[p].next > Len(pendingQueue)
  /\ LET i == job[p].best
     IN  IF i = 0
         THEN /\ job' = [job EXCEPT ![p] = Finished(p)]
              /\ UNCHANGED pendingQueue
         ELSE /\ job' = [job EXCEPT ![p] =
                           Doing("grant", pendingQueue[i], job[p].slot)]
              /\ pendingQueue' = Without(pendingQueue, i)
  /\ UNCHANGED <<slots, inbox, alive, clientVars, reply, failures>>

(* AssignProvisional for the request taken from the queue.                 *)
GrantFromQueue(p) ==
  /\ At(p, "grant")
  /\ LET r == job[p].req
         s == job[p].slot
     IN  IF CanAssign(slots, s)
         THEN /\ slots' = AssignProvisional(slots, s, AgentOf[r], ReqPriority(r), r)
              /\ job' = [job EXCEPT ![p] = Onward(p, "offer")]
         ELSE /\ job' = [job EXCEPT ![p] = Onward(p, "requeue")]
              /\ UNCHANGED slots
  /\ UNCHANGED <<pendingQueue, inbox, alive, clientVars, reply, failures>>

Requeue_Dropped(p) ==
  /\ At(p, "requeue")
  /\ job' = [job EXCEPT ![p] = Finished(p)]
  /\ UNCHANGED <<slots, pendingQueue, inbox, alive, clientVars, reply, failures>>

(* The slot was taken meanwhile: the request goes to the end of the queue. *)
Requeue(p) ==
  /\ At(p, "requeue")
  /\ ~QueueLocked
  /\ pendingQueue' = Append(pendingQueue, job[p].req)
  /\ job' = [job EXCEPT ![p] = Finished(p)]
  /\ UNCHANGED <<slots, inbox, alive, clientVars, reply, failures>>

(* The offer is published and its reclaim scheduled, or reverted at once.  *)
OfferFromQueue(p) ==
  /\ At(p, "offer")
  /\ LET r == job[p].req
     IN  \/ /\ reply' = [reply EXCEPT ![r] = job[p].slot]
            /\ job' = ScheduleReclaim([job EXCEPT ![p] = Finished(p)], r)
            /\ UNCHANGED <<slots, failures>>
         \/ /\ PublishFails
            /\ slots' = RevertProvisional(slots, r)
            /\ job' = [job EXCEPT ![p] = Finished(p)]
            /\ UNCHANGED reply
  /\ UNCHANGED <<pendingQueue, inbox, alive, clientVars>>

-----------------------------------------------------------------------------
(* The slot arbiter: handleMessage on the oldest message of the inbox.     *)

Receive(type) ==
  /\ At(Arbiter, "idle")
  /\ inbox # << >>
  /\ Head(inbox).type = type
  /\ inbox' = Tail(inbox)

(* handleSlotRequest up to FindUnassigned.                                 *)
HandleSlotRequest ==
  /\ Receive("request")
  /\ LET r == Head(inbox).req
         found == FindUnassigned(slots, ReqClass(r))
     IN  \/ /\ ReqClass(r) \notin Classes
            /\ UNCHANGED job
         \/ /\ ReqClass(r) \in Classes
            /\ found = {}
            /\ job' = [job EXCEPT ![Arbiter] = Doing("victim", r, NoSlot)]
         \/ \E s \in found :
              job' = [job EXCEPT ![Arbiter] = Doing("assign", r, s)]
  /\ UNCHANGED <<slots, pendingQueue, alive, clientVars, reply, failures>>

AssignFound ==
  /\ At(Arbiter, "assign")
  /\ LET r == job[Arbiter].req
         s == job[Arbiter].slot
     IN  IF CanAssign(slots, s)
         THEN /\ slots' = AssignProvisional(slots, s, AgentOf[r], ReqPriority(r), r)
              /\ job' = [job EXCEPT ![Arbiter] = Onward(Arbiter, "send")]
         ELSE /\ job' = [job EXCEPT ![Arbiter] = Onward(Arbiter, "enqueue")]
              /\ UNCHANGED slots
  /\ UNCHANGED <<pendingQueue, inbox, alive, clientVars, reply, failures>>

(* sendSlotAssigned and scheduleReclaim.  The reclaim is scheduled even    *)
(* when the publish failed; it then finds nothing to revert.               *)
SendSlotAssigned ==
  /\ At(Arbiter, "send")
  /\ LET r == job[Arbiter].req
     IN  \/ /\ reply' = [reply EXCEPT ![r] = job[Arbiter].slot]
            /\ job' = ScheduleReclaim([job EXCEPT ![Arbiter] = Resting("idle")], r)
            /\ UNCHANGED <<slots, failures>>
         \/ /\ PublishFails
            /\ slots' = RevertProvisional(slots, r)
            /\ job' = ScheduleReclaim(
                 [job EXCEPT ![Arbiter] =
                    Resting(IF ProvisionalOf(slots, r) = {} THEN "idle" ELSE "queue")],
                 r)
            /\ UNCHANGED reply
  /\ UNCHANGED <<pendingQueue, inbox, alive, clientVars>>

(* No slot was free: preempt a less urgent preemptible agent, or queue.    *)
FindVictim ==
  /\ At(Arbiter, "victim")
  /\ LET r == job[Arbiter].req
         victim == {s \in FindLowestPriorityPreemptible(slots, ReqClass(r), Preemptible) :
                      ReqPriority(r) < slots[s].priority}
     IN  \/ /\ victim = {}
            /\ job' = [job EXCEPT ![Arbiter] = Onward(Arbiter, "enqueue")]
         \/ \E s \in victim :
              job' = [job EXCEPT
                ![Arbiter] = Resting("idle"),
                ![r] = Preempting("preempt", r, s, slots[s].agent)]
  /\ UNCHANGED <<slots, pendingQueue, inbox, alive, clientVars, reply, failures>>

Enqueue_Dropped ==
  /\ At(Arbiter, "enqueue")
  /\ job' = [job EXCEPT ![Arbiter] = Resting("idle")]
  /\ UNCHANGED <<slots, pendingQueue, inbox, alive, clientVars, reply, failures>>

Enqueue ==
  /\ At(Arbiter, "enqueue")
  /\ ~QueueLocked
  /\ pendingQueue' = Append(pendingQueue, job[Arbiter].req)
  /\ job' = [job EXCEPT ![Arbiter] = Resting("idle")]
  /\ UNCHANGED <<slots, inbox, alive, clientVars, reply, failures>>

HandleSlotAssignedAck ==
  /\ Receive("ack")
  /\ slots' = CommitAssignment(slots, Head(inbox).req)
  /\ UNCHANGED <<pendingQueue, job, alive, clientVars, reply, failures>>

HandleSlotRelease ==
  /\ Receive("release")
  /\ LET m == Head(inbox)
         a == AgentOf[m.req]
     IN  IF m.slot = NoSlot
         THEN /\ slots' = ReleaseByAgent(slots, a)
              /\ job' = IF HasSlots(slots, a)
                        THEN [job EXCEPT ![Arbiter] = Resting("queue")] ELSE job
         ELSE /\ slots' = Release(slots, m.slot)
              /\ job' = [job EXCEPT ![Arbiter] = Resting("queue")]
  /\ UNCHANGED <<pendingQueue, alive, clientVars, reply, failures>>

-----------------------------------------------------------------------------
(* The goroutine of a request: a scheduled reclaim, or a preemption.       *)

(* The caller has not finished taking the offer: the reply is unread, or   *)
(* its acknowledgement is still in the inbox.  Under Punctual the reclaim  *)
(* timer never fires then.                                                 *)
TakingOffer(r) ==
  \/ status[r] = "waiting" /\ reply[r] # NoSlot
  \/ \E i \in DOMAIN inbox : inbox[i].type = "ack" /\ inbox[i].req = r

ReclaimFires(r) ==
  /\ At(r, "armed")
  /\ Punctual => ~TakingOffer(r)
  /\ slots' = RevertProvisional(slots, r)
  /\ job' = [job EXCEPT ![r] = Resting(IF ProvisionalOf(slots, r) = {}
                                       THEN "exited" ELSE "queue")]
  /\ UNCHANGED <<pendingQueue, inbox, alive, clientVars, reply, failures>>

(* After preemptTimeout: has the victim an assigned slot, any slot?        *)
PreemptTimeout(r) ==
  /\ At(r, "preempt")
  /\ job' = [job EXCEPT ![r] =
               Preempting(IF GetByAgent(slots, job[r].agent) THEN "release" ELSE "force",
                          r, job[r].slot, job[r].agent)]
  /\ UNCHANGED <<slots, pendingQueue, inbox, alive, clientVars, reply, failures>>

ForceRelease(r) ==
  /\ At(r, "release")
  /\ slots' = Release(slots, job[r].slot)
  /\ alive' = [alive EXCEPT ![job[r].agent] = FALSE]
  /\ job' = [job EXCEPT ![r] = Onward(r, "force")]
  /\ UNCHANGED <<pendingQueue, inbox, clientVars, reply, failures>>

ForceAssignSlot(r) ==
  /\ At(r, "force")
  /\ slots' = ForceAssign(slots, job[r].slot, AgentOf[r], ReqPriority(r))
  /\ job' = [job EXCEPT ![r] = Onward(r, "notify")]
  /\ UNCHANGED <<pendingQueue, inbox, alive, clientVars, reply, failures>>

(* sendSlotAssigned once more; here no reclaim follows, and a failed       *)
(* publish finds no provisional slot to revert.                            *)
NotifyPreemptor(r) ==
  /\ At(r, "notify")
  /\ \/ /\ reply' = [reply EXCEPT ![r] = job[r].slot]
        /\ job' = [job EXCEPT ![r] = Finished(r)]
        /\ UNCHANGED <<slots, failures>>
     \/ /\ PublishFails
        /\ slots' = RevertProvisional(slots, r)
        /\ job' = [job EXCEPT ![r] = IF ProvisionalOf(slots, r) = {}
                                     THEN Finished(r) ELSE Resting("queue")]
        /\ UNCHANGED reply
  /\ UNCHANGED <<pendingQueue, inbox, alive, clientVars>>

-----------------------------------------------------------------------------
(* The heartbeat monitor of an agent and handleDeadAgent.  The monitor     *)
(* goroutine returns once it has fired.  Under Punctual it fires only when *)
(* the agent is not at work and the arbiter has consumed all it has sent.  *)

AtWork(a) ==
  \/ \E r \in Reqs : AgentOf[r] = a /\ InFlight(r)
  \/ \E i \in DOMAIN inbox : AgentOf[inbox[i].req] = a

HeartbeatExpires(a) ==
  /\ a \in Mortal
  /\ At(a, "watch")
  /\ Punctual => ~AtWork(a)
  /\ alive' = [alive EXCEPT ![a] = FALSE]
  /\ slots' = ReleaseByAgent(slots, a)
  /\ job' = [job EXCEPT ![a] = Resting(IF HasSlots(slots, a)
                                       THEN "queue" ELSE "exited")]
  /\ UNCHANGED <<pendingQueue, inbox, clientVars, reply, failures>>

Heartbeat(a) ==
  /\ At(a, "watch")
  /\ ~alive[a]
  /\ alive' = [alive EXCEPT ![a] = TRUE]
  /\ UNCHANGED <<slots, pendingQueue, inbox, job, clientVars, reply, failures>>

-----------------------------------------------------------------------------
(* Grouped by who takes the step.                                          *)

CallerStep(r) ==
  \/ RequestSlot(r)
  \/ RequestPublishFails(r)
  \/ AcceptSlot(r)
  \/ AckPublishFails(r)
  \/ SlotTimeout(r)
  \/ ReleaseSlot(r)

ArbiterStep ==
  \/ HandleSlotRequest
  \/ AssignFound
  \/ SendSlotAssigned
  \/ FindVictim
  \/ Enqueue
  \/ HandleSlotAssignedAck
  \/ HandleSlotRelease

TimerStep(r) ==
  \/ ReclaimFires(r)
  \/ PreemptTimeout(r)
  \/ ForceRelease(r)
  \/ ForceAssignSlot(r)
  \/ NotifyPreemptor(r)

AssignFromQueueStep(p) ==
  \/ StartScan(p)
  \/ ScanNext(p)
  \/ EndScan(p)
  \/ GrantFromQueue(p)
  \/ Requeue(p)
  \/ OfferFromQueue(p)

Next ==
  \/ \E r \in Reqs : CallerStep(r) \/ TimerStep(r)
  \/ \E a \in Agents : Crash(a) \/ HeartbeatExpires(a) \/ Heartbeat(a)
  \/ ArbiterStep
  \/ \E p \in Goroutines : AssignFromQueueStep(p)

Spec == Init /\ [][Next]_vars

(* The Go scheduler runs every goroutine that can run, and every sleep     *)
(* ends: each goroutine of the broker is weakly fair.  Nothing is assumed  *)
(* of the callers, and nothing of a heartbeat being missed.                *)
Fairness ==
  /\ WF_vars(ArbiterStep)
  /\ \A r \in Reqs : WF_vars(TimerStep(r))
  /\ \A p \in Goroutines : WF_vars(AssignFromQueueStep(p))

FairSpec == Spec /\ Fairness

-----------------------------------------------------------------------------
(* Properties.                                                             *)

(* Every variable keeps its type.                                          *)
TypeOK ==
  /\ slots \in [SlotId -> SlotEntry]
  /\ pendingQueue \in Seq(Reqs)
  /\ inbox \in Seq(Message)
  /\ job \in [Goroutines -> Job]
  /\ alive \in [Agents -> BOOLEAN]
  /\ status \in [Reqs -> {"idle", "waiting", "holding", "released", "gaveup", "crashed"}]
  /\ reply \in [Reqs -> SlotId \cup {NoSlot}]
  /\ held \in [Reqs -> SlotId \cup {NoSlot}]
  /\ failures \in 0 .. MaxFailures

(* No cross-class service: a slot is only ever offered, assigned or handed *)
(* to an agent that asked for the slot's class, be it found free by        *)
(* handleSlotRequest, taken from the queue or seized by a preemption.      *)
ClassIsolation ==
  /\ \A s \in SlotId : slots[s].state # "unassigned" =>
       ClassOf(s) = NormalizeClass(SlotClass[slots[s].agent])
  /\ \A r \in Reqs : reply[r] # NoSlot => ClassOf(reply[r]) = ReqClass(r)

(* The places a request can be in before it is answered: in the inbox, in  *)
(* the queue, or in the hands of a goroutine.                              *)
InInbox(r) == {i \in DOMAIN inbox : inbox[i].type = "request" /\ inbox[i].req = r}
InQueue(r) == {i \in DOMAIN pendingQueue : pendingQueue[i] = r}
Carrying == {"assign", "send", "victim", "enqueue", "grant", "requeue", "offer"}
InHand(r) == {p \in Goroutines : job[p].pc \in Carrying /\ job[p].req = r}
Unanswered == {"none", "preempt", "release", "force", "notify"}
AtMostOne(S) == \A x, y \in S : x = y

(* A request is in one place at a time, and once its own goroutine has     *)
(* been started (its slot was offered, or a preemption began) it is in     *)
(* none: enqueue, the re-enqueue after a collision and the removal by      *)
(* assignFromQueue never duplicate a request, and one that has its answer  *)
(* is worked on by nobody, so none is served twice.                        *)
SingleCustody ==
  \A r \in Reqs :
    /\ AtMostOne(InInbox(r))
    /\ AtMostOne(InQueue(r))
    /\ AtMostOne(InHand(r))
    /\ InInbox(r) # {} => InQueue(r) = {} /\ InHand(r) = {} /\ At(r, "none")
    /\ InQueue(r) # {} => InHand(r) = {} /\ At(r, "none")
    /\ InHand(r) # {} => At(r, "none")
    /\ reply[r] # NoSlot => job[r].pc \notin Unanswered

(* No provisional slot is forgotten: each has the goroutine that offers it *)
(* still at work on it, or a reclaim timer armed for its correlation id,   *)
(* and no two slots are offered under one correlation id, so the timer     *)
(* and the acknowledgement find the right one.                             *)
ProvisionalWatched ==
  \A s \in SlotId : slots[s].state = "provisional" =>
    /\ \/ At(slots[s].corr, "armed")
       \/ \E p \in Goroutines : /\ job[p].pc \in {"send", "offer"}
                                /\ job[p].req = slots[s].corr
                                /\ job[p].slot = s
    /\ \A x \in SlotId : slots[x].corr = slots[s].corr => x = s

(* As long as every publish succeeds, a request for a known class that its *)
(* caller waits on is on its way to the broker, queued, being worked on,   *)
(* or answered: no interleaving of the goroutines drops it.                *)
NoLostRequest ==
  \A r \in Reqs :
    (failures = 0 /\ status[r] = "waiting" /\ ReqClass(r) \in Classes) =>
      \/ InInbox(r) \cup InQueue(r) \cup InHand(r) # {}
      \/ job[r].pc \in Unanswered \ {"none"}
      \/ reply[r] # NoSlot

(* The reply to a request is published once: no second goroutine offers a  *)
(* slot to a caller that already has an answer.                            *)
ReplyOnce ==
  [][\A r \in Reqs : reply[r] # NoSlot => reply'[r] = reply[r]]_vars

(* A caller that holds a slot is the slot's owner in the table, so the     *)
(* ownership test of handleLLMRequest never refuses it, and it is the only *)
(* caller that holds it.                                                   *)
HolderOwnsSlot ==
  \A r \in Reqs : status[r] = "holding" =>
    /\ slots[held[r]].state # "unassigned"
    /\ slots[held[r]].agent = AgentOf[r]
    /\ \A q \in Reqs \ {r} : status[q] = "holding" => held[q] # held[r]

(* Every offer is settled: the slot stops being provisional for that       *)
(* correlation id, by its acknowledgement, its reclaim or a release.       *)
OffersSettle ==
  \A s \in SlotId, r \in Reqs : slots[s].corr = r ~> slots[s].corr # r

-----------------------------------------------------------------------------
(* What the repository's documents say of the broker and the code does not *)
(* do: a behaviour of Spec violates it.                                    *)

(* "the broker queues the request and responds when a slot becomes         *)
(* available": once nothing is left to consume and every goroutine has     *)
(* come to rest, no caller waits in the queue for a slot of its class that *)
(* is free.                                                                *)
NoStrandedRequest ==
  (inbox = << >> /\ \A p \in Goroutines : job[p].pc \in {"idle", "none", "exited", "watch"}) =>
    \A i \in DOMAIN pendingQueue : status[pendingQueue[i]] = "waiting" =>
      FindUnassigned(slots, ReqClass(pendingQueue[i])) = {}
=============================================================================
