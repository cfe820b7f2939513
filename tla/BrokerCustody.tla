--------------------------- MODULE BrokerCustody ----------------------------
(***************************************************************************)
(* The inductive invariant of Broker, lemmas about the slot table and the  *)
(* shapes of jobs, and that a step keeps the types of the variables, every *)
(* goroutine and every scan of the queue in shape, and the classes apart.  *)
(* Then where a request is: what the callers, the timers and the agents do *)
(* to its custody, and what answering it does.                             *)
(***************************************************************************)
EXTENDS Broker, TLAPS

-----------------------------------------------------------------------------
(* The inductive invariant.                                                *)

QueueLabels == {"queue", "scan", "grant", "requeue", "offer"}
ArbiterLabels == {"idle", "assign", "send", "victim", "enqueue"} \cup QueueLabels
TimerLabels ==
  {"none", "armed", "preempt", "release", "force", "notify", "exited"} \cup QueueLabels
MonitorLabels == {"watch", "exited"} \cup QueueLabels
SlotLabels == {"assign", "send", "grant", "requeue", "offer"}
PreemptLabels == {"preempt", "release", "force", "notify"}

(* Which labels goroutine p can be at, and what its locals are there: in   *)
(* particular a slot that was picked for a request has the request's class. *)
JobOK(p, j) ==
  /\ j \in Job
  /\ p = Arbiter => j.pc \in ArbiterLabels
  /\ p \in Reqs => j.pc \in TimerLabels
  /\ p \in Agents => j.pc \in MonitorLabels
  /\ j.pc \in Carrying => j.req \in Reqs
  /\ j.pc \in SlotLabels => j.slot \in SlotId /\ ClassOf(j.slot) = ReqClass(j.req)
  /\ j.pc \in PreemptLabels => j.slot \in SlotId /\ ClassOf(j.slot) = ReqClass(p)
  /\ j.pc \in {"preempt", "release"} => j.agent \in Agents

JobShape == \A p \in Goroutines : JobOK(p, job[p])

(* The queue's lock: one scan at a time, and what the scan remembers of    *)
(* the queue is still true of it.                                          *)
ScanShape ==
  /\ \A p, q \in Goroutines : At(p, "scan") /\ At(q, "scan") => p = q
  /\ \A p \in Goroutines : At(p, "scan") =>
       /\ job[p].next # 0
       /\ job[p].best <= Len(pendingQueue)
       /\ job[p].best # 0 =>
            /\ job[p].slot \in SlotId
            /\ ClassOf(job[p].slot) = ReqClass(pendingQueue[job[p].best])

(* A request that has not been made is nowhere.                            *)
FreshRequests ==
  \A r \in Reqs : status[r] = "idle" =>
    /\ InInbox(r) = {}
    /\ InQueue(r) = {}
    /\ InHand(r) = {}
    /\ At(r, "none")

IInv ==
  /\ TypeOK
  /\ JobShape
  /\ ScanShape
  /\ FreshRequests
  /\ SingleCustody
  /\ ProvisionalWatched
  /\ ClassIsolation
  /\ NoLostRequest

-----------------------------------------------------------------------------
(* What the operators return.                                              *)

(* A slot that FindUnassigned returns is a free slot of the class.         *)
LEMMA FindUnassignedFinds ==
  ASSUME NEW t, NEW c, NEW s \in FindUnassigned(t, c)
  PROVE  s \in SlotId /\ ClassOf(s) = c /\ t[s].state = "unassigned"
BY Zenon DEF FindUnassigned

(* The victim FindLowestPriorityPreemptible returns is an assigned slot of *)
(* the class.                                                              *)
LEMMA FindVictimFinds ==
  ASSUME NEW t, NEW c, NEW P, NEW s \in FindLowestPriorityPreemptible(t, c, P)
  PROVE  s \in SlotId /\ ClassOf(s) = c /\ t[s].state = "assigned"
BY Zenon DEF FindLowestPriorityPreemptible

(* ProvisionalOf returns slots offered under the correlation id.           *)
LEMMA ProvisionalOfFinds ==
  ASSUME NEW t, NEW r, NEW s \in ProvisionalOf(t, r)
  PROVE  s \in SlotId /\ t[s].state = "provisional" /\ t[s].corr = r
BY Zenon DEF ProvisionalOf

(* Every update of the slot table yields a slot table.                     *)
LEMMA TableTypes ==
  ASSUME NEW t \in [SlotId -> SlotEntry]
  PROVE  /\ \A s \in SlotId, a \in Agents, n \in Int, r \in Reqs :
              AssignProvisional(t, s, a, n, r) \in [SlotId -> SlotEntry]
         /\ \A r \in Reqs : CommitAssignment(t, r) \in [SlotId -> SlotEntry]
         /\ \A r \in Reqs : RevertProvisional(t, r) \in [SlotId -> SlotEntry]
         /\ \A s \in SlotId, a \in Agents, n \in Int :
              ForceAssign(t, s, a, n) \in [SlotId -> SlotEntry]
         /\ \A s \in SlotId : Release(t, s) \in [SlotId -> SlotEntry]
         /\ \A a \in Agents : ReleaseByAgent(t, a) \in [SlotId -> SlotEntry]
<1>1. Unassigned \in SlotEntry
  BY TableAssumption DEF Unassigned, SlotEntry, States
<1>2. \A a \in Agents, n \in Int, r \in Reqs :
        [state |-> "provisional", agent |-> a, priority |-> n, corr |-> r] \in SlotEntry
  BY TableAssumption, Zenon DEF SlotEntry, States
<1>3. \A a \in Agents, n \in Int :
        [state |-> "assigned", agent |-> a, priority |-> n, corr |-> NoReq] \in SlotEntry
  BY TableAssumption, Zenon DEF SlotEntry, States
<1>4. ASSUME NEW r \in Reqs PROVE CommitAssignment(t, r) \in [SlotId -> SlotEntry]
  <2>1. ASSUME NEW x \in SlotId, x \in ProvisionalOf(t, r)
        PROVE  [state |-> "assigned", agent |-> t[x].agent,
                priority |-> t[x].priority, corr |-> NoReq] \in SlotEntry
    BY <2>1, ProvisionalOfFinds, Zenon DEF SlotEntry, States
  <2> QED
    BY <2>1, Zenon DEF CommitAssignment
<1> QED
  BY <1>1, <1>2, <1>3, <1>4, Zenon
     DEF AssignProvisional, RevertProvisional, ForceAssign, Release, ReleaseByAgent

(* Removing an entry from the queue keeps all the others, in order.        *)
LEMMA WithoutRemoves ==
  ASSUME NEW S, NEW q \in Seq(S), NEW i \in 1 .. Len(q)
  PROVE  /\ Without(q, i) \in Seq(S)
         /\ Len(Without(q, i)) = Len(q) - 1
         /\ \A j \in 1 .. Len(q) - 1 :
              Without(q, i)[j] = IF j < i THEN q[j] ELSE q[j + 1]
BY DEF Without

(* The goroutines are distinct.                                            *)
LEMMA Distinct ==
  /\ Arbiter \in Goroutines /\ Reqs \subseteq Goroutines /\ Agents \subseteq Goroutines
  /\ Arbiter \notin Reqs /\ Arbiter \notin Agents
  /\ \A r \in Reqs : r \notin Agents
BY BrokerAssumption, Zenon DEF Goroutines

(* The jobs the actions set are jobs of the right shape.                   *)
LEMMA JobShapes ==
  /\ \A l \in {"idle", "queue"} : JobOK(Arbiter, Resting(l))
  /\ \A r \in Reqs, l \in {"armed", "exited", "queue"} : JobOK(r, Resting(l))
  /\ \A a \in Agents, l \in {"exited", "queue"} : JobOK(a, Resting(l))
  /\ \A p \in Goroutines : JobOK(p, Finished(p))
  /\ \A p \in Goroutines, i, b \in Nat, s \in SlotId \cup {NoSlot} :
       JobOK(p, Scanning(i, b, s))
  /\ \A p \in Goroutines, l \in {"grant", "requeue", "offer"}, r \in Reqs, s \in SlotId :
       ClassOf(s) = ReqClass(r) => JobOK(p, Doing(l, r, s))
  /\ \A l \in {"assign", "send"}, r \in Reqs, s \in SlotId :
       ClassOf(s) = ReqClass(r) => JobOK(Arbiter, Doing(l, r, s))
  /\ \A l \in {"victim", "enqueue"}, r \in Reqs, s \in SlotId \cup {NoSlot} :
       JobOK(Arbiter, Doing(l, r, s))
  /\ \A r, q \in Reqs, l \in PreemptLabels, s \in SlotId, a \in Agents :
       ClassOf(s) = ReqClass(r) => JobOK(r, Preempting(l, q, s, a))
  /\ \A r \in Reqs, q \in Reqs \cup {NoReq}, l \in {"force", "notify"}, s \in SlotId :
       ClassOf(s) = ReqClass(r) => JobOK(r, Doing(l, q, s))
<1> USE Distinct DEF JobOK, Job, Labels, ArbiterLabels, TimerLabels, MonitorLabels,
       QueueLabels, Carrying, SlotLabels, PreemptLabels, Resting, Doing, Preempting
<1>1. \A l \in {"idle", "queue"} : JobOK(Arbiter, Resting(l))
  BY Zenon
<1>2. \A r \in Reqs, l \in {"armed", "exited", "queue"} : JobOK(r, Resting(l))
  OBVIOUS
<1>3. \A a \in Agents, l \in {"exited", "queue"} : JobOK(a, Resting(l))
  OBVIOUS
<1>4. \A p \in Goroutines : JobOK(p, Finished(p))
  BY DEF Finished, Goroutines
<1>5. \A p \in Goroutines, i, b \in Nat, s \in SlotId \cup {NoSlot} :
        JobOK(p, Scanning(i, b, s))
  BY DEF Scanning, Goroutines
<1>6. \A p \in Goroutines, l \in {"grant", "requeue", "offer"}, r \in Reqs, s \in SlotId :
        ClassOf(s) = ReqClass(r) => JobOK(p, Doing(l, r, s))
  BY DEF Goroutines
<1>7. \A l \in {"assign", "send"}, r \in Reqs, s \in SlotId :
        ClassOf(s) = ReqClass(r) => JobOK(Arbiter, Doing(l, r, s))
  OBVIOUS
<1>8. \A l \in {"victim", "enqueue"}, r \in Reqs, s \in SlotId \cup {NoSlot} :
        JobOK(Arbiter, Doing(l, r, s))
  OBVIOUS
<1>9. \A r, q \in Reqs, l \in PreemptLabels, s \in SlotId, a \in Agents :
        ClassOf(s) = ReqClass(r) => JobOK(r, Preempting(l, q, s, a))
  OBVIOUS
<1>10. \A r \in Reqs, q \in Reqs \cup {NoReq}, l \in {"force", "notify"}, s \in SlotId :
        ClassOf(s) = ReqClass(r) => JobOK(r, Doing(l, q, s))
  OBVIOUS
<1> QED
  BY ONLY <1>1, <1>2, <1>3, <1>4, <1>5, <1>6, <1>7, <1>8, <1>9, <1>10, Zenon

-----------------------------------------------------------------------------
(* Types and shapes are preserved by every step.                           *)

(* The labels of the callers' steps, which leave the broker alone.         *)
LEMMA CallersKeepBroker ==
  ASSUME NEW r \in Reqs, CallerStep(r)
  PROVE  UNCHANGED <<slots, pendingQueue, job, alive, reply>>
BY Zenon DEF CallerStep, RequestSlot, RequestPublishFails, AcceptSlot, AckPublishFails,
       SlotTimeout, ReleaseSlot, brokerVars

(* The oldest message of a non-empty inbox is a message.                   *)
LEMMA HeadIsMessage ==
  ASSUME TypeOK, NEW type, Receive(type)
  PROVE  /\ Head(inbox).req \in Reqs
         /\ Head(inbox).slot \in SlotId \cup {NoSlot}
         /\ AgentOf[Head(inbox).req] \in Agents
<1>1. Head(inbox) \in Message
  BY DEF TypeOK, Receive
<1> QED
  BY <1>1, BrokerAssumption, Zenon DEF Message

(* The slot table keeps its type.                                          *)
LEMMA SlotsType ==
  ASSUME TypeOK, JobShape, [Next]_vars
  PROVE  slots' \in [SlotId -> SlotEntry]
<1> DEFINE Table == [SlotId -> SlotEntry]
<1>0. slots \in Table
  BY Zenon DEF TypeOK
<1>1. \A r \in Reqs : AgentOf[r] \in Agents /\ ReqPriority(r) \in Int
  BY BrokerAssumption, Zenon DEF ReqPriority
<1>2. \A p \in Goroutines : job[p].pc \in {"grant", "assign"} =>
        job[p].req \in Reqs /\ job[p].slot \in SlotId
  BY Zenon DEF JobShape, JobOK, Carrying, SlotLabels
<1>3. \A p \in Goroutines : job[p].pc \in {"send", "offer"} => job[p].req \in Reqs
  BY Zenon DEF JobShape, JobOK, Carrying
<1>4. \A r \in Reqs : job[r].pc \in {"release", "force"} => job[r].slot \in SlotId
  BY Distinct, Zenon DEF JobShape, JobOK, PreemptLabels
<1>5. ASSUME NEW r \in Reqs, CallerStep(r) PROVE slots' \in Table
  BY <1>0, <1>5, CallersKeepBroker, Zenon
<1>6. ASSUME NEW r \in Reqs, TimerStep(r) PROVE slots' \in Table
  BY <1>0, <1>1, <1>4, <1>6, TableTypes
     DEF TimerStep, ReclaimFires, PreemptTimeout, ForceRelease, ForceAssignSlot,
         NotifyPreemptor, At
<1>7. ASSUME NEW a \in Agents, Crash(a) \/ HeartbeatExpires(a) \/ Heartbeat(a)
      PROVE  slots' \in Table
  <2>1. CASE HeartbeatExpires(a)
    BY <1>0, <2>1, TableTypes, Zenon DEF HeartbeatExpires
  <2>2. CASE Crash(a) \/ Heartbeat(a)
    BY <1>0, <2>2, Zenon DEF Crash, Heartbeat, brokerVars
  <2> QED
    BY <1>7, <2>1, <2>2, Zenon
<1>8. ASSUME NEW p \in Goroutines, AssignFromQueueStep(p) PROVE slots' \in Table
  <2>1. CASE GrantFromQueue(p)
    BY <1>0, <1>1, <1>2, <2>1, TableTypes DEF GrantFromQueue, At
  <2>2. CASE OfferFromQueue(p)
    BY <1>0, <1>3, <2>2, TableTypes DEF OfferFromQueue, At
  <2> QED
    BY <1>0, <1>8, <2>1, <2>2, Zenon DEF AssignFromQueueStep, StartScan, ScanNext, EndScan, Requeue
<1>9. CASE ArbiterStep
  <2>1. CASE AssignFound
    BY <1>0, <1>1, <1>2, <2>1, Distinct, TableTypes DEF AssignFound, At
  <2>2. CASE SendSlotAssigned
    BY <1>0, <1>3, <2>2, Distinct, TableTypes DEF SendSlotAssigned, At
  <2>3. CASE HandleSlotAssignedAck
    BY <1>0, <2>3, HeadIsMessage, TableTypes, Zenon DEF HandleSlotAssignedAck
  <2>4. CASE HandleSlotRelease
    BY <1>0, <2>4, HeadIsMessage, TableTypes DEF HandleSlotRelease
  <2> QED
    BY <1>0, <1>9, <2>1, <2>2, <2>3, <2>4, Zenon
       DEF ArbiterStep, HandleSlotRequest, FindVictim, Enqueue
<1> QED
  BY <1>0, <1>5, <1>6, <1>7, <1>8, <1>9, Zenon DEF Next, vars

(* The queue keeps its type.                                               *)
LEMMA QueueType ==
  ASSUME TypeOK, JobShape, ScanShape, [Next]_vars
  PROVE  pendingQueue' \in Seq(Reqs)
<1>0. pendingQueue \in Seq(Reqs)
  BY Zenon DEF TypeOK
<1>1. \A p \in Goroutines : job[p].pc \in {"requeue", "enqueue"} => job[p].req \in Reqs
  BY Zenon DEF JobShape, JobOK, Carrying
<1>2. ASSUME NEW r \in Reqs, CallerStep(r) PROVE pendingQueue' \in Seq(Reqs)
  BY <1>0, <1>2, CallersKeepBroker, Zenon
<1>3. ASSUME NEW p \in Goroutines, AssignFromQueueStep(p) PROVE pendingQueue' \in Seq(Reqs)
  <2>1. CASE EndScan(p)
    <3>1. job[p].best \in Nat /\ job[p].best <= Len(pendingQueue)
      BY <2>1, Zenon DEF EndScan, At, ScanShape, TypeOK, Job
    <3>2. CASE job[p].best = 0
      BY <1>0, <2>1, <3>2, Zenon DEF EndScan
    <3>3. CASE job[p].best # 0
      <4>1. job[p].best \in 1 .. Len(pendingQueue)
        BY <1>0, <3>1, <3>3
      <4> QED
        BY <1>0, <2>1, <3>3, <4>1, WithoutRemoves DEF EndScan
    <3> QED
      BY <3>2, <3>3, Zenon
  <2>2. CASE Requeue(p)
    BY <1>0, <1>1, <2>2 DEF Requeue, At
  <2> QED
    BY <1>0, <1>3, <2>1, <2>2, Zenon
       DEF AssignFromQueueStep, StartScan, ScanNext, GrantFromQueue, OfferFromQueue
<1>4. CASE ArbiterStep
  <2>1. CASE Enqueue
    BY <1>0, <1>1, <2>1, Distinct DEF Enqueue, At
  <2> QED
    BY <1>0, <1>4, <2>1, Zenon DEF ArbiterStep, HandleSlotRequest, AssignFound, SendSlotAssigned,
       FindVictim, HandleSlotAssignedAck, HandleSlotRelease
<1> QED
  BY <1>0, <1>2, <1>3, <1>4, Zenon
     DEF Next, vars, TimerStep, ReclaimFires, PreemptTimeout, ForceRelease, ForceAssignSlot,
         NotifyPreemptor, Crash, HeartbeatExpires, Heartbeat, brokerVars

(* The inbox keeps its type.                                               *)
LEMMA InboxType ==
  ASSUME TypeOK, [Next]_vars
  PROVE  inbox' \in Seq(Message)
<1>0. inbox \in Seq(Message)
  BY Zenon DEF TypeOK
<1>1. ASSUME NEW m \in Message, Send(m) PROVE inbox' \in Seq(Message)
  BY <1>0, <1>1 DEF Send
<1>2. ASSUME NEW r \in Reqs, CallerStep(r) PROVE inbox' \in Seq(Message)
  <2>1. /\ Msg("request", r, NoSlot) \in Message
        /\ Msg("release", r, NoSlot) \in Message
        /\ Msg("release", r, held[r]) \in Message
        /\ Msg("ack", r, reply[r]) \in Message
    BY Zenon DEF Msg, Message, TypeOK
  <2> QED
    BY <1>0, <1>1, <1>2, <2>1, Zenon
       DEF CallerStep, RequestSlot, RequestPublishFails, AcceptSlot, AckPublishFails,
           SlotTimeout, ReleaseSlot, DefensiveRelease
<1>3. ASSUME NEW type, Receive(type) PROVE inbox' \in Seq(Message)
  BY <1>0, <1>3 DEF Receive
<1> QED
  BY <1>0, <1>2, <1>3, Zenon
     DEF Next, vars, TimerStep, ReclaimFires, PreemptTimeout, ForceRelease, ForceAssignSlot,
         NotifyPreemptor, Crash, HeartbeatExpires, Heartbeat, brokerVars,
         ArbiterStep, HandleSlotRequest, AssignFound, SendSlotAssigned, FindVictim, Enqueue,
         HandleSlotAssignedAck, HandleSlotRelease, AssignFromQueueStep, StartScan, ScanNext,
         EndScan, GrantFromQueue, Requeue, OfferFromQueue

(* The variables of the callers and of the registry keep their types.      *)
LEMMA CallerTypes ==
  ASSUME TypeOK, JobShape, [Next]_vars
  PROVE  /\ alive' \in [Agents -> BOOLEAN]
         /\ status' \in [Reqs -> {"idle", "waiting", "holding", "released", "gaveup", "crashed"}]
         /\ reply' \in [Reqs -> SlotId \cup {NoSlot}]
         /\ held' \in [Reqs -> SlotId \cup {NoSlot}]
         /\ failures' \in 0 .. MaxFailures
<1> DEFINE Statuses == {"idle", "waiting", "holding", "released", "gaveup", "crashed"}
<1> DEFINE OK == /\ alive' \in [Agents -> BOOLEAN]
                 /\ status' \in [Reqs -> Statuses]
                 /\ reply' \in [Reqs -> SlotId \cup {NoSlot}]
                 /\ held' \in [Reqs -> SlotId \cup {NoSlot}]
                 /\ failures' \in 0 .. MaxFailures
<1>0. /\ alive \in [Agents -> BOOLEAN]
      /\ status \in [Reqs -> Statuses]
      /\ reply \in [Reqs -> SlotId \cup {NoSlot}]
      /\ held \in [Reqs -> SlotId \cup {NoSlot}]
      /\ failures \in 0 .. MaxFailures
  BY Zenon DEF TypeOK
<1>1. PublishFails => failures' \in 0 .. MaxFailures
  BY <1>0, BrokerAssumption DEF PublishFails
<1>2. \A p \in Goroutines : job[p].pc \in {"send", "offer"} =>
        job[p].req \in Reqs /\ job[p].slot \in SlotId
  BY Zenon DEF JobShape, JobOK, Carrying, SlotLabels
<1>3. \A r \in Reqs : job[r].pc = "notify" => job[r].slot \in SlotId
  BY Distinct, Zenon DEF JobShape, JobOK, PreemptLabels
<1>4. ASSUME NEW r \in Reqs, CallerStep(r) PROVE OK
  <2>1. alive' \in [Agents -> BOOLEAN] /\ reply' \in [Reqs -> SlotId \cup {NoSlot}]
    BY <1>0, <1>4, CallersKeepBroker, Zenon
  <2>2. status' \in [Reqs -> Statuses]
    BY <1>0, <1>4
       DEF CallerStep, RequestSlot, RequestPublishFails, AcceptSlot, AckPublishFails,
           SlotTimeout, ReleaseSlot
  <2>3. held' \in [Reqs -> SlotId \cup {NoSlot}] /\ failures' \in 0 .. MaxFailures
    BY <1>0, <1>1, <1>4, Zenon
       DEF CallerStep, RequestSlot, RequestPublishFails, AcceptSlot, AckPublishFails,
           SlotTimeout, ReleaseSlot
  <2> QED
    BY <2>1, <2>2, <2>3, Zenon
<1>5. ASSUME NEW r \in Reqs, TimerStep(r) PROVE OK
  <2>1. CASE NotifyPreemptor(r)
    BY <1>0, <1>1, <1>3, <2>1, Zenon DEF NotifyPreemptor, clientVars, At
  <2> QED
    BY <1>0, <1>5, <2>1, Zenon
       DEF TimerStep, ReclaimFires, PreemptTimeout, ForceRelease, ForceAssignSlot, clientVars
<1>6. ASSUME NEW a \in Agents, Crash(a) \/ HeartbeatExpires(a) \/ Heartbeat(a) PROVE OK
  BY <1>0, <1>6, Zenon DEF Crash, HeartbeatExpires, Heartbeat, brokerVars, clientVars
<1>7. ASSUME NEW p \in Goroutines, AssignFromQueueStep(p) PROVE OK
  <2>1. CASE OfferFromQueue(p)
    BY <1>0, <1>1, <1>2, <2>1, Zenon DEF OfferFromQueue, clientVars, At
  <2> QED
    BY <1>0, <1>7, <2>1, Zenon
       DEF AssignFromQueueStep, StartScan, ScanNext, EndScan, GrantFromQueue, Requeue, clientVars
<1>8. CASE ArbiterStep
  <2>1. CASE SendSlotAssigned
    BY <1>0, <1>1, <1>2, <2>1, Distinct, Zenon DEF SendSlotAssigned, clientVars, At
  <2> QED
    BY <1>0, <1>8, <2>1, Zenon
       DEF ArbiterStep, HandleSlotRequest, AssignFound, FindVictim, Enqueue,
           HandleSlotAssignedAck, HandleSlotRelease, clientVars
<1>9. CASE UNCHANGED vars
  BY <1>0, <1>9, Zenon DEF vars
<1> QED
  BY <1>4, <1>5, <1>6, <1>7, <1>8, <1>9, Zenon DEF Next

-----------------------------------------------------------------------------
(* Goroutines and scans stay in shape.                                     *)

(* A goroutine that is given a job of its shape keeps every job in shape.  *)
LEMMA JobUpdate ==
  ASSUME JobShape, job \in [Goroutines -> Job],
         NEW p \in Goroutines, NEW j, JobOK(p, j), job' = [job EXCEPT ![p] = j]
  PROVE  job' \in [Goroutines -> Job] /\ JobShape'
BY DEF JobShape, JobOK

(* Scheduling a reclaim as well.                                           *)
LEMMA JobUpdateReclaim ==
  ASSUME JobShape, job \in [Goroutines -> Job],
         NEW p \in Goroutines, NEW j, JobOK(p, j), NEW r \in Reqs,
         job' = ScheduleReclaim([job EXCEPT ![p] = j], r)
  PROVE  job' \in [Goroutines -> Job] /\ JobShape'
<1>1. r \in Goroutines /\ JobOK(r, Resting("armed"))
  BY Distinct, JobShapes, Zenon
<1> QED
  BY <1>1 DEF JobShape, JobOK, ScheduleReclaim

(* Every goroutine keeps its shape.                                        *)
LEMMA JobShapeStep ==
  ASSUME TypeOK, JobShape, ScanShape, [Next]_vars
  PROVE  job' \in [Goroutines -> Job] /\ JobShape'
<1> DEFINE OK == job' \in [Goroutines -> Job] /\ JobShape'
<1>0. job \in [Goroutines -> Job]
  BY Zenon DEF TypeOK
<1>1. ASSUME UNCHANGED job PROVE OK
  BY <1>0, <1>1, Zenon DEF JobShape
<1>2. ASSUME NEW r \in Reqs, CallerStep(r) PROVE OK
  BY <1>1, <1>2, CallersKeepBroker, Zenon
<1>3. ASSUME NEW r \in Reqs, TimerStep(r) PROVE OK
  <2>0. r \in Goroutines
    BY Distinct, Zenon
  <2>1. job[r].pc \in PreemptLabels => job[r].slot \in SlotId /\ ClassOf(job[r].slot) = ReqClass(r)
    BY <2>0, Zenon DEF JobShape, JobOK
  <2>2. job[r].req \in Reqs \cup {NoReq}
    BY <1>0, <2>0, Zenon DEF Job
  <2>3. CASE ReclaimFires(r)
    BY <1>0, <2>0, <2>3, JobShapes, JobUpdate DEF ReclaimFires
  <2>4. CASE PreemptTimeout(r)
    <3>1. job[r].agent \in Agents
      BY <2>0, <2>4, Zenon DEF PreemptTimeout, At, JobShape, JobOK
    <3>2. \A l \in {"release", "force"} : JobOK(r, Preempting(l, r, job[r].slot, job[r].agent))
      BY <2>1, <2>4, <3>1, JobShapes DEF PreemptTimeout, At, PreemptLabels
    <3> QED
      BY <1>0, <2>0, <2>4, <3>2, JobUpdate, Zenon DEF PreemptTimeout
  <2>5. CASE ForceRelease(r)
    <3>1. JobOK(r, Onward(r, "force"))
      BY <2>1, <2>2, <2>5, JobShapes, Zenon DEF ForceRelease, At, PreemptLabels, Onward
    <3> QED
      BY <1>0, <2>0, <2>5, <3>1, JobUpdate, Zenon DEF ForceRelease
  <2>6. CASE ForceAssignSlot(r)
    <3>1. JobOK(r, Onward(r, "notify"))
      BY <2>1, <2>2, <2>6, JobShapes, Zenon DEF ForceAssignSlot, At, PreemptLabels, Onward
    <3> QED
      BY <1>0, <2>0, <2>6, <3>1, JobUpdate, Zenon DEF ForceAssignSlot
  <2>7. CASE NotifyPreemptor(r)
    BY <1>0, <2>0, <2>7, JobShapes, JobUpdate, SMTT(30) DEF NotifyPreemptor
  <2> QED
    BY <1>3, <2>3, <2>4, <2>5, <2>6, <2>7 DEF TimerStep
<1>4. ASSUME NEW a \in Agents, Crash(a) \/ HeartbeatExpires(a) \/ Heartbeat(a) PROVE OK
  <2>1. CASE HeartbeatExpires(a)
    BY <1>0, <2>1, Distinct, JobShapes, JobUpdate, Zenon DEF HeartbeatExpires
  <2> QED
    BY <1>1, <1>4, <2>1, Zenon DEF Crash, Heartbeat, brokerVars
<1>5. ASSUME NEW p \in Goroutines, AssignFromQueueStep(p) PROVE OK
  <2>0. /\ job[p].next \in Nat /\ job[p].next + 1 \in Nat /\ job[p].best \in Nat
        /\ job[p].slot \in SlotId \cup {NoSlot}
    BY <1>0 DEF Job
  <2>1. job[p].pc \in {"grant", "offer"} =>
          /\ job[p].req \in Reqs
          /\ job[p].slot \in SlotId
          /\ ClassOf(job[p].slot) = ReqClass(job[p].req)
    BY Zenon DEF JobShape, JobOK, Carrying, SlotLabels
  <2>2. CASE StartScan(p)
    <3>1. JobOK(p, Finished(p)) /\ JobOK(p, Scanning(1, 0, NoSlot))
      BY JobShapes, Zenon
    <3> QED
      BY <1>0, <2>2, <3>1, JobUpdate, Zenon DEF StartScan
  <2>3. CASE ScanNext(p)
    <3>1. CASE job' = [job EXCEPT ![p] = Scanning(job[p].next + 1, job[p].best, job[p].slot)]
      <4>1. JobOK(p, Scanning(job[p].next + 1, job[p].best, job[p].slot))
        BY <2>0, JobShapes, Zenon
      <4> QED
        BY <1>0, <3>1, <4>1, JobUpdate, Zenon
    <3>2. ASSUME NEW s \in SlotId,
                 job' = [job EXCEPT ![p] = Scanning(job[p].next + 1, job[p].next, s)]
          PROVE  OK
      <4>1. JobOK(p, Scanning(job[p].next + 1, job[p].next, s))
        BY <2>0, JobShapes, Zenon
      <4> QED
        BY <1>0, <3>2, <4>1, JobUpdate, Zenon
    <3> QED
      BY <2>3, <3>1, <3>2, FindUnassignedFinds DEF ScanNext
  <2>4. CASE EndScan(p)
    <3>1. CASE job[p].best = 0
      BY <1>0, <2>4, <3>1, JobShapes, JobUpdate DEF EndScan
    <3>2. CASE job[p].best # 0
      <4>1. /\ job[p].best \in 1 .. Len(pendingQueue)
            /\ job[p].slot \in SlotId
            /\ ClassOf(job[p].slot) = ReqClass(pendingQueue[job[p].best])
        BY <2>0, <2>4, <3>2 DEF EndScan, ScanShape, TypeOK
      <4>2. pendingQueue[job[p].best] \in Reqs
        BY <4>1, SMTT(30) DEF TypeOK
      <4> QED
        BY <1>0, <2>4, <3>2, <4>1, <4>2, JobShapes, JobUpdate DEF EndScan
    <3> QED
      BY <3>1, <3>2, Zenon
  <2>5. CASE GrantFromQueue(p)
    BY <1>0, <2>1, <2>5, JobShapes, JobUpdate DEF GrantFromQueue, At, Onward
  <2>6. CASE Requeue(p)
    BY <1>0, <2>6, JobShapes, JobUpdate, Zenon DEF Requeue
  <2>7. CASE OfferFromQueue(p)
    BY <1>0, <2>1, <2>7, JobShapes, JobUpdate, JobUpdateReclaim, Zenon DEF OfferFromQueue, At
  <2> QED
    BY <1>5, <2>2, <2>3, <2>4, <2>5, <2>6, <2>7 DEF AssignFromQueueStep
<1>6. CASE ArbiterStep
  <2>0. Arbiter \in Goroutines /\ job[Arbiter].slot \in SlotId \cup {NoSlot}
    BY <1>0, Distinct DEF Job
  <2>1. job[Arbiter].pc \in {"assign", "send"} =>
          /\ job[Arbiter].req \in Reqs
          /\ job[Arbiter].slot \in SlotId
          /\ ClassOf(job[Arbiter].slot) = ReqClass(job[Arbiter].req)
    BY <2>0, Zenon DEF JobShape, JobOK, Carrying, SlotLabels
  <2>2. CASE HandleSlotRequest
    <3>1. Head(inbox).req \in Reqs
      BY <2>2, HeadIsMessage, Zenon DEF HandleSlotRequest
    <3>2. CASE job' = [job EXCEPT ![Arbiter] = Doing("victim", Head(inbox).req, NoSlot)]
      BY <1>0, <2>0, <3>1, <3>2, JobShapes, JobUpdate, Zenon
    <3>3. ASSUME NEW s \in FindUnassigned(slots, ReqClass(Head(inbox).req)),
                 job' = [job EXCEPT ![Arbiter] = Doing("assign", Head(inbox).req, s)]
          PROVE  OK
      <4>1. JobOK(Arbiter, Doing("assign", Head(inbox).req, s))
        BY <3>1, FindUnassignedFinds, JobShapes, Zenon
      <4> QED
        BY <1>0, <2>0, <3>3, <4>1, JobUpdate, Zenon
    <3> QED
      BY <1>1, <2>2, <3>2, <3>3 DEF HandleSlotRequest
  <2>3. CASE AssignFound
    <3>1. JobOK(Arbiter, Onward(Arbiter, "send")) /\ JobOK(Arbiter, Onward(Arbiter, "enqueue"))
      BY <2>1, <2>3, JobShapes DEF AssignFound, At, Onward
    <3> QED
      BY <1>0, <2>0, <2>3, <3>1, JobUpdate, SMTT(30) DEF AssignFound
  <2>4. CASE SendSlotAssigned
    BY <1>0, <2>0, <2>1, <2>4, JobShapes, JobUpdateReclaim, Zenon DEF SendSlotAssigned, At
  <2>5. CASE FindVictim
    <3>1. job[Arbiter].req \in Reqs
      BY <2>0, <2>5 DEF FindVictim, At, JobShape, JobOK, Carrying
    <3>2. CASE job' = [job EXCEPT ![Arbiter] = Onward(Arbiter, "enqueue")]
      <4>1. JobOK(Arbiter, Onward(Arbiter, "enqueue"))
        BY <2>0, <3>1, JobShapes, SMTT(30) DEF Onward
      <4> QED
        BY <1>0, <2>0, <3>2, <4>1, JobUpdate, Zenon
    <3>3. ASSUME NEW s \in FindLowestPriorityPreemptible(slots, ReqClass(job[Arbiter].req), Preemptible),
                 job' = [job EXCEPT ![Arbiter] = Resting("idle"),
                           ![job[Arbiter].req] =
                              Preempting("preempt", job[Arbiter].req, s, slots[s].agent)]
          PROVE  OK
      <4>1. s \in SlotId /\ ClassOf(s) = ReqClass(job[Arbiter].req) /\ slots[s].agent \in Agents
        BY <3>3, FindVictimFinds, TableAssumption, SMTT(30) DEF TypeOK, SlotEntry
      <4>2. /\ JobOK(Arbiter, Resting("idle"))
            /\ JobOK(job[Arbiter].req, Preempting("preempt", job[Arbiter].req, s, slots[s].agent))
        BY <3>1, <4>1, JobShapes DEF PreemptLabels
      <4> DEFINE j1 == [job EXCEPT ![Arbiter] = Resting("idle")]
      <4> DEFINE j2 == Preempting("preempt", job[Arbiter].req, s, slots[s].agent)
      <4>3. job' = [j1 EXCEPT ![job[Arbiter].req] = j2]
        BY <3>3, Zenon
      <4>4. /\ Resting("idle") \in Job /\ j2 \in Job
        BY <4>2, Zenon DEF JobOK
      <4>5. \A p \in Goroutines :
              job'[p] = IF p = job[Arbiter].req THEN j2
                        ELSE IF p = Arbiter THEN Resting("idle") ELSE job[p]
        BY <1>0, <2>0, <3>1, <4>3, Distinct
      <4>6. job' \in [Goroutines -> Job]
        BY <1>0, <2>0, <3>1, <4>3, <4>4, Distinct
      <4> HIDE DEF j2
      <4> QED
        BY <4>2, <4>5, <4>6 DEF JobShape, j2
    <3> QED
      BY <2>5, <3>2, <3>3 DEF FindVictim
  <2>6. CASE Enqueue
    BY <1>0, <2>0, <2>6, JobShapes, JobUpdate, Zenon DEF Enqueue
  <2>7. CASE HandleSlotAssignedAck
    BY <1>1, <2>7, Zenon DEF HandleSlotAssignedAck
  <2>8. CASE HandleSlotRelease
    BY <1>0, <1>1, <2>0, <2>8, JobShapes, JobUpdate, Zenon DEF HandleSlotRelease
  <2> QED
    BY <1>6, <2>2, <2>3, <2>4, <2>5, <2>6, <2>7, <2>8 DEF ArbiterStep
<1> QED
  BY <1>1, <1>2, <1>3, <1>4, <1>5, <1>6 DEF Next, vars

(* A step after which every scan is one that was under way, over the same  *)
(* queue, keeps what the scans remember true.                              *)
LEMMA ScanKept ==
  ASSUME ScanShape,
         \A p \in Goroutines : job'[p].pc = "scan" =>
           job'[p] = job[p] /\ pendingQueue' = pendingQueue
  PROVE  ScanShape'
BY DEF ScanShape, At

(* The queue's lock is respected.                                          *)
LEMMA ScanShapeStep ==
  ASSUME TypeOK, JobShape, ScanShape, [Next]_vars
  PROVE  ScanShape'
<1> DEFINE Kept == \A p \in Goroutines : job'[p].pc = "scan" =>
                     job'[p] = job[p] /\ pendingQueue' = pendingQueue
<1>0. job \in [Goroutines -> Job]
  BY Zenon DEF TypeOK
<1>1. UNCHANGED <<job, pendingQueue>> => Kept
  BY Zenon
<1>2. ASSUME NEW p \in Goroutines, NEW j, j.pc # "scan", job' = [job EXCEPT ![p] = j],
             pendingQueue' = pendingQueue \/ ~QueueLocked
      PROVE  Kept
  BY <1>0, <1>2, Zenon DEF QueueLocked, At
<1>3. \A l \in Labels \ {"scan"} : /\ Resting(l).pc # "scan"
                                   /\ \A r, s : Doing(l, r, s).pc # "scan"
                                   /\ \A r, s, a : Preempting(l, r, s, a).pc # "scan"
  BY Zenon DEF Resting, Doing, Preempting
<1>4. \A p : Finished(p).pc # "scan"
  BY Zenon DEF Finished, Resting, Doing, Preempting
<1>5. ASSUME NEW p \in Goroutines, NEW j, j.pc # "scan", NEW r \in Reqs,
             job' = ScheduleReclaim([job EXCEPT ![p] = j], r), UNCHANGED pendingQueue
      PROVE  Kept
  BY <1>0, <1>3, <1>5, Distinct DEF ScheduleReclaim, Labels
<1>6. ASSUME NEW r \in Reqs, CallerStep(r) PROVE Kept
  BY <1>6, CallersKeepBroker
<1>7. ASSUME NEW r \in Reqs, TimerStep(r) PROVE Kept
  <2>1. r \in Goroutines /\ UNCHANGED pendingQueue
    BY <1>7, Distinct
       DEF TimerStep, ReclaimFires, PreemptTimeout, ForceRelease, ForceAssignSlot, NotifyPreemptor
  <2>2. \E j : j.pc # "scan" /\ job' = [job EXCEPT ![r] = j]
    BY <1>7, Zenon
       DEF TimerStep, ReclaimFires, PreemptTimeout, ForceRelease, ForceAssignSlot, NotifyPreemptor,
           Resting, Finished, Onward, Doing, Preempting
  <2> QED
    BY <1>2, <2>1, <2>2
<1>8. ASSUME NEW a \in Agents, Crash(a) \/ HeartbeatExpires(a) \/ Heartbeat(a) PROVE Kept
  BY <1>1, <1>2, <1>3, <1>8, Distinct
     DEF Crash, HeartbeatExpires, Heartbeat, brokerVars, Labels
<1>9. ASSUME NEW p \in Goroutines, AssignFromQueueStep(p) PROVE ScanShape'
  <2>0. job[p] \in Job
    BY <1>0, Zenon
  <2>1. CASE StartScan(p)
    <3>1. CASE pendingQueue = << >>
      BY <1>2, <1>4, <2>1, <3>1, ScanKept, SMTT(30) DEF StartScan
    <3>2. CASE pendingQueue # << >>
      <4>1. /\ job'[p] = Scanning(1, 0, NoSlot)
            /\ \A q \in Goroutines : q # p => job'[q].pc # "scan"
            /\ pendingQueue' \in Seq(Reqs)
        BY <1>0, <2>1, <3>2 DEF StartScan, QueueLocked, At, TypeOK
      <4> QED
        BY <4>1 DEF ScanShape, At, Scanning
    <3> QED
      BY <3>1, <3>2, Zenon
  <2>2. CASE ScanNext(p)
    <3>1. \A q \in Goroutines : q # p => job'[q] = job[q] /\ job'[q].pc # "scan"
      BY <1>0, <2>2 DEF ScanNext, ScanShape, At
    <3>2. UNCHANGED pendingQueue /\ job[p].next \in 1 .. Len(pendingQueue)
      BY <2>0, <2>2 DEF ScanNext, ScanShape, At, Job
    <3>3. \/ job'[p] = Scanning(job[p].next + 1, job[p].best, job[p].slot)
          \/ \E s \in FindUnassigned(slots, ReqClass(pendingQueue[job[p].next])) :
               job'[p] = Scanning(job[p].next + 1, job[p].next, s)
      BY <1>0, <2>2, Zenon DEF ScanNext
    <3>4. CASE job'[p] = Scanning(job[p].next + 1, job[p].best, job[p].slot)
      BY <2>0, <2>2, <3>1, <3>2, <3>4, SMTT(30) DEF ScanShape, ScanNext, At, Scanning, Job
    <3>5. ASSUME NEW s \in FindUnassigned(slots, ReqClass(pendingQueue[job[p].next])),
                 job'[p] = Scanning(job[p].next + 1, job[p].next, s)
          PROVE  ScanShape'
      <4>1. s \in SlotId /\ ClassOf(s) = ReqClass(pendingQueue[job[p].next])
        BY FindUnassignedFinds
      <4> QED
        BY <2>0, <2>2, <3>1, <3>2, <3>5, <4>1 DEF ScanShape, ScanNext, At, Scanning, Job
    <3> QED
      BY <3>3, <3>4, <3>5
  <2>3. CASE EndScan(p)
    <3>1. \A q \in Goroutines : q # p => job'[q].pc # "scan"
      BY <1>0, <2>3, Zenon DEF EndScan, ScanShape, At
    <3>2. job'[p].pc # "scan"
      BY <1>0, <2>3, SMTT(30) DEF EndScan, Finished, Resting, Doing, Preempting
    <3> QED
      BY <3>1, <3>2, ScanKept
  <2>4. CASE GrantFromQueue(p)
    <3>1. Onward(p, "offer").pc # "scan" /\ Onward(p, "requeue").pc # "scan"
      BY Zenon DEF Onward, Doing, Preempting
    <3> QED
      BY <1>2, <2>4, <3>1, ScanKept, Zenon DEF GrantFromQueue
  <2>5. CASE Requeue(p)
    BY <1>2, <1>4, <2>5, ScanKept, Zenon DEF Requeue
  <2>6. CASE OfferFromQueue(p)
    <3>1. job[p].req \in Reqs
      BY <2>6, Zenon DEF OfferFromQueue, At, JobShape, JobOK, Carrying
    <3> QED
      BY <1>2, <1>4, <1>5, <2>6, <3>1, ScanKept, SMTT(30) DEF OfferFromQueue
  <2> QED
    BY <1>9, <2>1, <2>2, <2>3, <2>4, <2>5, <2>6 DEF AssignFromQueueStep
<1>10. ASSUME ArbiterStep PROVE Kept
  <2>0. Arbiter \in Goroutines
    BY Distinct, Zenon
  <2>1. CASE HandleSlotRequest
    BY <1>1, <1>2, <1>3, <2>0, <2>1, SMTT(30) DEF HandleSlotRequest, Labels
  <2>2. CASE AssignFound
    BY <1>2, <1>3, <2>0, <2>2 DEF AssignFound, Onward, Labels
  <2>3. CASE SendSlotAssigned
    <3>1. job[Arbiter].req \in Reqs
      BY <2>0, <2>3 DEF SendSlotAssigned, At, JobShape, JobOK, Carrying
    <3>2. Resting("idle").pc # "scan" /\ Resting("queue").pc # "scan"
      BY <1>3, Zenon DEF Labels
    <3> QED
      BY <1>5, <2>0, <2>3, <3>1, <3>2, Zenon DEF SendSlotAssigned
  <2>4. CASE FindVictim
    BY <1>0, <1>3, <2>0, <2>4, Distinct DEF FindVictim, Onward, Labels, JobShape, JobOK, Carrying, At
  <2>5. CASE Enqueue
    BY <1>2, <1>3, <2>0, <2>5, Zenon DEF Enqueue, Labels
  <2>6. CASE HandleSlotAssignedAck
    BY <1>1, <2>6, Zenon DEF HandleSlotAssignedAck
  <2>7. CASE HandleSlotRelease
    BY <1>1, <1>2, <1>3, <2>0, <2>7, Zenon DEF HandleSlotRelease, Labels
  <2> QED
    BY <1>10, <2>1, <2>2, <2>3, <2>4, <2>5, <2>6, <2>7 DEF ArbiterStep
<1> QED
  BY <1>1, <1>6, <1>7, <1>8, <1>9, <1>10, ScanKept, Zenon DEF Next, vars

(* The type invariant, with the shapes it needs, is inductive.             *)
LEMMA TypeStep ==
  ASSUME TypeOK, JobShape, ScanShape, [Next]_vars
  PROVE  TypeOK' /\ JobShape' /\ ScanShape'
BY SlotsType, QueueType, InboxType, CallerTypes, JobShapeStep, ScanShapeStep DEF TypeOK

(* Class isolation follows from the shapes: every slot a goroutine offers, *)
(* assigns or reports has the class of the request it does so for.         *)
LEMMA ClassStep ==
  ASSUME TypeOK, JobShape, ClassIsolation, [Next]_vars
  PROVE  ClassIsolation'
<1> DEFINE Good(t) == \A s \in SlotId : t[s].state # "unassigned" =>
                        ClassOf(s) = NormalizeClass(SlotClass[t[s].agent])
           Answered(f) == \A r \in Reqs : f[r] # NoSlot => ClassOf(f[r]) = ReqClass(r)
<1>0. /\ slots \in [SlotId -> SlotEntry] /\ Good(slots)
      /\ reply \in [Reqs -> SlotId \cup {NoSlot}] /\ Answered(reply)
  BY Zenon DEF TypeOK, ClassIsolation
<1>1. SUFFICES Good(slots') /\ Answered(reply')
  BY Zenon DEF ClassIsolation
<1>2. /\ \A r \in Reqs : Good(CommitAssignment(slots, r)) /\ Good(RevertProvisional(slots, r))
      /\ \A s \in SlotId : Good(Release(slots, s))
      /\ \A a \in Agents : Good(ReleaseByAgent(slots, a))
  <2>1. ASSUME NEW r \in Reqs, NEW s \in SlotId, s \in ProvisionalOf(slots, r)
        PROVE  slots[s].state # "unassigned"
    BY <2>1, ProvisionalOfFinds, SMTT(30)
  <2> QED
    BY <1>0, <2>1, SMTT(30)
       DEF CommitAssignment, RevertProvisional, Release, ReleaseByAgent, Unassigned
<1>3. \A r \in Reqs, s \in SlotId : ClassOf(s) = ReqClass(r) =>
        /\ Good(AssignProvisional(slots, s, AgentOf[r], ReqPriority(r), r))
        /\ Good(ForceAssign(slots, s, AgentOf[r], ReqPriority(r)))
        /\ Answered([reply EXCEPT ![r] = s])
  BY <1>0, Zenon DEF AssignProvisional, ForceAssign, ReqClass
<1>4. \A p \in Goroutines : job[p].pc \in {"assign", "grant", "send", "offer"} =>
        /\ job[p].req \in Reqs
        /\ job[p].slot \in SlotId
        /\ ClassOf(job[p].slot) = ReqClass(job[p].req)
  BY DEF JobShape, JobOK, Carrying, SlotLabels
<1>5. \A r \in Reqs : job[r].pc \in {"release", "force", "notify"} =>
        job[r].slot \in SlotId /\ ClassOf(job[r].slot) = ReqClass(r)
  BY Distinct, Zenon DEF JobShape, JobOK, PreemptLabels
<1> HIDE DEF Good, Answered
<1>6. ASSUME NEW r \in Reqs, CallerStep(r) PROVE Good(slots') /\ Answered(reply')
  BY <1>0, <1>6, CallersKeepBroker
<1>7. ASSUME NEW r \in Reqs, TimerStep(r) PROVE Good(slots') /\ Answered(reply')
  BY <1>0, <1>2, <1>3, <1>5, <1>7, Zenon
     DEF TimerStep, ReclaimFires, PreemptTimeout, ForceRelease, ForceAssignSlot,
         NotifyPreemptor, At
<1>8. ASSUME NEW a \in Agents, Crash(a) \/ HeartbeatExpires(a) \/ Heartbeat(a)
      PROVE  Good(slots') /\ Answered(reply')
  BY <1>0, <1>2, <1>8, Zenon DEF Crash, HeartbeatExpires, Heartbeat, brokerVars
<1>9. ASSUME NEW p \in Goroutines, AssignFromQueueStep(p) PROVE Good(slots') /\ Answered(reply')
  <2>1. CASE GrantFromQueue(p)
    BY <1>0, <1>3, <1>4, <2>1, Zenon DEF GrantFromQueue, At
  <2>2. CASE OfferFromQueue(p)
    <3>1. job[p].pc \in {"assign", "grant", "send", "offer"}
      BY <2>2, Zenon DEF OfferFromQueue, At
    <3>2. /\ job[p].req \in Reqs /\ job[p].slot \in SlotId
          /\ ClassOf(job[p].slot) = ReqClass(job[p].req)
      BY <1>4, <3>1, Zenon
    <3>3. \/ slots' = slots /\ reply' = [reply EXCEPT ![job[p].req] = job[p].slot]
          \/ slots' = RevertProvisional(slots, job[p].req) /\ reply' = reply
      BY <2>2, Zenon DEF OfferFromQueue
    <3> QED
      BY <1>0, <1>2, <1>3, <3>2, <3>3, Zenon
  <2> QED
    BY <1>0, <1>9, <2>1, <2>2, Zenon DEF AssignFromQueueStep, StartScan, ScanNext, EndScan, Requeue
<1>10. ASSUME ArbiterStep PROVE Good(slots') /\ Answered(reply')
  <2>1. CASE AssignFound
    <3>1. /\ job[Arbiter].req \in Reqs
          /\ job[Arbiter].slot \in SlotId
          /\ ClassOf(job[Arbiter].slot) = ReqClass(job[Arbiter].req)
      <4>1. job[Arbiter].pc \in {"assign", "grant", "send", "offer"} /\ Arbiter \in Goroutines
        BY <2>1, Distinct, Zenon DEF AssignFound, At
      <4> QED
        BY <1>4, <4>1, Zenon
    <3> QED
      BY <1>0, <1>3, <2>1, <3>1, Zenon DEF AssignFound
  <2>2. CASE SendSlotAssigned
    <3>1. /\ job[Arbiter].req \in Reqs
          /\ job[Arbiter].slot \in SlotId
          /\ ClassOf(job[Arbiter].slot) = ReqClass(job[Arbiter].req)
      <4>1. job[Arbiter].pc \in {"assign", "grant", "send", "offer"} /\ Arbiter \in Goroutines
        BY <2>2, Distinct, Zenon DEF SendSlotAssigned, At
      <4> QED
        BY <1>4, <4>1, Zenon
    <3> QED
      BY <1>0, <1>2, <1>3, <2>2, <3>1, Zenon DEF SendSlotAssigned
  <2>3. CASE HandleSlotAssignedAck \/ HandleSlotRelease
    <3>1. /\ Head(inbox).req \in Reqs /\ AgentOf[Head(inbox).req] \in Agents
          /\ Head(inbox).slot = NoSlot \/ Head(inbox).slot \in SlotId
      BY <2>3, HeadIsMessage, Zenon DEF HandleSlotAssignedAck, HandleSlotRelease
    <3>2. /\ reply' = reply
          /\ \/ slots' = CommitAssignment(slots, Head(inbox).req)
             \/ slots' = ReleaseByAgent(slots, AgentOf[Head(inbox).req])
             \/ Head(inbox).slot # NoSlot /\ slots' = Release(slots, Head(inbox).slot)
      BY <2>3, Zenon DEF HandleSlotAssignedAck, HandleSlotRelease
    <3> QED
      BY <1>0, <1>2, <3>1, <3>2, Zenon
  <2> QED
    BY <1>0, <1>10, <2>1, <2>2, <2>3, Zenon DEF ArbiterStep, HandleSlotRequest, FindVictim, Enqueue
<1> QED
  BY <1>0, <1>6, <1>7, <1>8, <1>9, <1>10, SMTT(30) DEF Next, vars

-----------------------------------------------------------------------------
(* Where a request is: it is in one place, and it is somewhere.            *)

(* SingleCustody, FreshRequests and NoLostRequest for one request.         *)
Custody(r) ==
  /\ AtMostOne(InInbox(r))
  /\ AtMostOne(InQueue(r))
  /\ AtMostOne(InHand(r))
  /\ InInbox(r) # {} => InQueue(r) = {} /\ InHand(r) = {} /\ At(r, "none")
  /\ InQueue(r) # {} => InHand(r) = {} /\ At(r, "none")
  /\ InHand(r) # {} => At(r, "none")
  /\ reply[r] # NoSlot => job[r].pc \notin Unanswered
  /\ status[r] = "idle" => /\ InInbox(r) = {}
                           /\ InQueue(r) = {}
                           /\ InHand(r) = {}
                           /\ At(r, "none")
  /\ (failures = 0 /\ status[r] = "waiting" /\ ReqClass(r) \in Classes) =>
       \/ InInbox(r) # {}
       \/ InQueue(r) # {}
       \/ InHand(r) # {}
       \/ job[r].pc \in Unanswered \ {"none"}
       \/ reply[r] # NoSlot

(* S1 is empty just when S0 is, and a singleton when S0 is.                *)
Alike(S0, S1) ==
  /\ S0 = {} <=> S1 = {}
  /\ AtMostOne(S0) => AtMostOne(S1)

LEMMA CustodyIs ==
  (SingleCustody /\ FreshRequests /\ NoLostRequest) <=> \A r \in Reqs : Custody(r)
BY SMTT(30) DEF SingleCustody, FreshRequests, NoLostRequest, Custody

(* A message that is not a request changes nothing; a request adds itself. *)
LEMMA InboxAppends ==
  ASSUME TypeOK, NEW m \in Message, Send(m), NEW r \in Reqs
  PROVE  InInbox(r)' = IF m.type = "request" /\ m.req = r
                       THEN InInbox(r) \cup {Len(inbox) + 1} ELSE InInbox(r)
<1>1. /\ inbox \in Seq(Message)
      /\ Len(inbox') = Len(inbox) + 1
      /\ \A i \in 1 .. Len(inbox) : inbox'[i] = inbox[i]
      /\ inbox'[Len(inbox) + 1] = m
      /\ DOMAIN inbox' = 1 .. Len(inbox) + 1
      /\ DOMAIN inbox = 1 .. Len(inbox)
      /\ Len(inbox) \in Nat
  BY DEF TypeOK, Send
<1> QED
  BY <1>1, SMTT(30) DEF InInbox

(* Receiving a message removes just that message.                          *)
LEMMA InboxReceives ==
  ASSUME TypeOK, NEW type, Receive(type), NEW r \in Reqs
  PROVE  /\ ~(type = "request" /\ Head(inbox).req = r) => Alike(InInbox(r), InInbox(r)')
         /\ (type = "request" /\ Head(inbox).req = r) =>
              InInbox(r) # {} /\ (AtMostOne(InInbox(r)) => InInbox(r)' = {})
<1>1. /\ inbox \in Seq(Message)
      /\ Len(inbox) \in Nat \ {0}
      /\ Len(inbox') = Len(inbox) - 1
      /\ \A i \in 1 .. Len(inbox) - 1 : inbox'[i] = inbox[i + 1]
      /\ DOMAIN inbox' = 1 .. Len(inbox) - 1
      /\ DOMAIN inbox = 1 .. Len(inbox)
      /\ Head(inbox) = inbox[1]
      /\ inbox[1].type = type
  BY DEF TypeOK, Receive
<1>2. \A i \in Nat \ {0} : i \in InInbox(r)' <=> i + 1 \in InInbox(r)
  BY <1>1 DEF InInbox
<1>3. InInbox(r) \subseteq Nat \ {0} /\ InInbox(r)' \subseteq Nat \ {0}
  BY <1>1 DEF InInbox
<1>4. 1 \in InInbox(r) <=> (type = "request" /\ Head(inbox).req = r)
  BY <1>1 DEF InInbox
<1>5. \A i \in InInbox(r) : i = 1 \/ i - 1 \in InInbox(r)'
  <2> TAKE i \in InInbox(r)
  <2>1. i \in Nat \ {0}
    BY <1>3, Zenon
  <2>2. ASSUME i # 1 PROVE i - 1 \in InInbox(r)'
    <3>1. i - 1 \in Nat \ {0} /\ (i - 1) + 1 = i
      BY <2>1, <2>2
    <3> QED
      BY <1>2, <3>1
  <2> QED
    BY <2>2
<1> HIDE DEF InInbox
<1>6. ASSUME 1 \notin InInbox(r) PROVE Alike(InInbox(r), InInbox(r)')
  <2>1. InInbox(r) = {} <=> InInbox(r)' = {}
    BY <1>2, <1>3, <1>5, <1>6
  <2>2. ASSUME AtMostOne(InInbox(r)), NEW i \in InInbox(r)', NEW j \in InInbox(r)' PROVE i = j
    <3>1. i \in Nat /\ j \in Nat /\ i + 1 \in InInbox(r) /\ j + 1 \in InInbox(r)
      BY <1>2, <1>3
    <3>2. i + 1 = j + 1
      BY <2>2, <3>1 DEF AtMostOne
    <3> QED
      BY <3>1, <3>2
  <2> QED
    BY <2>1, <2>2 DEF Alike, AtMostOne
<1>7. ASSUME 1 \in InInbox(r), AtMostOne(InInbox(r)), NEW i \in InInbox(r)' PROVE FALSE
  <2>1. i \in Nat \ {0} /\ i + 1 \in InInbox(r)
    BY <1>2, <1>3, Zenon
  <2>2. i + 1 = 1
    BY <1>7, <2>1 DEF AtMostOne
  <2> QED
    BY <2>1, <2>2
<1> QED
  BY <1>4, <1>6, <1>7

(* A request that is queued is added at the end.                           *)
LEMMA QueueAppends ==
  ASSUME TypeOK, NEW q \in Reqs, pendingQueue' = Append(pendingQueue, q), NEW r \in Reqs
  PROVE  InQueue(r)' = IF q = r THEN InQueue(r) \cup {Len(pendingQueue) + 1} ELSE InQueue(r)
<1>1. /\ Len(pendingQueue') = Len(pendingQueue) + 1
      /\ \A i \in 1 .. Len(pendingQueue) : pendingQueue'[i] = pendingQueue[i]
      /\ pendingQueue'[Len(pendingQueue) + 1] = q
      /\ DOMAIN pendingQueue' = 1 .. Len(pendingQueue) + 1
      /\ DOMAIN pendingQueue = 1 .. Len(pendingQueue)
      /\ Len(pendingQueue) \in Nat
  BY DEF TypeOK
<1> QED
  BY <1>1 DEF InQueue

(* The request the scan has chosen leaves the queue, and no other does.    *)
LEMMA QueueRemoves ==
  ASSUME TypeOK, NEW k \in 1 .. Len(pendingQueue), pendingQueue' = Without(pendingQueue, k),
         NEW r \in Reqs
  PROVE  /\ pendingQueue[k] # r => Alike(InQueue(r), InQueue(r)')
         /\ pendingQueue[k] = r =>
              InQueue(r) # {} /\ (AtMostOne(InQueue(r)) => InQueue(r)' = {})
<1>0. pendingQueue \in Seq(Reqs) /\ Len(pendingQueue) \in Nat /\ k \in Nat \ {0}
  BY DEF TypeOK
<1>1. /\ pendingQueue' \in Seq(Reqs)
      /\ Len(pendingQueue') = Len(pendingQueue) - 1
      /\ \A j \in 1 .. Len(pendingQueue) - 1 :
           pendingQueue'[j] = IF j < k THEN pendingQueue[j] ELSE pendingQueue[j + 1]
  BY <1>0, WithoutRemoves, SMTT(30)
<1>2. /\ DOMAIN pendingQueue' = 1 .. Len(pendingQueue) - 1
      /\ DOMAIN pendingQueue = 1 .. Len(pendingQueue)
  BY <1>0, <1>1
<1>3. \A j \in Nat \ {0} : j \in InQueue(r)' <=> (IF j < k THEN j ELSE j + 1) \in InQueue(r)
  BY <1>0, <1>1, <1>2 DEF InQueue
<1>4. InQueue(r) \subseteq Nat \ {0} /\ InQueue(r)' \subseteq Nat \ {0}
  BY <1>2 DEF InQueue
<1>5. k \in InQueue(r) <=> pendingQueue[k] = r
  BY <1>2 DEF InQueue
<1>6. \A i \in InQueue(r) : i = k \/ (IF i < k THEN i ELSE i - 1) \in InQueue(r)'
  <2> TAKE i \in InQueue(r)
  <2>1. i \in Nat \ {0}
    BY <1>4
  <2>2. CASE i < k
    BY <1>3, <2>1, <2>2
  <2>3. CASE i > k
    <3>1. i - 1 \in Nat \ {0} /\ ~(i - 1 < k) /\ (i - 1) + 1 = i
      BY <1>0, <2>1, <2>3
    <3> QED
      BY <1>0, <1>3, <2>3, <3>1
  <2> QED
    BY <1>0, <2>1, <2>2, <2>3
<1> HIDE DEF InQueue
<1>7. ASSUME k \notin InQueue(r) PROVE Alike(InQueue(r), InQueue(r)')
  <2>1. InQueue(r) = {} <=> InQueue(r)' = {}
    BY <1>3, <1>4, <1>6, <1>7, Zenon
  <2>2. ASSUME AtMostOne(InQueue(r)), NEW i \in InQueue(r)', NEW j \in InQueue(r)' PROVE i = j
    <3>1. /\ i \in Nat /\ j \in Nat
          /\ (IF i < k THEN i ELSE i + 1) = (IF j < k THEN j ELSE j + 1)
      BY <1>3, <1>4, <2>2, Zenon DEF AtMostOne
    <3> QED
      BY <1>0, <3>1
  <2> QED
    BY <2>1, <2>2 DEF Alike, AtMostOne
<1>8. ASSUME k \in InQueue(r), AtMostOne(InQueue(r)), NEW i \in InQueue(r)' PROVE FALSE
  <2>1. i \in Nat \ {0} /\ (IF i < k THEN i ELSE i + 1) = k
    BY <1>3, <1>4, <1>8, SMTT(30) DEF AtMostOne
  <2> QED
    BY <1>0, <2>1
<1> QED
  BY <1>5, <1>7, <1>8

(* The goroutine of r is as far with r as it was.                          *)
SameStage(r) ==
  /\ At(r, "none") <=> At(r, "none")'
  /\ job[r].pc \in Unanswered <=> job'[r].pc \in Unanswered

(* A step that does not move the request, answer it or renew its caller's  *)
(* wait keeps its custody.                                                 *)
LEMMA CustodyKept ==
  ASSUME NEW r \in Reqs, Custody(r),
         Alike(InInbox(r), InInbox(r)'), Alike(InQueue(r), InQueue(r)'),
         Alike(InHand(r), InHand(r)'), SameStage(r), reply'[r] = reply[r],
         status'[r] = "idle" => status[r] = "idle",
         status'[r] = "waiting" => status[r] = "waiting",
         failures' = 0 => failures = 0
  PROVE  Custody(r)'
BY Zenon DEF Custody, Alike, SameStage, At

LEMMA AlikeSame == \A S : Alike(S, S)
BY Zenon DEF Alike

(* A goroutine that goes on with the same request, or with none, moves no  *)
(* request.                                                                *)
LEMMA JobKept ==
  ASSUME job \in [Goroutines -> Job], NEW p \in Goroutines, NEW j,
         job' = [job EXCEPT ![p] = j],
         j.pc \in Carrying <=> job[p].pc \in Carrying,
         j.pc \in Carrying => j.req = job[p].req,
         j.pc = "none" <=> job[p].pc = "none",
         j.pc \in Unanswered <=> job[p].pc \in Unanswered
  PROVE  \A r \in Reqs : InHand(r)' = InHand(r) /\ SameStage(r)
<1>1. \A q \in Goroutines : job'[q] = IF q = p THEN j ELSE job[q]
  OBVIOUS
<1>2. \A r \in Reqs : InHand(r)' = InHand(r)
  BY <1>1 DEF InHand
<1>3. \A r \in Reqs : SameStage(r)
  BY <1>1, Distinct DEF SameStage, At
<1> QED
  BY <1>2, <1>3

(* The labels of the jobs the actions set.                                 *)
LEMMA Pcs ==
  /\ \A l : Resting(l).pc = l
  /\ \A l, r, s : Doing(l, r, s).pc = l /\ Doing(l, r, s).req = r
  /\ \A l, r, s, a : Preempting(l, r, s, a).pc = l /\ Preempting(l, r, s, a).req = r
  /\ \A i, b, s : Scanning(i, b, s).pc = "scan"
  /\ \A p : Finished(p).pc \in {"idle", "exited"}
  /\ \A p, l : Onward(p, l).pc = l /\ Onward(p, l).req = job[p].req
BY DEF Resting, Doing, Preempting, Scanning, Finished, Onward

(* Custody is kept by the callers.                                         *)
LEMMA CustodyCallers ==
  ASSUME TypeOK, NEW q \in Reqs, CallerStep(q), NEW r \in Reqs, Custody(r)
  PROVE  Custody(r)'
<1>1. UNCHANGED <<pendingQueue, job, reply>>
  BY CallersKeepBroker
<1>2. InQueue(r)' = InQueue(r) /\ InHand(r)' = InHand(r) /\ SameStage(r)
  BY <1>1, SMTT(30) DEF InQueue, InHand, SameStage, At
<1>3. failures' = 0 => failures = 0
  BY DEF CallerStep, RequestSlot, RequestPublishFails, AcceptSlot, AckPublishFails,
         SlotTimeout, ReleaseSlot, PublishFails, TypeOK
<1>4. /\ Msg("request", q, NoSlot) \in Message
      /\ Msg("release", q, NoSlot) \in Message
      /\ Msg("release", q, held[q]) \in Message
      /\ Msg("ack", q, reply[q]) \in Message
  BY DEF Msg, Message, TypeOK
<1>5. CASE RequestSlot(q)
  <2>1. InInbox(r)' = IF q = r THEN InInbox(r) \cup {Len(inbox) + 1} ELSE InInbox(r)
    BY <1>4, <1>5, InboxAppends DEF RequestSlot, Msg
  <2>2. status[q] = "idle" /\ status' = [status EXCEPT ![q] = "waiting"]
    BY <1>5, SMTT(30) DEF RequestSlot, MayRequest
  <2>3. CASE q # r
    BY <1>1, <1>2, <1>3, <2>1, <2>2, <2>3, CustodyKept, AlikeSame, SMTT(30) DEF TypeOK
  <2>4. CASE q = r
    <3>1. /\ InInbox(r) = {} /\ InQueue(r)' = {} /\ InHand(r)' = {}
          /\ At(r, "none")' /\ status'[r] = "waiting"
      BY <1>2, <2>2, <2>4, Zenon DEF Custody, SameStage, TypeOK
    <3>2. InInbox(r)' = {Len(inbox) + 1}
      BY <2>1, <2>4, <3>1, SMTT(30)
    <3>3. reply'[r] = NoSlot
      BY <1>1, <3>1, SMTT(30) DEF Custody, Unanswered, At
    <3> QED
      BY <3>1, <3>2, <3>3, Zenon DEF Custody, AtMostOne
  <2> QED
    BY <2>3, <2>4, SMTT(30)
<1>6. CASE ~RequestSlot(q)
  <2>1. InInbox(r)' = InInbox(r)
    <3>1. \/ UNCHANGED inbox
          \/ \E m \in {Msg("release", q, NoSlot), Msg("release", q, held[q]),
                       Msg("ack", q, reply[q])} : Send(m)
      BY <1>6 DEF CallerStep, RequestPublishFails, AcceptSlot, AckPublishFails,
                  SlotTimeout, ReleaseSlot, DefensiveRelease
    <3>2. CASE UNCHANGED inbox
      BY <3>2, SMTT(30) DEF InInbox
    <3>3. ASSUME NEW m \in {Msg("release", q, NoSlot), Msg("release", q, held[q]),
                            Msg("ack", q, reply[q])}, Send(m)
          PROVE  InInbox(r)' = InInbox(r)
      <4>1. m \in Message /\ m.type # "request"
        BY <1>4, SMTT(30) DEF Msg
      <4> QED
        BY <3>3, <4>1, InboxAppends, SMTT(30)
    <3> QED
      BY <3>1, <3>2, <3>3, SMTT(30)
  <2>2. /\ status'[r] = "idle" => status[r] = "idle"
        /\ status'[r] = "waiting" => status[r] = "waiting"
    BY <1>6 DEF CallerStep, RequestPublishFails, AcceptSlot, AckPublishFails,
                SlotTimeout, ReleaseSlot, TypeOK
  <2> QED
    BY <1>1, <1>2, <1>3, <2>1, <2>2, CustodyKept, AlikeSame, SMTT(30)
<1> QED
  BY <1>5, <1>6

(* Custody is kept by the timers: a request whose goroutine runs is in     *)
(* nobody's hands.                                                         *)
LEMMA CustodyTimers ==
  ASSUME TypeOK, JobShape, NEW q \in Reqs, TimerStep(q), NEW r \in Reqs, Custody(r)
  PROVE  Custody(r)'
<1>0. job \in [Goroutines -> Job] /\ q \in Goroutines /\ reply \in [Reqs -> SlotId \cup {NoSlot}]
  BY Distinct, SMTT(30) DEF TypeOK
<1>1. UNCHANGED <<pendingQueue, inbox, status>> /\ (failures' = 0 => failures = 0)
  BY DEF TimerStep, ReclaimFires, PreemptTimeout, ForceRelease, ForceAssignSlot,
         NotifyPreemptor, clientVars, PublishFails, TypeOK
<1>2. InQueue(r)' = InQueue(r) /\ InInbox(r)' = InInbox(r)
  BY <1>1, SMTT(30) DEF InQueue, InInbox
<1>3. ASSUME UNCHANGED reply, NEW j, job' = [job EXCEPT ![q] = j],
             j.pc \notin Carrying \cup {"none"}, job[q].pc \notin Carrying \cup {"none"},
             j.pc \in Unanswered <=> job[q].pc \in Unanswered
      PROVE  Custody(r)'
  <2>1. InHand(r)' = InHand(r) /\ SameStage(r)
    BY <1>0, <1>3, JobKept, Zenon
  <2> QED
    BY <1>1, <1>2, <1>3, <2>1, CustodyKept, AlikeSame, Zenon
<1>4. CASE ReclaimFires(q)
  <2>1. PICK l \in {"exited", "queue"} : job' = [job EXCEPT ![q] = Resting(l)]
    BY <1>4, Zenon DEF ReclaimFires
  <2>2. job[q].pc = "armed" /\ UNCHANGED reply
    BY <1>4, Zenon DEF ReclaimFires, At
  <2>3. Resting(l).pc = l
    BY Pcs, Zenon
  <2>4. "armed" \notin Unanswered /\ l \notin Unanswered
        /\ "armed" \notin Carrying \cup {"none"} /\ l \notin Carrying \cup {"none"}
    BY <2>1 DEF Carrying, Unanswered
  <2> QED
    BY <1>3, <2>1, <2>2, <2>3, <2>4, Zenon
<1>5. CASE PreemptTimeout(q)
  <2>1. PICK l \in {"release", "force"} :
          job' = [job EXCEPT ![q] = Preempting(l, q, job[q].slot, job[q].agent)]
    BY <1>5, Zenon DEF PreemptTimeout
  <2>2. job[q].pc = "preempt" /\ UNCHANGED reply
    BY <1>5 DEF PreemptTimeout, At
  <2>3. Preempting(l, q, job[q].slot, job[q].agent).pc = l
    BY Pcs
  <2> QED
    BY <1>3, <2>1, <2>2, <2>3, Zenon DEF Carrying, Unanswered
<1>6. CASE ForceRelease(q) \/ ForceAssignSlot(q)
  BY <1>3, <1>6, Pcs DEF ForceRelease, ForceAssignSlot, At, Carrying, Unanswered
<1>7. CASE NotifyPreemptor(q)
  <2>1. job[q].slot \in SlotId /\ job[q].pc = "notify"
    BY <1>0, <1>7, SMTT(30) DEF NotifyPreemptor, At, JobShape, JobOK, PreemptLabels
  <2>2. PICK j : job' = [job EXCEPT ![q] = j] /\ j.pc \in {"exited", "queue", "idle"}
    <3>1. \/ job' = [job EXCEPT ![q] = Finished(q)]
          \/ job' = [job EXCEPT ![q] = Resting("queue")]
      BY <1>7, Zenon DEF NotifyPreemptor
    <3>2. Finished(q).pc \in {"idle", "exited"} /\ Resting("queue").pc = "queue"
      BY Pcs, Zenon
    <3> QED
      BY <3>1, <3>2, Zenon
  <2>3. InHand(r)' = InHand(r)
    BY <1>0, <2>1, <2>2 DEF InHand, Carrying
  <2>4. CASE q # r
    <3>1. SameStage(r) /\ reply'[r] = reply[r]
      BY <1>0, <1>7, <2>2, <2>4, Distinct DEF SameStage, At, NotifyPreemptor
    <3> QED
      BY <1>1, <1>2, <2>3, <3>1, CustodyKept, AlikeSame
  <2>5. CASE q = r
    <3>1. InInbox(r)' = {} /\ InQueue(r)' = {} /\ InHand(r)' = {} /\ status'[r] # "idle"
      BY <1>1, <1>2, <2>1, <2>3, <2>5, Zenon DEF Custody, At
    <3>2. job'[r].pc \notin Unanswered
      BY <1>0, <2>2, <2>5, SMTT(30) DEF Unanswered
    <3>3. reply'[r] # NoSlot \/ failures' # 0
      <4>1. SlotId \cap {NoSlot} = {}
        BY TableAssumption, SMTT(30) DEF SlotId, NoSlot
      <4> QED
        BY <1>0, <1>7, <2>1, <2>5, <4>1 DEF NotifyPreemptor, PublishFails, TypeOK
    <3> QED
      BY <3>1, <3>2, <3>3, Zenon DEF Custody, AtMostOne
  <2> QED
    BY <2>4, <2>5
<1> QED
  BY <1>4, <1>5, <1>6, <1>7 DEF TimerStep

(* Custody is kept by the agents and their monitors.                       *)
LEMMA CustodyAgents ==
  ASSUME TypeOK, JobShape, NEW a \in Agents, Crash(a) \/ HeartbeatExpires(a) \/ Heartbeat(a),
         NEW r \in Reqs, Custody(r)
  PROVE  Custody(r)'
<1>1. UNCHANGED <<pendingQueue, inbox, reply, failures>>
  BY Zenon DEF Crash, HeartbeatExpires, Heartbeat, brokerVars
<1>2. InQueue(r)' = InQueue(r) /\ InInbox(r)' = InInbox(r)
  BY <1>1, SMTT(30) DEF InQueue, InInbox
<1>3. InHand(r)' = InHand(r) /\ SameStage(r)
  <2>1. CASE HeartbeatExpires(a)
    <3>1. PICK l \in {"queue", "exited"} : job' = [job EXCEPT ![a] = Resting(l)]
      BY <2>1, Zenon DEF HeartbeatExpires
    <3>2. job \in [Goroutines -> Job] /\ a \in Goroutines /\ job[a].pc = "watch"
      BY <2>1, Distinct, SMTT(30) DEF HeartbeatExpires, At, TypeOK
    <3>3. Resting(l).pc = l
      BY Pcs, Zenon
    <3> QED
      BY <3>1, <3>2, <3>3, JobKept, Zenon DEF Carrying, Unanswered
  <2> QED
    BY <2>1, Zenon DEF Crash, Heartbeat, brokerVars, InHand, SameStage, At
<1>4. /\ status'[r] = "idle" => status[r] = "idle"
      /\ status'[r] = "waiting" => status[r] = "waiting"
  BY SMTT(30) DEF Crash, HeartbeatExpires, Heartbeat, clientVars
<1> QED
  BY <1>1, <1>2, <1>3, <1>4, CustodyKept, AlikeSame, Zenon

(* Goroutine p answers the request it carries, or fails to, and then has   *)
(* job j.                                                                  *)
Answers(p, j) ==
  /\ \/ /\ job' = ScheduleReclaim([job EXCEPT ![p] = j], job[p].req)
        /\ reply' = [reply EXCEPT ![job[p].req] = job[p].slot]
        /\ UNCHANGED failures
     \/ /\ \/ job' = ScheduleReclaim([job EXCEPT ![p] = j], job[p].req)
           \/ job' = [job EXCEPT ![p] = j]
        /\ UNCHANGED reply
        /\ PublishFails
  /\ UNCHANGED <<pendingQueue, inbox, status>>

(* A goroutine answers the request it carries, or fails to: the request is *)
(* then in nobody's hands.                                                 *)
LEMMA CustodyAnswer ==
  ASSUME TypeOK, JobShape, \A x \in Reqs : Custody(x),
         NEW p \in Goroutines, job[p].pc \in {"send", "offer"},
         NEW j, j.pc \in {"idle", "exited", "queue"},
         Answers(p, j)
  PROVE  \A r \in Reqs : Custody(r)'
<1>0. /\ job \in [Goroutines -> Job] /\ reply \in [Reqs -> SlotId \cup {NoSlot}]
      /\ job[p].req \in Reqs /\ job[p].slot \in SlotId
      /\ Reqs \subseteq Goroutines
  BY Distinct DEF TypeOK, JobShape, JobOK, Carrying, SlotLabels
<1>q. PICK q \in Reqs : q = job[p].req
  BY <1>0, SMTT(30)
<1>1. \A r \in Reqs : InQueue(r)' = InQueue(r) /\ InInbox(r)' = InInbox(r)
  BY DEF Answers, InQueue, InInbox
<1>2. failures' = 0 => failures = 0
  BY DEF Answers, PublishFails, TypeOK
<1>3. p \in InHand(q)
  BY <1>q, SMTT(30) DEF InHand, Carrying
<1>4. /\ InHand(q) = {p} /\ job[q].pc = "none" /\ q # p
      /\ InInbox(q) = {} /\ InQueue(q) = {} /\ status[q] # "idle"
  BY <1>0, <1>3 DEF Custody, AtMostOne, At
<1>5. Resting("armed").pc = "armed"
  BY Pcs
<1>6. /\ job'[p] = j
      /\ \A x \in Goroutines : x # p /\ x # q => job'[x] = job[x]
      /\ job'[q].pc \in {"armed", "none"}
  BY <1>0, <1>q, <1>4, <1>5 DEF Answers, ScheduleReclaim
<1>7. \A r \in Reqs : InHand(r)' = InHand(r) \ {p}
  BY <1>0, <1>4, <1>6 DEF InHand, Carrying
<1>8. Custody(q)'
  <2>1. InHand(q)' = {} /\ InInbox(q)' = {} /\ InQueue(q)' = {} /\ status'[q] # "idle"
    BY <1>0, <1>1, <1>4, <1>7, SMTT(30) DEF Answers
  <2>2. CASE /\ job' = ScheduleReclaim([job EXCEPT ![p] = j], q)
             /\ reply' = [reply EXCEPT ![q] = job[p].slot]
    <3>1. job'[q].pc = "armed"
      BY <1>0, <1>5, <2>2 DEF ScheduleReclaim
    <3>2. reply'[q] # NoSlot
      BY <1>0, <2>2, TableAssumption, SMTT(30) DEF SlotId, NoSlot
    <3> QED
      BY <2>1, <3>1, <3>2, Zenon DEF Custody, AtMostOne, Unanswered
  <2>3. CASE UNCHANGED reply /\ PublishFails
    <3>1. reply'[q] = NoSlot /\ failures' # 0
      BY <1>0, <1>4, <2>3, SMTT(30) DEF Custody, Unanswered, PublishFails, TypeOK
    <3> QED
      BY <2>1, <3>1, Zenon DEF Custody, AtMostOne
  <2> QED
    BY <1>q, <2>2, <2>3, SMTT(30) DEF Answers
<1>9. ASSUME NEW r \in Reqs, r # q PROVE Custody(r)'
  <2>1. InHand(r)' = InHand(r)
    BY <1>q, <1>7, <1>9, Zenon DEF InHand
  <2>2. reply'[r] = reply[r]
    BY <1>0, <1>q, <1>9, SMTT(30) DEF Answers
  <2>3. SameStage(r)
    BY <1>0, <1>6, <1>9 DEF SameStage, At, Unanswered
  <2> QED
    BY <1>1, <1>2, <2>1, <2>2, <2>3, CustodyKept, AlikeSame, Zenon DEF Answers
<1> QED
  BY <1>8, <1>9, SMTT(30)
=============================================================================
