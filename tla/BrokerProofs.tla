---------------------------- MODULE BrokerProofs ----------------------------
(***************************************************************************)
(* Theorems about Broker, for every number of slots, agents and requests,  *)
(* every priority, any agents preemptible, shared or mortal.  They rest on *)
(* BrokerCustody: here the arbiter and assignFromQueue keep every request  *)
(* in its one place, and every offer is watched.                           *)
(***************************************************************************)
EXTENDS BrokerCustody

-----------------------------------------------------------------------------
(* The arbiter's steps keep the custody of every request.                  *)

(* Custody is kept by assignFromQueue.                                     *)
LEMMA CustodyQueue ==
  ASSUME TypeOK, JobShape, ScanShape, \A x \in Reqs : Custody(x),
         NEW p \in Goroutines, AssignFromQueueStep(p)
  PROVE  \A r \in Reqs : Custody(r)'
<1>0. job \in [Goroutines -> Job] /\ job[p] \in Job
  BY Zenon DEF TypeOK
<1>1. UNCHANGED <<inbox, status>> /\ \A r \in Reqs : InInbox(r)' = InInbox(r)
  BY Zenon DEF AssignFromQueueStep, StartScan, ScanNext, EndScan, GrantFromQueue, Requeue,
         OfferFromQueue, clientVars, InInbox
<1>2. ASSUME UNCHANGED <<pendingQueue, reply, failures>>, NEW j, job' = [job EXCEPT ![p] = j],
             j.pc \in Carrying <=> job[p].pc \in Carrying,
             j.pc \in Carrying => j.req = job[p].req,
             j.pc \notin Unanswered, job[p].pc \notin Unanswered
      PROVE  \A r \in Reqs : Custody(r)'
  <2> TAKE r \in Reqs
  <2>1. InHand(r)' = InHand(r) /\ SameStage(r)
    BY <1>0, <1>2, JobKept, Zenon DEF Unanswered
  <2>2. InQueue(r)' = InQueue(r)
    BY <1>2, Zenon DEF InQueue
  <2> QED
    BY <1>1, <1>2, <2>1, <2>2, CustodyKept, AlikeSame, Zenon
<1>3. CASE StartScan(p)
  <2>1. PICK j : job' = [job EXCEPT ![p] = j] /\ j.pc \in {"idle", "exited", "scan"}
    <3>1. Finished(p).pc \in {"idle", "exited"} /\ Scanning(1, 0, NoSlot).pc = "scan"
      BY Pcs
    <3> QED
      BY <1>3, <3>1, Zenon DEF StartScan
  <2> QED
    BY <1>2, <1>3, <2>1, Zenon DEF StartScan, At, Carrying, Unanswered
<1>4. CASE ScanNext(p)
  <2>1. PICK j : job' = [job EXCEPT ![p] = j] /\ j.pc = "scan"
    BY <1>4, Pcs DEF ScanNext
  <2> QED
    BY <1>2, <1>4, <2>1, Zenon DEF ScanNext, At, Carrying, Unanswered
<1>5. CASE EndScan(p)
  <2>1. CASE job[p].best = 0
    <3>1. job' = [job EXCEPT ![p] = Finished(p)] /\ UNCHANGED <<pendingQueue, reply, failures>>
      BY <1>5, <2>1, Zenon DEF EndScan
    <3> QED
      BY <1>2, <1>5, <3>1, Pcs, Zenon DEF EndScan, At, Carrying, Unanswered
  <2>2. CASE job[p].best # 0
    <3>k. PICK k \in 1 .. Len(pendingQueue) : k = job[p].best
      BY <1>0, <1>5, <2>2 DEF EndScan, ScanShape, At, TypeOK, Job
    <3>q. PICK q \in Reqs : q = pendingQueue[k]
      BY DEF TypeOK
    <3>1. job[p].pc = "scan"
      BY <1>5, Zenon DEF EndScan, At
    <3>2. /\ job' = [job EXCEPT ![p] = Doing("grant", q, job[p].slot)]
          /\ pendingQueue' = Without(pendingQueue, k)
          /\ UNCHANGED <<reply, failures>>
      BY <1>5, <2>2, <3>k, <3>q, Zenon DEF EndScan
    <3>3. \A r \in Reqs : /\ q # r => Alike(InQueue(r), InQueue(r)')
                          /\ q = r => InQueue(r) # {} /\ InQueue(r)' = {}
      BY <3>2, <3>q, QueueRemoves, Zenon DEF Custody
    <3>4. \A x \in Goroutines : job'[x] = IF x = p THEN Doing("grant", q, job[p].slot) ELSE job[x]
      BY <1>0, <3>2, Zenon
    <3>5. \A r \in Reqs : InHand(r)' = IF r = q THEN InHand(r) \cup {p} ELSE InHand(r)
      BY <3>1, <3>4, Pcs DEF InHand, Carrying
    <3>6. \A r \in Reqs : SameStage(r)
      BY <3>1, <3>4, Pcs, Distinct DEF SameStage, At, Unanswered
    <3>7. Custody(q)'
      <4>1. /\ InHand(q) = {} /\ InInbox(q) = {} /\ At(q, "none") /\ status[q] # "idle"
        BY <3>3, Zenon DEF Custody
      <4>2. /\ InHand(q)' = {p} /\ InInbox(q)' = {} /\ At(q, "none")' /\ status'[q] # "idle"
            /\ InQueue(q)' = {}
        BY <1>1, <3>1, <3>3, <3>5, <3>6, <4>1 DEF SameStage
      <4>3. reply'[q] = NoSlot
        BY <3>1, <3>2, <4>1 DEF Custody, At, Unanswered
      <4> QED
        BY <4>2, <4>3, Zenon DEF Custody, AtMostOne
    <3>8. ASSUME NEW r \in Reqs, r # q PROVE Custody(r)'
      BY <1>1, <3>2, <3>3, <3>5, <3>6, <3>8, CustodyKept, AlikeSame
    <3> QED
      BY <3>7, <3>8, Zenon
  <2> QED
    BY <2>1, <2>2, Zenon
<1>6. CASE GrantFromQueue(p)
  <2>1. PICK l \in {"offer", "requeue"} : job' = [job EXCEPT ![p] = Onward(p, l)]
    BY <1>6, Zenon DEF GrantFromQueue
  <2>2. Onward(p, l).pc = l /\ Onward(p, l).req = job[p].req
    BY Pcs
  <2>3. job[p].pc = "grant" /\ UNCHANGED <<pendingQueue, reply, failures>>
    BY <1>6, Zenon DEF GrantFromQueue, At
  <2> QED
    BY <1>2, <2>1, <2>2, <2>3, Zenon DEF Carrying, Unanswered
<1>7. CASE Requeue(p)
  <2>1. job[p].pc = "requeue" /\ job[p].req \in Reqs /\ UNCHANGED <<reply, failures>>
    BY <1>7, Zenon DEF Requeue, At, JobShape, JobOK, Carrying
  <2>q. PICK q \in Reqs : q = job[p].req
    BY <2>1, Zenon
  <2>2. \A r \in Reqs : InQueue(r)' =
          IF q = r THEN InQueue(r) \cup {Len(pendingQueue) + 1} ELSE InQueue(r)
    BY <1>7, <2>q, QueueAppends, Zenon DEF Requeue
  <2>3. \A x \in Goroutines : job'[x] = IF x = p THEN Finished(p) ELSE job[x]
    BY <1>0, <1>7, Zenon DEF Requeue
  <2>4. \A r \in Reqs : InHand(r)' = InHand(r) \ {p}
    BY <2>3, Pcs DEF InHand, Carrying
  <2>5. \A r \in Reqs : SameStage(r)
    BY <2>1, <2>3, Pcs, Distinct DEF SameStage, At, Unanswered
  <2>6. p \in InHand(q) /\ \A r \in Reqs : r # q => p \notin InHand(r)
    BY <2>1, <2>q DEF InHand, Carrying
  <2>7. Custody(q)'
    <3>1. /\ InHand(q) = {p} /\ InInbox(q) = {} /\ InQueue(q) = {}
          /\ At(q, "none") /\ status[q] # "idle"
      BY <2>1, <2>6 DEF Custody, AtMostOne
    <3>2. /\ InHand(q)' = {} /\ InInbox(q)' = {} /\ At(q, "none")' /\ status'[q] # "idle"
          /\ InQueue(q)' = {Len(pendingQueue) + 1}
      BY <1>1, <2>1, <2>2, <2>4, <2>5, <3>1, Zenon DEF SameStage
    <3>3. reply'[q] = NoSlot
      BY <2>1, <3>1 DEF Custody, At, Unanswered
    <3> QED
      BY <3>2, <3>3 DEF Custody, AtMostOne
  <2>8. ASSUME NEW r \in Reqs, r # q PROVE Custody(r)'
    <3>1. InHand(r)' = InHand(r) /\ InQueue(r)' = InQueue(r)
      BY <2>2, <2>4, <2>6, <2>8, Zenon
    <3> QED
      BY <1>1, <2>1, <2>5, <3>1, CustodyKept, AlikeSame
  <2> QED
    BY <2>7, <2>8, Zenon
<1>8. CASE OfferFromQueue(p)
  <2>1. Finished(p).pc \in {"idle", "exited", "queue"}
    BY Pcs, Zenon
  <2>2. job[p].pc \in {"send", "offer"} /\ Answers(p, Finished(p))
    BY <1>8, Zenon DEF OfferFromQueue, At, Answers, clientVars
  <2> QED
    BY <2>1, <2>2, CustodyAnswer
<1> QED
  BY <1>3, <1>4, <1>5, <1>6, <1>7, <1>8, Zenon DEF AssignFromQueueStep

(* Custody is kept by the arbiter.                                         *)
LEMMA CustodyArbiter ==
  ASSUME TypeOK, JobShape, \A x \in Reqs : Custody(x), ArbiterStep
  PROVE  \A r \in Reqs : Custody(r)'
<1>0. /\ job \in [Goroutines -> Job] /\ Arbiter \in Goroutines /\ Arbiter \notin Reqs
      /\ Reqs \subseteq Goroutines
  BY Distinct, Zenon DEF TypeOK
<1>1. status' = status
  BY Zenon DEF ArbiterStep, HandleSlotRequest, AssignFound, SendSlotAssigned, FindVictim, Enqueue,
         HandleSlotAssignedAck, HandleSlotRelease, clientVars
<1>2. ASSUME NEW j, job' = [job EXCEPT ![Arbiter] = j]
      PROVE  \A r \in Reqs : SameStage(r)
  BY <1>0, <1>2, Zenon DEF SameStage, At
<1>3. CASE HandleSlotRequest
  <2>q. PICK q \in Reqs : q = Head(inbox).req
    BY <1>3, HeadIsMessage, Zenon DEF HandleSlotRequest
  <2>1. /\ Receive("request") /\ job[Arbiter].pc = "idle"
        /\ UNCHANGED <<pendingQueue, reply, failures>>
    BY <1>3, Zenon DEF HandleSlotRequest, Receive, At
  <2>2. \A r \in Reqs : /\ r # q => Alike(InInbox(r), InInbox(r)')
                        /\ r = q => InInbox(r) # {} /\ InInbox(r)' = {}
    BY <2>q, <2>1, InboxReceives DEF Custody
  <2>3. \/ UNCHANGED job /\ ReqClass(q) \notin Classes
        \/ \E l \in {"victim", "assign"}, s \in SlotId \cup {NoSlot} :
             job' = [job EXCEPT ![Arbiter] = Doing(l, q, s)]
    BY <1>3, <2>q, FindUnassignedFinds DEF HandleSlotRequest
  <2>4. \A r \in Reqs : SameStage(r) /\ InQueue(r)' = InQueue(r)
    BY <1>2, <2>1, <2>3 DEF SameStage, At, InQueue
  <2>5. /\ \A r \in Reqs : r # q => InHand(r)' = InHand(r)
        /\ \/ InHand(q)' = InHand(q) /\ ReqClass(q) \notin Classes
           \/ InHand(q)' = InHand(q) \cup {Arbiter}
    <3>1. CASE UNCHANGED job /\ ReqClass(q) \notin Classes
      BY <3>1, Zenon DEF InHand
    <3>2. ASSUME NEW l \in {"victim", "assign"}, NEW s \in SlotId \cup {NoSlot},
                 job' = [job EXCEPT ![Arbiter] = Doing(l, q, s)]
          PROVE  /\ \A r \in Reqs : r # q => InHand(r)' = InHand(r)
                 /\ InHand(q)' = InHand(q) \cup {Arbiter}
      <4>1. Doing(l, q, s).pc \in Carrying /\ Doing(l, q, s).req = q
        BY Pcs DEF Carrying
      <4>2. \A x \in Goroutines : job'[x] = IF x = Arbiter THEN Doing(l, q, s) ELSE job[x]
        BY <1>0, <3>2, Zenon
      <4>3. job[Arbiter].pc \notin Carrying
        BY <2>1, Zenon DEF Carrying
      <4> QED
        BY <1>0, <4>1, <4>2, <4>3 DEF InHand
    <3> QED
      BY <2>3, <3>1, <3>2
  <2>6. Custody(q)'
    <3>1. InInbox(q) # {} /\ InInbox(q)' = {}
      BY <2>2, Zenon
    <3>2. InQueue(q) = {} /\ InHand(q) = {} /\ At(q, "none") /\ status[q] # "idle"
      BY <3>1, Zenon DEF Custody
    <3>3. InQueue(q)' = {} /\ At(q, "none")' /\ status'[q] # "idle"
      BY <1>1, <2>4, <3>2 DEF SameStage
    <3>4. reply'[q] = NoSlot
      BY <2>1, <3>2 DEF Custody, At, Unanswered
    <3>5. \/ InHand(q)' = {} /\ ReqClass(q) \notin Classes
          \/ InHand(q)' = {Arbiter}
      BY <2>5, <3>2
    <3> QED
      BY <3>1, <3>3, <3>4, <3>5 DEF Custody, AtMostOne, ReqClass
  <2>7. ASSUME NEW r \in Reqs, r # q PROVE Custody(r)'
    BY <1>1, <2>1, <2>2, <2>4, <2>5, <2>7, CustodyKept, AlikeSame
  <2> QED
    BY <2>6, <2>7, Zenon
<1>4. ASSUME UNCHANGED <<pendingQueue, reply, failures>>,
             \A r \in Reqs : Alike(InInbox(r), InInbox(r)'),
             NEW j, job' = [job EXCEPT ![Arbiter] = j],
             j.pc \in Carrying <=> job[Arbiter].pc \in Carrying,
             j.pc \in Carrying => j.req = job[Arbiter].req,
             j.pc \notin Unanswered, job[Arbiter].pc \notin Unanswered
      PROVE  \A r \in Reqs : Custody(r)'
  <2> TAKE r \in Reqs
  <2>1. InHand(r)' = InHand(r) /\ SameStage(r)
    BY <1>0, <1>4, JobKept, Zenon DEF Unanswered
  <2>2. InQueue(r)' = InQueue(r)
    BY <1>4, Zenon DEF InQueue
  <2> QED
    BY <1>1, <1>4, <2>1, <2>2, CustodyKept, AlikeSame
<1>5. UNCHANGED inbox => \A r \in Reqs : InInbox(r)' = InInbox(r)
  BY Zenon DEF InInbox
<1>6. CASE AssignFound
  <2>1. PICK l \in {"send", "enqueue"} : job' = [job EXCEPT ![Arbiter] = Onward(Arbiter, l)]
    BY <1>6, Zenon DEF AssignFound
  <2>2. Onward(Arbiter, l).pc = l /\ Onward(Arbiter, l).req = job[Arbiter].req
    BY Pcs
  <2>3. job[Arbiter].pc = "assign" /\ UNCHANGED <<pendingQueue, inbox, reply, failures>>
    BY <1>6, Zenon DEF AssignFound, At
  <2>4. \A r \in Reqs : Alike(InInbox(r), InInbox(r)')
    BY <1>5, <2>3, AlikeSame
  <2> QED
    BY <1>4, <2>1, <2>2, <2>3, <2>4, Zenon DEF Carrying, Unanswered
<1>7. CASE SendSlotAssigned
  <2>1. /\ Resting("idle").pc \in {"idle", "exited", "queue"}
        /\ Resting("queue").pc \in {"idle", "exited", "queue"}
    BY Pcs, Zenon
  <2>2. job[Arbiter].pc \in {"send", "offer"}
    BY <1>7, Zenon DEF SendSlotAssigned, At
  <2>3. Answers(Arbiter, Resting("idle")) \/ Answers(Arbiter, Resting("queue"))
    BY <1>7, Zenon DEF SendSlotAssigned, Answers, clientVars
  <2> QED
    BY <1>0, <2>1, <2>2, <2>3, CustodyAnswer, SMTT(30)
<1>8. CASE FindVictim
  <2>0. job[Arbiter].pc = "victim" /\ UNCHANGED <<pendingQueue, inbox, reply, failures>>
    BY <1>8, Zenon DEF FindVictim, At
  <2>1. \A r \in Reqs : InInbox(r)' = InInbox(r) /\ InQueue(r)' = InQueue(r)
    BY <2>0, Zenon DEF InInbox, InQueue
  <2>2. CASE job' = [job EXCEPT ![Arbiter] = Onward(Arbiter, "enqueue")]
    <3>1. Onward(Arbiter, "enqueue").pc = "enqueue" /\ Onward(Arbiter, "enqueue").req = job[Arbiter].req
      BY Pcs
    <3> QED
      BY <1>4, <2>0, <2>1, <2>2, <3>1, AlikeSame, Zenon DEF Carrying, Unanswered
  <2>3. ASSUME NEW s, NEW a,
               job' = [job EXCEPT ![Arbiter] = Resting("idle"),
                         ![job[Arbiter].req] = Preempting("preempt", job[Arbiter].req, s, a)]
        PROVE  \A r \in Reqs : Custody(r)'
    <3>1. job[Arbiter].req \in Reqs
      BY <1>0, <2>0, Zenon DEF JobShape, JobOK, Carrying
    <3>q. PICK q \in Reqs : q = job[Arbiter].req
      BY <3>1, Zenon
    <3>2. Resting("idle").pc = "idle" /\ Preempting("preempt", q, s, a).pc = "preempt"
      BY Pcs
    <3>3. /\ job'[Arbiter].pc = "idle" /\ job'[q].pc = "preempt"
          /\ \A x \in Goroutines : x # Arbiter /\ x # q => job'[x] = job[x]
      BY <1>0, <2>3, <3>q, <3>2, Zenon
    <3>4. Arbiter \in InHand(q) /\ \A r \in Reqs : r # q => Arbiter \notin InHand(r)
      BY <1>0, <2>0, <3>q DEF InHand, Carrying
    <3>5. /\ InHand(q) = {Arbiter} /\ InInbox(q) = {} /\ InQueue(q) = {} /\ job[q].pc = "none"
          /\ status[q] # "idle" /\ reply[q] = NoSlot
      BY <3>4 DEF Custody, AtMostOne, At, Unanswered
    <3>6. \A r \in Reqs : InHand(r)' = InHand(r) \ {Arbiter}
      BY <1>0, <3>3, <3>5 DEF InHand, Carrying
    <3>7. Custody(q)'
      <4>1. /\ InHand(q)' = {} /\ InInbox(q)' = {} /\ InQueue(q)' = {}
            /\ status'[q] # "idle" /\ reply'[q] = NoSlot
        BY <1>1, <2>0, <2>1, <3>5, <3>6
      <4> QED
        BY <3>3, <4>1, Zenon DEF Custody, AtMostOne, Unanswered
    <3>8. ASSUME NEW r \in Reqs, r # q PROVE Custody(r)'
      <4>1. SameStage(r) /\ InHand(r)' = InHand(r)
        BY <1>0, <3>3, <3>4, <3>6, <3>8 DEF SameStage, At
      <4> QED
        BY <1>1, <2>0, <2>1, <4>1, CustodyKept, AlikeSame
    <3> QED
      BY <3>7, <3>8, Zenon
  <2> QED
    BY <1>8, <2>2, <2>3 DEF FindVictim
<1>9. CASE Enqueue
  <2>1. /\ job[Arbiter].pc = "enqueue" /\ job[Arbiter].req \in Reqs
        /\ UNCHANGED <<inbox, reply, failures>>
    BY <1>0, <1>9, Zenon DEF Enqueue, At, JobShape, JobOK, Carrying
  <2>q. PICK q \in Reqs : q = job[Arbiter].req
    BY <2>1, Zenon
  <2>2. \A r \in Reqs : InQueue(r)' =
          IF q = r THEN InQueue(r) \cup {Len(pendingQueue) + 1} ELSE InQueue(r)
    BY <1>9, <2>q, QueueAppends DEF Enqueue
  <2>3. \A x \in Goroutines : job'[x] = IF x = Arbiter THEN Resting("idle") ELSE job[x]
    BY <1>0, <1>9 DEF Enqueue
  <2>4. \A r \in Reqs : InHand(r)' = InHand(r) \ {Arbiter}
    BY <2>3, Pcs DEF InHand, Carrying
  <2>5. \A r \in Reqs : SameStage(r)
    BY <1>2, <1>9, Zenon DEF Enqueue
  <2>6. Arbiter \in InHand(q) /\ \A r \in Reqs : r # q => Arbiter \notin InHand(r)
    BY <1>0, <2>1, <2>q, SMTT(30) DEF InHand, Carrying
  <2>7. Custody(q)'
    <3>1. /\ InHand(q) = {Arbiter} /\ InInbox(q) = {} /\ InQueue(q) = {}
          /\ At(q, "none") /\ status[q] # "idle"
      <4>1. Custody(q) /\ InHand(q) # {}
        BY <2>6, Zenon
      <4>2. AtMostOne(InHand(q)) /\ InInbox(q) = {} /\ InQueue(q) = {}
        BY <4>1, Zenon DEF Custody
      <4>3. At(q, "none") /\ status[q] # "idle"
        BY <4>1, Zenon DEF Custody
      <4>4. InHand(q) = {Arbiter}
        BY <2>6, <4>2 DEF AtMostOne
      <4> QED
        BY <4>2, <4>3, <4>4
    <3>2. /\ InHand(q)' = {} /\ InInbox(q)' = {} /\ At(q, "none")' /\ status'[q] # "idle"
          /\ InQueue(q)' = {Len(pendingQueue) + 1}
      BY <1>1, <1>5, <2>1, <2>2, <2>4, <2>5, <3>1 DEF SameStage
    <3>3. reply'[q] = NoSlot
      BY <2>1, <3>1 DEF Custody, At, Unanswered
    <3> QED
      BY <3>2, <3>3 DEF Custody, AtMostOne
  <2>8. ASSUME NEW r \in Reqs, r # q PROVE Custody(r)'
    <3>1. InHand(r)' = InHand(r) /\ InQueue(r)' = InQueue(r) /\ InInbox(r)' = InInbox(r)
      BY <1>5, <2>1, <2>2, <2>4, <2>6, <2>8, Zenon
    <3> QED
      BY <1>1, <2>1, <2>5, <3>1, CustodyKept, AlikeSame
  <2> QED
    BY <2>7, <2>8, Zenon
<1>10. CASE HandleSlotAssignedAck \/ HandleSlotRelease
  <2>1. PICK type \in {"ack", "release"} : Receive(type)
    BY <1>10 DEF HandleSlotAssignedAck, HandleSlotRelease
  <2>2. \A r \in Reqs : Alike(InInbox(r), InInbox(r)')
    BY <2>1, InboxReceives
  <2>3. job[Arbiter].pc = "idle" /\ UNCHANGED <<pendingQueue, reply, failures>>
    BY <1>10, Zenon DEF HandleSlotAssignedAck, HandleSlotRelease, Receive, At
  <2>4. Resting("queue").pc = "queue"
    BY Pcs
  <2>5. \E j : job' = [job EXCEPT ![Arbiter] = j] /\ j.pc \in {"idle", "queue"}
    <3>1. CASE UNCHANGED job
      BY <1>0, <2>3, <3>1
    <3> QED
      BY <1>10, <2>4, <3>1 DEF HandleSlotAssignedAck, HandleSlotRelease
  <2> QED
    BY <1>4, <2>2, <2>3, <2>5, Zenon DEF Carrying, Unanswered
<1> QED
  BY <1>3, <1>6, <1>7, <1>8, <1>9, <1>10 DEF ArbiterStep

(* Every step keeps every request in its one place.                        *)
LEMMA CustodyStep ==
  ASSUME TypeOK, JobShape, ScanShape, \A x \in Reqs : Custody(x), [Next]_vars
  PROVE  \A r \in Reqs : Custody(r)'
<1>1. CASE UNCHANGED vars
  <2>1. UNCHANGED <<inbox, pendingQueue, job, reply, status, failures>>
    BY <1>1, Zenon DEF vars
  <2>2. ASSUME NEW r \in Reqs
        PROVE  /\ InInbox(r)' = InInbox(r) /\ InQueue(r)' = InQueue(r) /\ InHand(r)' = InHand(r)
               /\ At(r, "none")' = At(r, "none")
    BY <2>1, Zenon DEF InInbox, InQueue, InHand, At
  <2>3. ASSUME NEW r \in Reqs PROVE Custody(r)'
    BY <2>1, <2>2, SMTT(30) DEF Custody
  <2>4. QED
    BY <2>3, Zenon
<1> QED
  BY <1>1, CustodyCallers, CustodyTimers, CustodyAgents, CustodyArbiter, CustodyQueue DEF Next

-----------------------------------------------------------------------------
(* Every offer is watched.                                                 *)

(* The entries that still carry a correlation id are as they were.         *)
Shrinks(t0, t1) == \A s \in SlotId : t1[s].corr # NoReq => t1[s] = t0[s]

(* The goroutines that watch over an offer go on doing so.                 *)
KeepsWatch == \A p \in Goroutines : job[p].pc \in {"armed", "send", "offer"} => job'[p] = job[p]

(* No other update of the table makes an offer.                            *)
LEMMA UpdatesShrink ==
  ASSUME slots \in [SlotId -> SlotEntry]
  PROVE  /\ Shrinks(slots, slots)
         /\ \A r \in Reqs : Shrinks(slots, CommitAssignment(slots, r))
         /\ \A r \in Reqs : Shrinks(slots, RevertProvisional(slots, r))
         /\ \A a, n : \A s \in SlotId : Shrinks(slots, ForceAssign(slots, s, a, n))
         /\ \A s \in SlotId : Shrinks(slots, Release(slots, s))
         /\ \A a : Shrinks(slots, ReleaseByAgent(slots, a))
BY Zenon DEF Shrinks, CommitAssignment, RevertProvisional, ForceAssign, Release, ReleaseByAgent, Unassigned

(* A revert leaves no offer under its correlation id.                      *)
LEMMA RevertClears ==
  ASSUME slots \in [SlotId -> SlotEntry], ProvisionalWatched, NEW r \in Reqs, NEW s \in SlotId
  PROVE  RevertProvisional(slots, r)[s].corr # r
<1>1. CASE slots[s].corr # r
  BY <1>1, TableAssumption DEF RevertProvisional, Unassigned
<1>2. CASE slots[s].corr = r
  <2>1. slots[s].state = "provisional"
    BY <1>2, TableAssumption DEF SlotEntry
  <2>2. \A x \in SlotId : slots[x].corr = r => x = s
    BY <1>2, <2>1 DEF ProvisionalWatched
  <2>3. s <= s
    BY TableAssumption DEF SlotId
  <2>4. s \in ProvisionalOf(slots, r)
    BY <1>2, <2>1, <2>2, <2>3 DEF ProvisionalOf
  <2> QED
    BY <2>4, TableAssumption DEF RevertProvisional, Unassigned
<1> QED
  BY <1>1, <1>2

(* A step that makes no offer, and after which each remaining offer is     *)
(* watched, keeps the invariant.                                           *)
LEMMA WatchKept ==
  ASSUME ProvisionalWatched, slots \in [SlotId -> SlotEntry], slots' \in [SlotId -> SlotEntry],
         Shrinks(slots, slots'),
         \A s \in SlotId : slots'[s].corr # NoReq =>
           /\ At(slots[s].corr, "armed") => (job'[slots[s].corr].pc = "armed")
           /\ \A p \in Goroutines :
                (job[p].pc \in {"send", "offer"} /\ job[p].req = slots[s].corr) =>
                  job'[p] = job[p] \/ job'[slots[s].corr].pc = "armed"
  PROVE  ProvisionalWatched'
<1> SUFFICES ASSUME NEW s \in SlotId, slots'[s].state = "provisional"
             PROVE  /\ \/ job'[slots'[s].corr].pc = "armed"
                       \/ \E p \in Goroutines : /\ job'[p].pc \in {"send", "offer"}
                                                /\ job'[p].req = slots'[s].corr
                                                /\ job'[p].slot = s
                    /\ \A x \in SlotId : slots'[x].corr = slots'[s].corr => x = s
  BY Zenon DEF ProvisionalWatched, At
<1>1. slots'[s].corr # NoReq /\ slots'[s] = slots[s]
  BY Zenon DEF SlotEntry, Shrinks
<1>2. \A x \in SlotId : slots'[x].corr = slots'[s].corr => x = s
  BY <1>1 DEF ProvisionalWatched, Shrinks
<1>3. \/ At(slots[s].corr, "armed")
      \/ \E p \in Goroutines : /\ job[p].pc \in {"send", "offer"}
                               /\ job[p].req = slots[s].corr
                               /\ job[p].slot = s
  BY <1>1 DEF ProvisionalWatched
<1> QED
  BY <1>1, <1>2, <1>3, SMTT(30)

LEMMA WatchersStay ==
  ASSUME ProvisionalWatched, slots \in [SlotId -> SlotEntry], slots' \in [SlotId -> SlotEntry],
         Shrinks(slots, slots'), KeepsWatch
  PROVE  ProvisionalWatched'
<1>1. ASSUME NEW s \in SlotId, slots'[s].corr # NoReq
      PROVE  slots[s].corr \in Goroutines
  BY <1>1, Distinct DEF Shrinks, SlotEntry
<1> QED
  BY <1>1, WatchKept, Zenon DEF KeepsWatch, At

(* A free slot is offered to a request that its goroutine carries.         *)
LEMMA WatchOffer ==
  ASSUME TypeOK, JobShape, ProvisionalWatched, \A x \in Reqs : Custody(x),
         NEW p \in Goroutines, job[p].pc \in {"assign", "grant"},
         slots' = AssignProvisional(slots, job[p].slot, AgentOf[job[p].req],
                                    ReqPriority(job[p].req), job[p].req),
         NEW l \in {"send", "offer"}, job' = [job EXCEPT ![p] = Onward(p, l)]
  PROVE  ProvisionalWatched'
<1>0. /\ job \in [Goroutines -> Job] /\ slots \in [SlotId -> SlotEntry]
      /\ job[p].req \in Reqs /\ job[p].slot \in SlotId
  BY Zenon DEF TypeOK, JobShape, JobOK, Carrying, SlotLabels
<1>q. PICK q \in Reqs : q = job[p].req
  BY <1>0, Zenon
<1>s. PICK s \in SlotId : s = job[p].slot
  BY <1>0, Zenon
<1>1. InHand(q) = {p} /\ job[q].pc = "none"
  <2>1. p \in InHand(q)
    BY <1>q, Zenon DEF InHand, Carrying
  <2> QED
    BY <2>1, SMTT(30) DEF Custody, AtMostOne, At
<1>2. \A x \in SlotId : slots[x].corr # q
  <2> SUFFICES ASSUME NEW x \in SlotId, slots[x].corr = q PROVE FALSE
    BY Zenon
  <2>1. slots[x].state = "provisional"
    BY <1>0, TableAssumption, SMTT(30) DEF SlotEntry
  <2>2. PICK y \in Goroutines : job[y].pc \in {"send", "offer"} /\ job[y].req = q
    BY <1>1, <2>1, SMTT(30) DEF ProvisionalWatched, At
  <2>3. y \in InHand(q)
    BY <2>2, Zenon DEF InHand, Carrying
  <2> QED
    BY <1>1, <2>2, <2>3, Zenon
<1>3. /\ slots'[s].state = "provisional" /\ slots'[s].corr = q
      /\ \A x \in SlotId : x # s => slots'[x] = slots[x]
  BY <1>0, <1>q, <1>s DEF AssignProvisional
<1>4. /\ job'[p].pc \in {"send", "offer"} /\ job'[p].req = q /\ job'[p].slot = s
      /\ \A x \in Goroutines : x # p => job'[x] = job[x]
  BY <1>0, <1>q, <1>s DEF Onward, Doing, Preempting
<1>5. ASSUME NEW x \in SlotId, slots'[x].state = "provisional"
      PROVE  /\ \/ job'[slots'[x].corr].pc = "armed"
                \/ \E y \in Goroutines : /\ job'[y].pc \in {"send", "offer"}
                                         /\ job'[y].req = slots'[x].corr
                                         /\ job'[y].slot = x
             /\ \A z \in SlotId : slots'[z].corr = slots'[x].corr => z = x
  <2>1. CASE x = s
    <3>1. \E y \in Goroutines : /\ job'[y].pc \in {"send", "offer"}
                                 /\ job'[y].req = slots'[x].corr
                                 /\ job'[y].slot = x
      BY <1>3, <1>4, <2>1, Zenon
    <3>2. ASSUME NEW z \in SlotId, slots'[z].corr = slots'[x].corr PROVE z = x
      BY <1>2, <1>3, <2>1, <3>2, Zenon
    <3>3. QED
      BY <3>1, <3>2, Zenon
  <2>2. CASE x # s
    <3>1. slots'[x] = slots[x] /\ slots[x].state = "provisional" /\ slots[x].corr \in Goroutines
      BY <1>0, <1>3, <1>5, <2>2, Distinct, SMTT(30) DEF SlotEntry
    <3>2. \/ job[slots[x].corr].pc = "armed"
          \/ \E y \in Goroutines : /\ job[y].pc \in {"send", "offer"}
                                   /\ job[y].req = slots[x].corr
                                   /\ job[y].slot = x
      BY <3>1, SMTT(30) DEF ProvisionalWatched, At
    <3>3. \A y \in Goroutines : job[y].pc \in {"armed", "send", "offer"} => job'[y] = job[y]
      BY <1>4
    <3>4. \A z \in SlotId : slots'[z].corr = slots'[x].corr => z = x
      BY <1>2, <1>3, <2>2, <3>1, SMTT(30) DEF ProvisionalWatched
    <3>5. CASE job[slots[x].corr].pc = "armed"
      BY <3>1, <3>3, <3>4, <3>5, Zenon
    <3>6. CASE \E y \in Goroutines : /\ job[y].pc \in {"send", "offer"}
                                     /\ job[y].req = slots[x].corr
                                     /\ job[y].slot = x
      <4>1. PICK y \in Goroutines : /\ job[y].pc \in {"send", "offer"}
                                    /\ job[y].req = slots[x].corr
                                    /\ job[y].slot = x
        BY <3>6, Zenon
      <4>2. job'[y] = job[y]
        BY <3>3, <4>1, Zenon
      <4> QED
        BY <3>1, <3>4, <4>1, <4>2, Zenon
    <3> QED
      BY <3>2, <3>5, <3>6, Zenon
  <2> QED
    BY <2>1, <2>2, Zenon
<1> QED
  BY <1>5, Zenon DEF ProvisionalWatched, At

(* An offer that is published is watched by its reclaim; one that is not   *)
(* is reverted.                                                            *)
LEMMA WatchAnswer ==
  ASSUME TypeOK, JobShape, ProvisionalWatched, \A x \in Reqs : Custody(x),
         slots' \in [SlotId -> SlotEntry],
         NEW p \in Goroutines, job[p].pc \in {"send", "offer"},
         NEW j, Answers(p, j),
         \/ slots' = slots /\ job' = ScheduleReclaim([job EXCEPT ![p] = j], job[p].req)
         \/ slots' = RevertProvisional(slots, job[p].req)
  PROVE  ProvisionalWatched'
<1>0. /\ job \in [Goroutines -> Job] /\ slots \in [SlotId -> SlotEntry] /\ Reqs \subseteq Goroutines
      /\ job[p].req \in Reqs
  BY Distinct DEF TypeOK, JobShape, JobOK, Carrying
<1>q. PICK q \in Reqs : q = job[p].req
  BY <1>0, Zenon
<1>1. InHand(q) = {p} /\ job[q].pc = "none" /\ q # p
  <2>1. p \in InHand(q)
    BY <1>q, Zenon DEF InHand, Carrying
  <2> QED
    BY <2>1 DEF Custody, AtMostOne, At
<1>2. \A x \in Goroutines : x # p /\ x # q => job'[x] = job[x]
  BY <1>0, <1>q DEF Answers, ScheduleReclaim
<1>3. Shrinks(slots, slots')
  BY <1>0, UpdatesShrink
<1>4. ASSUME NEW s \in SlotId, slots'[s].corr # NoReq
      PROVE  slots[s].corr \in Reqs /\ slots'[s] = slots[s]
  BY <1>0, <1>3, <1>4, SMTT(30) DEF Shrinks, SlotEntry
<1>5. \/ job'[q].pc = "armed"
      \/ \A s \in SlotId : slots'[s].corr # q
  <2>1. CASE job' = ScheduleReclaim([job EXCEPT ![p] = j], job[p].req)
    BY <1>0, <1>q, <2>1, Pcs DEF ScheduleReclaim
  <2>2. CASE slots' = RevertProvisional(slots, job[p].req)
    BY <1>0, <1>q, <2>2, RevertClears, SMTT(30)
  <2> QED
    BY <2>1, <2>2
<1> QED
  BY <1>0, <1>q, <1>1, <1>2, <1>3, <1>4, <1>5, WatchKept, SMTT(30) DEF At

(* The reclaim timer leaves its watch when there is nothing to watch.      *)
LEMMA WatchReclaim ==
  ASSUME TypeOK, ProvisionalWatched, slots' \in [SlotId -> SlotEntry],
         NEW r \in Reqs, ReclaimFires(r)
  PROVE  ProvisionalWatched'
<1>0. /\ job \in [Goroutines -> Job] /\ slots \in [SlotId -> SlotEntry] /\ Reqs \subseteq Goroutines
      /\ slots' = RevertProvisional(slots, r) /\ job[r].pc = "armed"
  BY Distinct DEF TypeOK, ReclaimFires, At
<1>1. \A x \in Goroutines : x # r => job'[x] = job[x]
  BY <1>0 DEF ReclaimFires
<1>2. Shrinks(slots, slots')
  BY <1>0, UpdatesShrink
<1>3. ASSUME NEW s \in SlotId, slots'[s].corr # NoReq
      PROVE  slots[s].corr \in Reqs /\ slots'[s] = slots[s] /\ slots[s].corr # r
  BY <1>0, <1>2, <1>3, RevertClears DEF Shrinks, SlotEntry
<1> QED
  BY <1>0, <1>1, <1>2, <1>3, WatchKept DEF At

(* Every step keeps every offer watched.                                   *)
LEMMA WatchStep ==
  ASSUME TypeOK, JobShape, ScanShape, ProvisionalWatched, \A x \in Reqs : Custody(x), [Next]_vars
  PROVE  ProvisionalWatched'
<1>0. /\ job \in [Goroutines -> Job] /\ slots \in [SlotId -> SlotEntry]
      /\ slots' \in [SlotId -> SlotEntry]
      /\ Arbiter \in Goroutines /\ Reqs \subseteq Goroutines /\ Agents \subseteq Goroutines
  BY SlotsType, Distinct DEF TypeOK
<1>1. ASSUME NEW p \in Goroutines, NEW j, job' = [job EXCEPT ![p] = j],
             job[p].pc \notin {"armed", "send", "offer"}
      PROVE  KeepsWatch
  BY <1>0, <1>1 DEF KeepsWatch
<1>2. UNCHANGED job => KeepsWatch
  BY Zenon DEF KeepsWatch
<1>3. ASSUME NEW r \in Reqs, CallerStep(r) PROVE ProvisionalWatched'
  BY <1>0, <1>2, <1>3, CallersKeepBroker, UpdatesShrink, WatchersStay
<1>4. ASSUME NEW r \in Reqs, TimerStep(r) PROVE ProvisionalWatched'
  <2>0. job[r].pc \in {"release", "force"} => job[r].slot \in SlotId
    BY <1>0 DEF JobShape, JobOK, PreemptLabels
  <2>1. CASE ReclaimFires(r)
    BY <1>0, <2>1, WatchReclaim
  <2>2. CASE PreemptTimeout(r)
    BY <1>0, <1>1, <2>2, UpdatesShrink, WatchersStay, Zenon DEF PreemptTimeout, At
  <2>3. CASE ForceRelease(r)
    BY <1>0, <1>1, <2>0, <2>3, UpdatesShrink, WatchersStay, Zenon DEF ForceRelease, At
  <2>4. CASE ForceAssignSlot(r)
    BY <1>0, <1>1, <2>0, <2>4, UpdatesShrink, WatchersStay, Zenon DEF ForceAssignSlot, At
  <2>5. CASE NotifyPreemptor(r)
    <3>1. KeepsWatch
      <4>1. job[r].pc = "notify" /\ \E j : job' = [job EXCEPT ![r] = j]
        BY <2>5, Zenon DEF NotifyPreemptor, At
      <4> QED
        BY <1>0, <1>1, <4>1, Zenon
    <3>2. Shrinks(slots, slots')
      BY <1>0, <2>5, UpdatesShrink DEF NotifyPreemptor
    <3> QED
      BY <1>0, <3>1, <3>2, WatchersStay
  <2> QED
    BY <1>4, <2>1, <2>2, <2>3, <2>4, <2>5, SMTT(30) DEF TimerStep
<1>5. ASSUME NEW a \in Agents, Crash(a) \/ HeartbeatExpires(a) \/ Heartbeat(a)
      PROVE  ProvisionalWatched'
  <2>1. KeepsWatch
    BY <1>0, <1>1, <1>2, <1>5, SMTT(30) DEF Crash, HeartbeatExpires, Heartbeat, brokerVars, At
  <2>2. Shrinks(slots, slots')
    BY <1>0, <1>5, UpdatesShrink DEF Crash, HeartbeatExpires, Heartbeat, brokerVars
  <2> QED
    BY <1>0, <2>1, <2>2, WatchersStay, SMTT(30)
<1>6. ASSUME NEW p \in Goroutines, AssignFromQueueStep(p) PROVE ProvisionalWatched'
  <2>1. CASE StartScan(p) \/ ScanNext(p) \/ EndScan(p) \/ Requeue(p)
    <3>1. UNCHANGED slots /\ job[p].pc \in {"queue", "scan", "requeue"}
      BY <2>1, Zenon DEF StartScan, ScanNext, EndScan, Requeue, At
    <3>2. \E j : job' = [job EXCEPT ![p] = j]
      BY <2>1, Zenon DEF StartScan, ScanNext, EndScan, Requeue
    <3>3. KeepsWatch
      BY <1>1, <3>1, <3>2, Zenon
    <3> QED
      BY <1>0, <3>1, <3>3, UpdatesShrink, WatchersStay, SMTT(30)
  <2>2. CASE GrantFromQueue(p)
    <3>1. job[p].pc = "grant"
      BY <2>2, Zenon DEF GrantFromQueue, At
    <3>2. CASE CanAssign(slots, job[p].slot)
      BY <2>2, <3>1, <3>2, WatchOffer, Zenon DEF GrantFromQueue
    <3>3. CASE ~CanAssign(slots, job[p].slot)
      <4>1. job' = [job EXCEPT ![p] = Onward(p, "requeue")] /\ UNCHANGED slots
        BY <2>2, <3>3, Zenon DEF GrantFromQueue
      <4> QED
        BY <1>0, <1>1, <3>1, <4>1, UpdatesShrink, WatchersStay, Zenon
    <3> QED
      BY <3>2, <3>3, SMTT(30)
  <2>3. CASE OfferFromQueue(p)
    <3>1. job[p].pc \in {"send", "offer"} /\ Answers(p, Finished(p))
      BY <2>3, Zenon DEF OfferFromQueue, At, Answers, clientVars
    <3>2. \/ slots' = slots /\ job' = ScheduleReclaim([job EXCEPT ![p] = Finished(p)], job[p].req)
          \/ slots' = RevertProvisional(slots, job[p].req)
      BY <2>3, Zenon DEF OfferFromQueue
    <3> QED
      BY <1>0, <3>1, <3>2, WatchAnswer, Zenon
  <2> QED
    BY <1>6, <2>1, <2>2, <2>3 DEF AssignFromQueueStep
<1>7. ASSUME ArbiterStep PROVE ProvisionalWatched'
  <2>1. CASE HandleSlotRequest \/ HandleSlotAssignedAck \/ HandleSlotRelease \/ Enqueue
    <3>1. KeepsWatch
      <4>1. job[Arbiter].pc \in {"idle", "enqueue"}
        BY <2>1, Zenon
           DEF HandleSlotRequest, HandleSlotAssignedAck, HandleSlotRelease, Enqueue, Receive, At
      <4>2. UNCHANGED job \/ \E j : job' = [job EXCEPT ![Arbiter] = j]
        BY <2>1, Zenon DEF HandleSlotRequest, HandleSlotAssignedAck, HandleSlotRelease, Enqueue
      <4> QED
        BY <1>0, <1>1, <1>2, <4>1, <4>2, Zenon
    <3>2. Shrinks(slots, slots')
      BY <1>0, <2>1, UpdatesShrink, HeadIsMessage, Zenon
         DEF HandleSlotRequest, HandleSlotAssignedAck, HandleSlotRelease, Enqueue
    <3> QED
      BY <1>0, <3>1, <3>2, WatchersStay, Zenon
  <2>2. CASE AssignFound
    <3>1. job[Arbiter].pc = "assign"
      BY <2>2, Zenon DEF AssignFound, At
    <3>2. CASE CanAssign(slots, job[Arbiter].slot)
      BY <1>0, <2>2, <3>1, <3>2, WatchOffer, Zenon DEF AssignFound
    <3>3. CASE ~CanAssign(slots, job[Arbiter].slot)
      <4>1. job' = [job EXCEPT ![Arbiter] = Onward(Arbiter, "enqueue")] /\ UNCHANGED slots
        BY <2>2, <3>3, Zenon DEF AssignFound
      <4> QED
        BY <1>0, <1>1, <3>1, <4>1, UpdatesShrink, WatchersStay, Zenon
    <3> QED
      BY <3>2, <3>3, Zenon
  <2>3. CASE SendSlotAssigned
    <3>1. job[Arbiter].pc \in {"send", "offer"}
      BY <2>3, Zenon DEF SendSlotAssigned, At
    <3>2. \E j : /\ Answers(Arbiter, j)
                 /\ \/ /\ slots' = slots
                       /\ job' = ScheduleReclaim([job EXCEPT ![Arbiter] = j], job[Arbiter].req)
                    \/ slots' = RevertProvisional(slots, job[Arbiter].req)
      BY <2>3, Zenon DEF SendSlotAssigned, Answers, clientVars
    <3> QED
      BY <1>0, <3>1, <3>2, WatchAnswer, Zenon
  <2>4. CASE FindVictim
    <3>1. job[Arbiter].pc = "victim" /\ job[Arbiter].req \in Reqs /\ UNCHANGED slots
      BY <1>0, <2>4, SMTT(30) DEF FindVictim, At, JobShape, JobOK, Carrying
    <3>2. job[job[Arbiter].req].pc = "none"
      <4>1. Arbiter \in InHand(job[Arbiter].req)
        BY <1>0, <3>1, Zenon DEF InHand, Carrying
      <4> QED
        BY <3>1, <4>1, Zenon DEF Custody, At
    <3>3. \A x \in Goroutines : x # Arbiter /\ x # job[Arbiter].req => job'[x] = job[x]
      BY <1>0, <2>4, Zenon DEF FindVictim
    <3>4. KeepsWatch
      BY <3>1, <3>2, <3>3 DEF KeepsWatch
    <3> QED
      BY <1>0, <3>1, <3>4, UpdatesShrink, WatchersStay, SMTT(30)
  <2> QED
    BY <1>7, <2>1, <2>2, <2>3, <2>4, Zenon DEF ArbiterStep
<1>8. CASE UNCHANGED vars
  BY <1>0, <1>2, <1>8, UpdatesShrink, WatchersStay DEF vars
<1> QED
  BY <1>3, <1>4, <1>5, <1>6, <1>7, <1>8 DEF Next

-----------------------------------------------------------------------------
(* The theorems.                                                           *)

LEMMA InitIInv == Init => IInv
<1> SUFFICES ASSUME Init PROVE IInv
  BY Zenon
<1>1. \A p \in Goroutines : job[p] = Resting(IF p = Arbiter THEN "idle"
                                             ELSE IF p \in Agents THEN "watch" ELSE "none")
  BY Zenon DEF Init
<1>2. job \in [Goroutines -> Job] /\ JobShape
  <2>1. JobOK(Arbiter, Resting("idle"))
    BY JobShapes, Zenon
  <2>2. \A r \in Reqs : JobOK(r, Resting("none"))
    BY Distinct, Zenon DEF JobOK, Job, Labels, TimerLabels, Carrying, SlotLabels, PreemptLabels,
                    Resting, Doing, Preempting
  <2>3. \A a \in Agents : JobOK(a, Resting("watch"))
    BY Distinct, Zenon DEF JobOK, Job, Labels, MonitorLabels, Carrying, SlotLabels, PreemptLabels,
                    Resting, Doing, Preempting
  <2>4. \A p \in Goroutines : JobOK(p, job[p])
    BY <1>1, <2>1, <2>2, <2>3, Distinct, Zenon DEF Goroutines
  <2>5. job \in [Goroutines -> Job]
    <3>1. job = [p \in Goroutines |-> job[p]]
      BY Zenon DEF Init
    <3>2. \A p \in Goroutines : job[p] \in Job
      BY <2>4, Zenon DEF JobOK
    <3> QED
      BY <3>1, <3>2, Zenon
  <2> QED
    BY <2>4, <2>5, Zenon DEF JobShape
<1>3. slots \in [SlotId -> SlotEntry] /\ \A s \in SlotId : slots[s].state = "unassigned"
  BY TableAssumption DEF Init, NewSlotTable, Unassigned, SlotEntry, States
<1>4. TypeOK
  BY <1>2, <1>3, BrokerAssumption, SMTT(30) DEF Init, TypeOK
<1>5. \A p \in Goroutines : job[p].pc \in {"idle", "watch", "none"}
  BY <1>1, Pcs
<1>6. ScanShape
  BY <1>5, Zenon DEF ScanShape, At
<1>7. \A r \in Reqs : Custody(r)
  <2> TAKE r \in Reqs
  <2>1. InInbox(r) = {} /\ InQueue(r) = {} /\ InHand(r) = {}
    BY <1>5, SMTT(30) DEF Init, InInbox, InQueue, InHand, Carrying
  <2>2. At(r, "none") /\ reply[r] = NoSlot /\ status[r] = "idle"
    BY <1>1, Pcs, Distinct, Zenon DEF Init, At
  <2> QED
    BY <2>1, <2>2 DEF Custody, AtMostOne
<1>8. ProvisionalWatched /\ ClassIsolation
  BY <1>3, Zenon DEF ProvisionalWatched, ClassIsolation, Init
<1> QED
  BY <1>2, <1>4, <1>6, <1>7, <1>8, CustodyIs DEF IInv

LEMMA NextIInv == IInv /\ [Next]_vars => IInv'
<1> SUFFICES ASSUME IInv, [Next]_vars PROVE IInv'
  BY Zenon
<1>1. TypeOK /\ JobShape /\ ScanShape /\ ProvisionalWatched /\ ClassIsolation
  BY Zenon DEF IInv
<1>2. \A r \in Reqs : Custody(r)
  BY CustodyIs, Zenon DEF IInv
<1>3. TypeOK' /\ JobShape' /\ ScanShape'
  BY <1>1, TypeStep, Zenon
<1>4. ClassIsolation'
  BY <1>1, ClassStep, Zenon
<1>5. \A r \in Reqs : Custody(r)'
  BY <1>1, <1>2, CustodyStep, Zenon
<1>6. ProvisionalWatched'
  BY <1>1, <1>2, WatchStep, Zenon
<1>7. (SingleCustody /\ FreshRequests /\ NoLostRequest)'
  BY <1>5, Zenon DEF SingleCustody, FreshRequests, NoLostRequest, Custody
<1> QED
  BY <1>3, <1>4, <1>6, <1>7 DEF IInv

(* The inductive invariant holds of every behaviour.                       *)
THEOREM Invariant == Spec => []IInv
BY InitIInv, NextIInv, PTL DEF Spec

(* Every variable of the broker and its callers keeps its type.            *)
THEOREM TypeCorrect == Spec => []TypeOK
<1>1. IInv => TypeOK
  BY Zenon DEF IInv
<1> QED
  BY <1>1, Invariant, PTL

(* No slot serves a request of another class, whatever the goroutines'     *)
(* interleaving: through handleSlotRequest, assignFromQueue or a           *)
(* preemption.                                                             *)
THEOREM ClassesIsolated == Spec => []ClassIsolation
<1>1. IInv => ClassIsolation
  BY Zenon DEF IInv
<1> QED
  BY <1>1, Invariant, PTL

(* A request is never in two places, so enqueue, the re-enqueue after a    *)
(* collision and the removal by assignFromQueue never duplicate one.       *)
THEOREM OneCustodian == Spec => []SingleCustody
<1>1. IInv => SingleCustody
  BY Zenon DEF IInv
<1> QED
  BY <1>1, Invariant, PTL

(* Every provisional slot has its reclaim timer armed or its offer still   *)
(* being made, and correlation ids tell offers apart.                      *)
THEOREM OffersWatched == Spec => []ProvisionalWatched
<1>1. IInv => ProvisionalWatched
  BY Zenon DEF IInv
<1> QED
  BY <1>1, Invariant, PTL

(* Without publish failures no interleaving of the broker's goroutines     *)
(* drops a request for a known class that its caller waits on.             *)
THEOREM RequestsKept == Spec => []NoLostRequest
<1>1. IInv => NoLostRequest
  BY Zenon DEF IInv
<1> QED
  BY <1>1, Invariant, PTL

(* A caller's reply, once published, is not overwritten by a second grant. *)
THEOREM AnsweredOnce == Spec => ReplyOnce
<1>1. ASSUME IInv, [Next]_vars
      PROVE  [\A r \in Reqs : reply[r] # NoSlot => reply'[r] = reply[r]]_vars
  <2> SUFFICES ASSUME NEW r \in Reqs, reply[r] # NoSlot PROVE reply'[r] = reply[r]
    BY Zenon
  <2>0. /\ job \in [Goroutines -> Job] /\ reply \in [Reqs -> SlotId \cup {NoSlot}] /\ JobShape
        /\ job[r].pc \notin Unanswered /\ InHand(r) = {}
    BY <1>1, Zenon DEF IInv, TypeOK, SingleCustody, At, Unanswered
  <2>1. \A p \in Goroutines : job[p].pc \in {"send", "offer"} => job[p].req # r
    BY <2>0, Zenon DEF InHand, Carrying
  <2>2. ASSUME NEW q \in Reqs, CallerStep(q) PROVE reply'[r] = reply[r]
    BY <2>2, CallersKeepBroker, Zenon
  <2>3. ASSUME NEW q \in Reqs, TimerStep(q) PROVE reply'[r] = reply[r]
    <3>1. CASE NotifyPreemptor(q)
      BY <2>0, <3>1, Zenon DEF NotifyPreemptor, At, Unanswered
    <3> QED
      BY <2>3, <3>1, Zenon DEF TimerStep, ReclaimFires, PreemptTimeout, ForceRelease, ForceAssignSlot
  <2>4. ASSUME NEW a \in Agents, Crash(a) \/ HeartbeatExpires(a) \/ Heartbeat(a)
        PROVE  reply'[r] = reply[r]
    BY <2>4, Zenon DEF Crash, HeartbeatExpires, Heartbeat
  <2>5. ASSUME NEW p \in Goroutines, AssignFromQueueStep(p) PROVE reply'[r] = reply[r]
    BY <2>0, <2>1, <2>5, Zenon
       DEF AssignFromQueueStep, StartScan, ScanNext, EndScan, GrantFromQueue, Requeue,
           OfferFromQueue, At
  <2>6. ASSUME ArbiterStep PROVE reply'[r] = reply[r]
    <3>1. CASE SendSlotAssigned
      BY <2>0, <2>1, <3>1, Distinct, Zenon DEF SendSlotAssigned, At
    <3> QED
      BY <2>6, <3>1, Zenon DEF ArbiterStep, HandleSlotRequest, AssignFound, FindVictim, Enqueue,
                        HandleSlotAssignedAck, HandleSlotRelease
  <2> QED
    BY <1>1, <2>2, <2>3, <2>4, <2>5, <2>6, SMTT(30) DEF Next, vars
<1> QED
  BY <1>1, Invariant, PTL DEF Spec, ReplyOnce
=============================================================================
