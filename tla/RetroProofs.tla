----------------------------- MODULE RetroProofs ----------------------------
(***************************************************************************)
(* The retro-agent's jobs, for any jobs, histories, triggers, faults and   *)
(* crashes: two runs of a job never overlap while no run outlasts its      *)
(* lock, and a checkpoint passes over no message that was not dealt with.  *)
(*                                                                         *)
(* The first rests on whom a lock belongs to: the gateway that asks for a  *)
(* run, the trigger in the stream, or the goroutine that runs.  The second *)
(* rests on the copies that runs work with: the checkpoint a run loaded    *)
(* and the length of the history it read are in the past.                  *)
(***************************************************************************)
EXTENDS Retro, TLAPS

-----------------------------------------------------------------------------
(* The retro-agent's jobs *)

Pcs == Running \cup {"idle", "load", "lock", "ended"}
WorkerRecords == [pc : Pcs, todo : Seq(Jobs), cp : Nat, len : Nat]

\* Types, with what the history, the checkpoints and a run's copies of them
\* have to do with each other.
RetroTypes ==
    /\ hist \in Nat /\ pending \subseteq Timers
    /\ lock \in [Jobs -> BOOLEAN] /\ cp \in [Jobs -> Nat]
    /\ gw \in Jobs \cup {"none"} /\ triggers \in Seq(Jobs)
    /\ worker \in [Workers -> WorkerRecords]
    /\ slot \in Slots \cup {NoSlot} /\ assigned \subseteq Slots
    /\ DOMAIN done = Jobs
    /\ used \in [events : Nat, triggers : Nat, preempts : Nat, faults : Nat, overruns : Nat]

\* A goroutine at work has a job; the consumer has exactly one.
HasJob(w) ==
    /\ worker[w].pc # "idle" => worker[w].todo # <<>>
    /\ w = Consumer /\ worker[w].pc # "idle" =>
          Len(worker[w].todo) = 1 /\ worker[w].pc # "lock"

\* The checkpoint and the length a run works with are in the past.
Marks(w) ==
    /\ worker[w].pc \in Running \cup {"lock"} => worker[w].cp <= hist
    /\ worker[w].len <= hist
    /\ worker[w].pc \in {"slot", "exec", "infer", "save"} => worker[w].cp <= worker[w].len

\* A goroutine's record with the given fields.
Fields(r, p, t, c, l) ==
    r \in WorkerRecords /\ r.pc = p /\ r.todo = t /\ r.cp = c /\ r.len = l

\* A step changes goroutine w to the given fields and no other goroutine.
Put(w, p, t, c, l) ==
    /\ worker' \in [Workers -> WorkerRecords] /\ Fields(worker'[w], p, t, c, l)
    /\ \A v \in Workers : v # w => worker'[v] = worker[v]

\* Replacing the record of w.
LEMMA RecordPuts ==
  ASSUME RetroTypes, NEW w \in Workers, NEW r, NEW p, NEW t, NEW c, NEW l,
         Fields(r, p, t, c, l), worker' = [worker EXCEPT ![w] = r]
  PROVE  Put(w, p, t, c, l)
  BY Zenon DEF RetroTypes, Fields, Put

\* The types of a goroutine's fields.
LEMMA WorkerIs ==
  ASSUME RetroTypes, NEW w \in Workers
  PROVE  /\ worker[w] \in WorkerRecords
         /\ worker[w].pc \in Pcs /\ worker[w].todo \in Seq(Jobs)
         /\ worker[w].cp \in Nat /\ worker[w].len \in Nat
  BY Zenon DEF RetroTypes, WorkerRecords

\* A record with one field changed, or two, field by field.
LEMMA ChangedRecord ==
  ASSUME NEW r \in WorkerRecords, NEW p \in Pcs
  PROVE  /\ Fields([r EXCEPT !.pc = p], p, r.todo, r.cp, r.len)
         /\ \A t \in Seq(Jobs) :
               Fields([[r EXCEPT !.pc = p] EXCEPT !.todo = t], p, t, r.cp, r.len)
         /\ \A c \in Nat :
               Fields([[r EXCEPT !.cp = c] EXCEPT !.pc = p], p, r.todo, c, r.len)
         /\ \A l \in Nat :
               Fields([[r EXCEPT !.len = l] EXCEPT !.pc = p], p, r.todo, r.cp, l)
  BY Zenon DEF WorkerRecords, Fields

\* Moving on leaves the other fields alone.
LEMMA GotoPuts ==
  ASSUME RetroTypes, NEW w \in Workers, NEW l \in Pcs, Goto(w, l)
  PROVE  Put(w, l, worker[w].todo, worker[w].cp, worker[w].len)
<1> DEFINE r == [worker[w] EXCEPT !.pc = l]
<1>1. Fields(r, l, worker[w].todo, worker[w].cp, worker[w].len)
  BY WorkerIs, ChangedRecord, Zenon
<1>2. worker' = [worker EXCEPT ![w] = r]
  BY Zenon DEF Goto
<1> HIDE DEF r
<1>3. QED
  BY <1>1, <1>2, RecordPuts, Zenon

\* The next job, or the end of the list.
LEMMA NextJobPuts ==
  ASSUME RetroTypes, NEW w \in Workers, worker[w].todo # <<>>, worker' = NextJob(w)
  PROVE  \/ /\ Len(worker[w].todo) = 1
            /\ Put(w, "ended", worker[w].todo, worker[w].cp, worker[w].len)
         \/ /\ Len(worker[w].todo) > 1
            /\ Put(w, "load", Tail(worker[w].todo), worker[w].cp, worker[w].len)
<1>1. CASE Len(worker[w].todo) = 1
  <2>1. Goto(w, "ended")
    BY <1>1, Zenon DEF NextJob, Goto
  <2>2. QED
    BY <1>1, <2>1, GotoPuts, Zenon DEF Pcs
<1>2. CASE Len(worker[w].todo) # 1
  <2> DEFINE r == [[worker[w] EXCEPT !.pc = "load"] EXCEPT !.todo = Tail(worker[w].todo)]
  <2>1. worker' = [worker EXCEPT ![w] = r]
    BY <1>2, Zenon DEF NextJob, RetroTypes
  <2>2. Len(worker[w].todo) > 1 /\ Tail(worker[w].todo) \in Seq(Jobs)
    <3>1. worker[w].todo \in Seq(Jobs) /\ Len(worker[w].todo) \in Nat \ {0}
      BY WorkerIs
    <3>2. Tail(worker[w].todo) \in Seq(Jobs)
      BY <3>1
    <3>3. \A n \in Nat \ {0} : n # 1 => n > 1
      OBVIOUS
    <3>4. QED
      BY <1>2, <3>1, <3>2, <3>3, Zenon
  <2>3. Fields(r, "load", Tail(worker[w].todo), worker[w].cp, worker[w].len)
    <3>1. worker[w] \in WorkerRecords /\ "load" \in Pcs
      BY WorkerIs, Zenon DEF Pcs
    <3>2. QED
      BY <2>2, <3>1, ChangedRecord, Zenon
  <2> HIDE DEF r
  <2>4. QED
    BY <2>1, <2>2, <2>3, RecordPuts, Zenon
<1>3. QED
  BY <1>1, <1>2, Zenon

\* The three jobs, as far as they are configured.
LEMMA JobOrderIs ==
  ASSUME RetroAssumption
  PROVE  JobOrder \in Seq(Jobs) /\ JobOrder # <<>>
<1> DEFINE If(j) == IF j \in Jobs THEN <<j>> ELSE <<>>
<1>1. \A j : If(j) \in Seq(Jobs) /\ (j \in Jobs => Len(If(j)) = 1)
  OBVIOUS
<1>2. JobOrder = If("memory") \o If("skill") \o If("curation")
  BY Zenon DEF JobOrder
<1> HIDE DEF If
<1>3. \A s, t \in Seq(Jobs) : s \o t \in Seq(Jobs) /\ Len(s \o t) = Len(s) + Len(t)
  OBVIOUS
<1>4. /\ JobOrder \in Seq(Jobs)
      /\ Len(JobOrder) = Len(If("memory")) + Len(If("skill")) + Len(If("curation"))
  BY <1>1, <1>2, <1>3
<1>5. \A j : Len(If(j)) \in Nat
  BY <1>1
<1>6. "memory" \in Jobs \/ "skill" \in Jobs \/ "curation" \in Jobs
  BY Zenon DEF RetroAssumption
<1>7. Len(JobOrder) > 0
  BY <1>1, <1>4, <1>5, <1>6
<1>8. QED
  BY <1>4, <1>7

\* A dispatch starts with the first of them.
LEMMA DispatchPuts ==
  ASSUME RetroAssumption, RetroTypes, NEW w \in Workers, Dispatch(w)
  PROVE  Put(w, "load", JobOrder, 0, 0)
<1> DEFINE r == [[Idle EXCEPT !.pc = "load"] EXCEPT !.todo = JobOrder]
<1>1. Idle \in WorkerRecords /\ Idle.cp = 0 /\ Idle.len = 0 /\ "load" \in Pcs
  BY DEF Idle, WorkerRecords, Pcs
<1>2. Fields(r, "load", JobOrder, Idle.cp, Idle.len)
  BY <1>1, ChangedRecord, JobOrderIs, Zenon
<1>3. worker' = [worker EXCEPT ![w] = r]
  BY Zenon DEF Dispatch
<1> HIDE DEF r
<1>4. QED
  BY <1>1, <1>2, <1>3, RecordPuts, Zenon

\* A trigger that was taken is the only job.
LEMMA TakePuts ==
  ASSUME RetroTypes, TakeTrigger
  PROVE  Put(Consumer, "load", <<Head(triggers)>>, 0, 0)
<1> DEFINE r == [[Idle EXCEPT !.pc = "load"] EXCEPT !.todo = <<Head(triggers)>>]
<1>1. Idle \in WorkerRecords /\ Idle.cp = 0 /\ Idle.len = 0 /\ "load" \in Pcs
  BY DEF Idle, WorkerRecords, Pcs
<1>2. <<Head(triggers)>> \in Seq(Jobs)
  BY DEF TakeTrigger, RetroTypes
<1>3. Fields(r, "load", <<Head(triggers)>>, Idle.cp, Idle.len)
  BY <1>1, <1>2, ChangedRecord, Zenon
<1>4. worker' = [worker EXCEPT ![Consumer] = r] /\ Consumer \in Workers
  BY Zenon DEF TakeTrigger, Workers
<1> HIDE DEF r
<1>5. QED
  BY <1>1, <1>3, <1>4, RecordPuts, Zenon

\* A dispatch that ended leaves its goroutine idle.
LEMMA EndPuts ==
  ASSUME RetroTypes, NEW w \in Workers, EndDispatch(w)
  PROVE  Put(w, "idle", <<>>, 0, 0)
<1>1. Fields(Idle, "idle", <<>>, 0, 0)
  BY DEF Idle, WorkerRecords, Pcs, Fields
<1>2. worker' = [worker EXCEPT ![w] = Idle]
  BY Zenon DEF EndDispatch
<1>3. QED
  BY <1>1, <1>2, RecordPuts, Zenon

\* Loading a checkpoint: the job's, or none.
LEMMA LoadPuts ==
  ASSUME RetroTypes, NEW w \in Workers, worker[w].todo # <<>>, LoadCheckpoint(w)
  PROVE  \E c \in {cp[Job(w)], 0}, p \in {"lock", "reflect", "history"} :
            Put(w, p, worker[w].todo, c, worker[w].len) /\ (p = "lock" <=> w # Consumer)
<1>1. Job(w) \in Jobs /\ cp[Job(w)] \in Nat
  BY WorkerIs, SMTT(30) DEF Job, RetroTypes
<1>2. PICK from \in {cp[Job(w)], 0} :
        worker' = [worker EXCEPT
              ![w].cp = IF Job(w) = "curation" THEN 0 ELSE from,
              ![w].pc = IF w # Consumer THEN "lock"
                        ELSE IF Job(w) = "curation" THEN "reflect" ELSE "history"]
  BY Zenon DEF LoadCheckpoint
<1> DEFINE c == IF Job(w) = "curation" THEN 0 ELSE from
           p == IF w # Consumer THEN "lock"
                ELSE IF Job(w) = "curation" THEN "reflect" ELSE "history"
           r == [[worker[w] EXCEPT !.cp = c] EXCEPT !.pc = p]
<1>3. /\ c \in {cp[Job(w)], 0} /\ c \in Nat /\ p \in {"lock", "reflect", "history"}
      /\ p \in Pcs /\ (p = "lock" <=> w # Consumer)
  BY <1>1 DEF Pcs, Running
<1>4. worker' = [worker EXCEPT ![w] = r]
  BY <1>2, Zenon DEF RetroTypes
<1> HIDE DEF c, p
<1>5. Fields(r, p, worker[w].todo, c, worker[w].len)
  BY <1>3, WorkerIs, ChangedRecord, Zenon
<1> HIDE DEF r
<1>6. QED
  BY <1>3, <1>4, <1>5, RecordPuts, Zenon

\* Reading the history.
LEMMA ReadPuts ==
  ASSUME RetroTypes, NEW w \in Workers, ReadHistory(w)
  PROVE  \/ Put(w, "unlock", worker[w].todo, worker[w].cp, hist)
         \/ worker[w].cp < hist /\ Put(w, "slot", worker[w].todo, worker[w].cp, hist)
         \/ Put(w, "unlock", worker[w].todo, worker[w].cp, worker[w].len)
<1>1. CASE Goto(w, "unlock")
  BY <1>1, GotoPuts, Zenon DEF Pcs, Running
<1> DEFINE p == IF TooShort(Job(w), hist) \/ worker[w].cp >= hist THEN "unlock" ELSE "slot"
           r == [[worker[w] EXCEPT !.len = hist] EXCEPT !.pc = p]
<1>2. CASE worker' = [worker EXCEPT ![w].len = hist,
                ![w].pc = IF TooShort(Job(w), hist) \/ worker[w].cp >= hist
                          THEN "unlock" ELSE "slot"]
  <2>1. /\ p \in Pcs /\ (p = "unlock" \/ p = "slot") /\ hist \in Nat
        /\ (p = "slot" => worker[w].cp < hist)
    BY WorkerIs, SMTT(30) DEF Pcs, Running, RetroTypes
  <2>2. worker' = [worker EXCEPT ![w] = r]
    BY <1>2, Zenon DEF RetroTypes
  <2> HIDE DEF p
  <2>3. Fields(r, p, worker[w].todo, worker[w].cp, hist)
    BY <2>1, WorkerIs, ChangedRecord, Zenon
  <2> HIDE DEF r
  <2>4. Put(w, p, worker[w].todo, worker[w].cp, hist)
    BY <2>2, <2>3, RecordPuts, Zenon
  <2>5. QED
    BY <2>1, <2>4, Zenon
<1>3. QED
  BY <1>1, <1>2, Zenon DEF ReadHistory

\* A counter of the bounds that goes up leaves the others alone.
LEMMA SpendIs ==
  ASSUME RetroTypes, NEW what \in {"events", "triggers", "preempts", "faults"}, NEW limit,
         Spend(what, limit)
  PROVE  /\ used' \in [events : Nat, triggers : Nat, preempts : Nat, faults : Nat,
                       overruns : Nat]
         /\ used'.overruns = used.overruns
         /\ what = "events" => used'.events = used.events + 1 /\ used.events < limit
         /\ what # "events" => used'.events = used.events
<1>1. used' = [used EXCEPT ![what] = used[what] + 1] /\ used[what] < limit
  BY Zenon DEF Spend
<1>2. CASE what = "events"
  <2>1. used' = [used EXCEPT !.events = used.events + 1] /\ used.events < limit
    BY <1>1, <1>2, Zenon
  <2>2. used.events + 1 \in Nat
    BY DEF RetroTypes
  <2>3. QED
    BY <1>2, <2>1, <2>2, Zenon DEF RetroTypes
<1>3. CASE what = "triggers"
  <2>1. used' = [used EXCEPT !.triggers = used.triggers + 1] /\ used.triggers < limit
    BY <1>1, <1>3, Zenon
  <2>2. used.triggers + 1 \in Nat
    BY DEF RetroTypes
  <2>3. QED
    BY <1>3, <2>1, <2>2, Zenon DEF RetroTypes
<1>4. CASE what = "preempts"
  <2>1. used' = [used EXCEPT !.preempts = used.preempts + 1] /\ used.preempts < limit
    BY <1>1, <1>4, Zenon
  <2>2. used.preempts + 1 \in Nat
    BY DEF RetroTypes
  <2>3. QED
    BY <1>4, <2>1, <2>2, Zenon DEF RetroTypes
<1>5. CASE what = "faults"
  <2>1. used' = [used EXCEPT !.faults = used.faults + 1] /\ used.faults < limit
    BY <1>1, <1>5, Zenon
  <2>2. used.faults + 1 \in Nat
    BY SMTT(30) DEF RetroTypes
  <2>3. QED
    BY <1>5, <2>1, <2>2, Zenon DEF RetroTypes
<1>6. QED
  BY <1>2, <1>3, <1>4, <1>5, Zenon

-----------------------------------------------------------------------------
(* What a goroutine does in a step *)

Same(w, p) == Put(w, p, worker[w].todo, worker[w].cp, worker[w].len)

Loads(w) ==
    /\ worker[w].pc = "load" /\ UNCHANGED <<lock, cp, done>>
    /\ \E c \in {cp[Job(w)], 0}, p \in {"lock", "reflect", "history"} :
          Put(w, p, worker[w].todo, c, worker[w].len) /\ (p = "lock" <=> w # Consumer)

Turns(w) ==
    /\ UNCHANGED <<cp, done>>
    /\ \/ /\ worker[w].pc = "lock"
          /\ lock' \in {lock, [lock EXCEPT ![Job(w)] = TRUE]}
       \/ /\ worker[w].pc = "unlock"
          /\ lock' \in {lock, [lock EXCEPT ![Job(w)] = FALSE]}
    /\ \/ Len(worker[w].todo) = 1 /\ Same(w, "ended")
       \/ /\ Len(worker[w].todo) > 1
          /\ Put(w, "load", Tail(worker[w].todo), worker[w].cp, worker[w].len)

Acquires(w) ==
    /\ worker[w].pc = "lock" /\ UNCHANGED <<cp, done>>
    /\ ~lock[Job(w)] /\ lock' = [lock EXCEPT ![Job(w)] = TRUE]
    /\ \E p \in {"reflect", "history"} : Same(w, p)

Reads(w) ==
    /\ worker[w].pc = "history" /\ UNCHANGED <<lock, cp, done>>
    /\ \/ Put(w, "unlock", worker[w].todo, worker[w].cp, hist)
       \/ worker[w].cp < hist /\ Put(w, "slot", worker[w].todo, worker[w].cp, hist)
       \/ Same(w, "unlock")

Moves(w) ==
    /\ UNCHANGED <<lock, cp, done>>
    /\ \/ /\ worker[w].pc \in {"slot", "exec"}
          /\ Same(w, "exec") \/ Same(w, "infer")
       \/ /\ worker[w].pc \in Running
          /\ Same(w, "release") \/ Same(w, "unlock")

Preempts(w) ==
    /\ worker[w].pc = "infer" /\ Same(w, "release") /\ UNCHANGED lock
    /\ \E n \in 0 .. (worker[w].len - worker[w].cp) :
          /\ cp' = [cp EXCEPT ![Job(w)] = worker[w].cp + n]
          /\ done' = [done EXCEPT ![Job(w)] = @ \cup Dealt(w, n, "claimed")]

Extracts(w) ==
    /\ worker[w].pc = "infer" /\ Same(w, "save") /\ UNCHANGED <<lock, cp>>
    /\ done' = [done EXCEPT ![Job(w)] =
                   @ \cup Dealt(w, worker[w].len - worker[w].cp, "extracted")]

Saves(w) ==
    /\ worker[w].pc = "save" /\ Same(w, "release") /\ UNCHANGED <<lock, done>>
    /\ cp' = [cp EXCEPT ![Job(w)] = worker[w].len]

Ends(w) ==
    /\ worker[w].pc = "ended" /\ Put(w, "idle", <<>>, 0, 0) /\ UNCHANGED <<lock, cp, done>>

\* Every step of a goroutine is one of these.
LEMMA WorkKinds ==
  ASSUME RetroTypes, NEW w \in Workers, HasJob(w), Marks(w), Work(w)
  PROVE  /\ \/ Loads(w) \/ Turns(w) \/ Acquires(w) \/ Reads(w) \/ Moves(w) \/ Preempts(w)
            \/ Extracts(w) \/ Saves(w) \/ Ends(w)
         /\ UNCHANGED <<hist, pending, gw, triggers>> /\ used'.overruns = used.overruns
         /\ used' \in [events : Nat, triggers : Nat, preempts : Nat, faults : Nat,
                       overruns : Nat]
         /\ used'.events = used.events
<1> DEFINE Kind == \/ Loads(w) \/ Turns(w) \/ Acquires(w) \/ Reads(w) \/ Moves(w) \/ Preempts(w)
                   \/ Extracts(w) \/ Saves(w) \/ Ends(w)
           Kept == /\ UNCHANGED <<hist, pending, gw, triggers>> /\ used'.overruns = used.overruns
                   /\ used' \in [events : Nat, triggers : Nat, preempts : Nat, faults : Nat,
                                 overruns : Nat]
                   /\ used'.events = used.events
<1>g. \A p \in Pcs : Goto(w, p) => Same(w, p)
  BY GotoPuts, Zenon DEF Same
<1>p. {"release", "unlock", "exec", "infer", "save", "reflect", "history"} \subseteq Pcs
  BY Zenon DEF Pcs, Running
<1>u. /\ UNCHANGED used => used'.overruns = used.overruns
      /\ UNCHANGED used => used' \in [events : Nat, triggers : Nat, preempts : Nat,
                                      faults : Nat, overruns : Nat]
      /\ UNCHANGED used => used'.events = used.events
  BY Zenon DEF RetroTypes
<1>s. \A what \in {"preempts", "faults"} : \A limit :
        Spend(what, limit) => /\ used'.overruns = used.overruns /\ used'.events = used.events
                                /\ used' \in [events : Nat, triggers : Nat, preempts : Nat,
                                              faults : Nat, overruns : Nat]
  BY SpendIs, Zenon
<1>t. worker[w].pc # "idle" => worker[w].todo # <<>>
  BY Zenon DEF HasJob
<1>n. worker[w].pc # "idle" /\ worker' = NextJob(w) =>
        \/ Len(worker[w].todo) = 1 /\ Same(w, "ended")
        \/ /\ Len(worker[w].todo) > 1
           /\ Put(w, "load", Tail(worker[w].todo), worker[w].cp, worker[w].len)
  BY <1>t, NextJobPuts, Zenon DEF Same
<1>1. CASE LoadCheckpoint(w)
  <2>1. Loads(w)
    BY <1>1, <1>t, LoadPuts, Zenon DEF LoadCheckpoint, Loads
  <2>2. Kept
    BY <1>1, <1>u, <1>s, Zenon DEF LoadCheckpoint, timers
  <2>3. QED
    BY <2>1, <2>2, Zenon
<1>2. CASE AcquireLock(w)
  <2>1. Kept
    BY <1>2, <1>u, <1>s DEF AcquireLock, timers
  <2>2. worker[w].pc = "lock" /\ UNCHANGED <<cp, done>>
    BY <1>2, Zenon DEF AcquireLock
  <2>3. CASE worker' = NextJob(w) /\ lock' \in {lock, [lock EXCEPT ![Job(w)] = TRUE]}
    <3>1. Turns(w)
      BY <1>n, <2>2, <2>3, Zenon DEF Turns
    <3>2. QED
      BY <2>1, <3>1, Zenon
  <2>4. CASE /\ ~LockTaken(Job(w))
             /\ lock' = [lock EXCEPT ![Job(w)] = TRUE]
             /\ Goto(w, IF Job(w) = "curation" THEN "reflect" ELSE "history")
    <3>1. Acquires(w)
      BY <1>g, <1>p, <2>2, <2>4 DEF Acquires, LockTaken
    <3>2. QED
      BY <2>1, <3>1, Zenon
  <2>5. QED
    BY <1>2, <2>3, <2>4, Zenon DEF AcquireLock
<1>3. CASE ReadHistory(w)
  <2>1. Kept
    BY <1>3, <1>u, <1>s, Zenon DEF ReadHistory, timers
  <2>2. Reads(w)
    BY <1>3, ReadPuts, Zenon DEF ReadHistory, Reads, Same
  <2>3. QED
    BY <2>1, <2>2, Zenon
<1>4. CASE RequestSlot(w)
  <2>1. Kept
    BY <1>4, <1>u, <1>s, Zenon DEF RequestSlot, timers
  <2>2. Moves(w)
    BY <1>4, <1>g, <1>p DEF RequestSlot, Moves, Running
  <2>3. QED
    BY <2>1, <2>2, Zenon
<1>5. CASE StartExecute(w)
  <2>1. Kept
    BY <1>5, <1>u, Zenon DEF StartExecute, timers
  <2>2. Moves(w)
    BY <1>5, <1>g, <1>p, Zenon DEF StartExecute, Moves, Running
  <2>3. QED
    BY <2>1, <2>2, Zenon
<1>6. CASE Execute(w)
  <2>1. Kept
    BY <1>6, <1>u, <1>s DEF Execute, timers
  <2>2. worker[w].pc = "infer" /\ UNCHANGED lock
    BY <1>6, Zenon DEF Execute
  <2>3. CASE /\ \E n \in Progress(w) :
                  /\ cp' = [cp EXCEPT ![Job(w)] = worker[w].cp + n]
                  /\ done' = [done EXCEPT ![Job(w)] = @ \cup Dealt(w, n, "claimed")]
             /\ Goto(w, "release")
             /\ worker[w].cp <= worker[w].len
    <3>1. \A n \in Progress(w) : n \in 0 .. (worker[w].len - worker[w].cp)
      BY <2>3, WorkerIs DEF Progress
    <3>2. Preempts(w)
      BY <1>g, <1>p, <2>2, <2>3, <3>1, Zenon DEF Preempts
    <3>3. QED
      BY <2>1, <3>2, Zenon
  <2>4. CASE Goto(w, "release") /\ UNCHANGED <<cp, done>>
    <3>1. Moves(w)
      BY <1>g, <1>p, <2>2, <2>4 DEF Moves, Running
    <3>2. QED
      BY <2>1, <3>1, Zenon
  <2>5. CASE /\ done' = [done EXCEPT ![Job(w)] =
                    @ \cup Dealt(w, worker[w].len - worker[w].cp, "extracted")]
             /\ Goto(w, "save") /\ UNCHANGED cp
    <3>1. Extracts(w)
      BY <1>g, <1>p, <2>2, <2>5 DEF Extracts
    <3>2. QED
      BY <2>1, <3>1
  <2>6. QED
    <3>1. worker[w].cp <= worker[w].len
      BY <2>2, Zenon DEF Marks
    <3>2. QED
      BY <1>6, <2>3, <2>4, <2>5, <3>1 DEF Execute
<1>7. CASE SaveCheckpoint(w)
  <2>1. Kept
    BY <1>7, <1>u, <1>s DEF SaveCheckpoint, timers
  <2>2. Moves(w) \/ Saves(w)
    BY <1>7, <1>g, <1>p DEF SaveCheckpoint, SavedMark, Moves, Saves, Running
  <2>3. QED
    BY <2>1, <2>2, Zenon
<1>8. CASE ReleaseSlot(w)
  <2>1. Kept
    BY <1>8, <1>u, <1>s DEF ReleaseSlot, timers
  <2>2. Moves(w)
    BY <1>8, <1>g, <1>p DEF ReleaseSlot, Moves, Running
  <2>3. QED
    BY <2>1, <2>2, Zenon
<1>9. CASE Reflect(w)
  <2>1. Kept
    BY <1>9, <1>u, Zenon DEF Reflect, timers
  <2>2. Moves(w)
    BY <1>9, <1>g, <1>p DEF Reflect, Moves, Running
  <2>3. QED
    BY <2>1, <2>2, Zenon
<1>10. CASE ReleaseLock(w)
  <2>1. Kept
    BY <1>10, <1>u, <1>s DEF ReleaseLock, timers
  <2>2. Turns(w)
    BY <1>10, <1>n, Zenon DEF ReleaseLock, Turns
  <2>3. QED
    BY <2>1, <2>2, Zenon
<1>11. CASE EndDispatch(w)
  <2>1. Kept
    BY <1>11, <1>u, Zenon DEF EndDispatch
  <2>2. Ends(w)
    BY <1>11, EndPuts, Zenon DEF EndDispatch, Ends
  <2>3. QED
    BY <2>1, <2>2, Zenon
<1>12. QED
  BY <1>1, <1>2, <1>3, <1>4, <1>5, <1>6, <1>7, <1>8, <1>9, <1>10, <1>11, Zenon DEF Work

\* The other steps, as far as the goroutines, checkpoints and locks go: one
\* that starts a goroutine, one that touches none, and the crash.
Starts(w) ==
    /\ w # Consumer /\ Put(w, "load", JobOrder, 0, 0)
    /\ UNCHANGED <<hist, lock, cp, gw, triggers, done>>
    /\ used'.overruns = used.overruns

\* The steps of others, which leave the goroutines alone.
Outside == \/ TurnCompleted \/ PublishTrigger \/ UNCHANGED vars
           \/ \E j \in Jobs : TriggerRequest(j) \/ ExpireLock(j)

Quiet == /\ UNCHANGED <<worker, cp, done>> /\ hist' \in {hist, hist + 1}
         /\ Outside

Takes ==
    /\ worker[Consumer].pc = "idle" /\ triggers # <<>> /\ triggers' = Tail(triggers)
    /\ Put(Consumer, "load", <<Head(triggers)>>, 0, 0)
    /\ UNCHANGED <<hist, lock, cp, gw, done, used>>

\* A started timer has the number of the event that started it.
LEMMA RearmIs ==
  ASSUME RetroAssumption, RetroTypes, Rearm
  PROVE  /\ pending' \subseteq Timers /\ used'.overruns = used.overruns
         /\ used' \in [events : Nat, triggers : Nat, preempts : Nat, faults : Nat,
                       overruns : Nat]
<1>1. Spend("events", MaxEvents) /\ pending' \subseteq pending \cup {used'.events}
  BY Zenon DEF Rearm
<1>2. /\ used'.overruns = used.overruns /\ used'.events = used.events + 1
      /\ used.events < MaxEvents /\ used.events \in Nat /\ MaxEvents \in Nat
      /\ used' \in [events : Nat, triggers : Nat, preempts : Nat, faults : Nat, overruns : Nat]
  BY <1>1, SpendIs, Zenon DEF RetroTypes, RetroAssumption
<1>3. used'.events \in Timers
  BY <1>2 DEF Timers
<1>4. QED
  BY <1>1, <1>2, <1>3, Zenon DEF RetroTypes

\* Every step is of one of these kinds, and keeps the types that they leave out.
LEMMA RetroKinds ==
  ASSUME RetroAssumption, RetroTypes, \A v \in Workers : HasJob(v) /\ Marks(v),
         [Next]_(vars)
  PROVE  \/ \E w \in Workers : Work(w) \/ Starts(w)
         \/ Quiet \/ Takes \/ Crash
<1>e. Ender \in Workers /\ Ender # Consumer
  BY DEF Ender, Workers, Consumer, RetroAssumption
<1>1. CASE SessionEnded
  <2>1. Put(Ender, "load", JobOrder, 0, 0)
    BY <1>1, <1>e, DispatchPuts, Zenon DEF SessionEnded
  <2>2. Starts(Ender)
    BY <1>1, <1>e, <2>1, RearmIs, Zenon DEF SessionEnded, Starts
  <2>3. QED
    BY <1>e, <2>2, Zenon
<1>2. ASSUME NEW t \in Timers, TimerFires(t) PROVE \E w \in Workers : Starts(w)
  <2>1. t \in Workers /\ t # Consumer
    BY DEF Workers, Timers, Consumer, RetroAssumption
  <2>2. Put(t, "load", JobOrder, 0, 0)
    BY <1>2, <2>1, DispatchPuts, Zenon DEF TimerFires
  <2>3. Starts(t)
    BY <1>2, <2>1, <2>2, Zenon DEF TimerFires, Starts
  <2>4. QED
    BY <2>1, <2>3, Zenon
<1>3. CASE TakeTrigger
  <2>1. Takes
    BY <1>3, TakePuts, Zenon DEF TakeTrigger, Takes
  <2>2. QED
    BY <2>1, Zenon
<1>4. CASE TurnCompleted \/ PublishTrigger
  BY <1>4, Zenon DEF TurnCompleted, PublishTrigger, Quiet, Outside
<1>5. ASSUME NEW j \in Jobs, TriggerRequest(j) \/ ExpireLock(j) PROVE Quiet
  <2>1. UNCHANGED <<hist, worker, cp, done>>
    BY <1>5, Zenon DEF TriggerRequest, ExpireLock
  <2>2. QED
    BY <1>5, <2>1, Zenon DEF Quiet, Outside
<1>6. CASE UNCHANGED vars
  <2>1. UNCHANGED <<hist, worker, cp, done>>
    BY <1>6, Zenon DEF vars
  <2>2. QED
    BY <1>6, <2>1, Zenon DEF Quiet, Outside
<1>7. QED
  BY <1>1, <1>2, <1>3, <1>4, <1>5, <1>6, Zenon DEF Next

\* Fields that fit each other and a history of h messages.
Fit(w, p, t, c, l, h) ==
    /\ c \in Nat /\ l \in Nat
    /\ p # "idle" => t # <<>>
    /\ w = Consumer /\ p # "idle" => Len(t) = 1 /\ p # "lock"
    /\ p \in Running \cup {"lock"} => c <= h
    /\ l <= h
    /\ p \in {"slot", "exec", "infer", "save"} => c <= l

\* A goroutine that gets fields which fit, and all others, still have jobs and
\* marks that fit.
LEMMA PutShape ==
  ASSUME RetroTypes, \A v \in Workers : HasJob(v) /\ Marks(v), NEW w \in Workers,
         NEW p, NEW t, NEW c, NEW l, Put(w, p, t, c, l),
         hist' \in Nat, hist <= hist', Fit(w, p, t, c, l, hist')
  PROVE  \A v \in Workers : HasJob(v)' /\ Marks(v)'
<1>1. SUFFICES ASSUME NEW v \in Workers PROVE HasJob(v)' /\ Marks(v)'
  BY Zenon
<1>2. CASE v = w
  BY <1>2, Zenon DEF Put, Fields, Fit, HasJob, Marks
<1>3. CASE v # w
  <2>1. worker'[v] = worker[v] /\ HasJob(v) /\ Marks(v)
    BY <1>3, Zenon DEF Put
  <2>2. worker[v].cp \in Nat /\ worker[v].len \in Nat /\ hist \in Nat
    BY WorkerIs, Zenon DEF RetroTypes
  <2>3. HasJob(v)'
    BY <2>1, Zenon DEF HasJob
  <2>4. Marks(v)'
    BY <2>1, <2>2 DEF Marks
  <2>5. QED
    BY <2>3, <2>4, Zenon
<1>4. QED
  BY <1>2, <1>3, Zenon

MarksFit == /\ \A v \in Workers : HasJob(v) /\ Marks(v)
            /\ \A j \in Jobs : cp[j] <= hist

\* A goroutine's step keeps the types.
LEMMA WorkTypes ==
  ASSUME RetroTypes, NEW w \in Workers, HasJob(w), Marks(w), Work(w)
  PROVE  RetroTypes'
<1>1. /\ UNCHANGED <<hist, pending, gw, triggers>>
      /\ used' \in [events : Nat, triggers : Nat, preempts : Nat, faults : Nat, overruns : Nat]
  BY WorkKinds, Zenon
<1>2. slot' \in Slots \cup {NoSlot} /\ assigned' \subseteq Slots
  <2>1. CASE RequestSlot(w)
    BY <2>1, Zenon DEF RequestSlot, RetroTypes
  <2>2. CASE ReleaseSlot(w)
    BY <2>2, Zenon DEF ReleaseSlot, RetroTypes
  <2>3. CASE UNCHANGED <<slot, assigned>>
    BY <2>3, Zenon DEF RetroTypes
  <2>4. QED
    BY <2>1, <2>2, <2>3
       DEF Work, runtime, LoadCheckpoint, AcquireLock, ReadHistory, StartExecute,
           Execute, SaveCheckpoint, Reflect, ReleaseLock, EndDispatch
<1>3. worker' \in [Workers -> WorkerRecords]
  BY WorkKinds, Zenon
     DEF Loads, Turns, Acquires, Reads, Moves, Preempts, Extracts, Saves, Ends, Same, Put
<1>4. lock' \in [Jobs -> BOOLEAN]
  BY WorkKinds, Zenon
     DEF Loads, Turns, Acquires, Reads, Moves, Preempts, Extracts, Saves, Ends, RetroTypes
<1>5. DOMAIN done' = Jobs
  BY WorkKinds, Zenon
     DEF Loads, Turns, Acquires, Reads, Moves, Preempts, Extracts, Saves, Ends, RetroTypes
<1>6. cp' \in [Jobs -> Nat]
  <2>1. CASE Preempts(w)
    <3>1. PICK n \in 0 .. (worker[w].len - worker[w].cp) :
            cp' = [cp EXCEPT ![Job(w)] = worker[w].cp + n]
      BY <2>1, Zenon DEF Preempts
    <3>2. worker[w].cp + n \in Nat
      BY <3>1, WorkerIs
    <3>3. QED
      BY <3>1, <3>2, Zenon DEF RetroTypes
  <2>2. CASE Saves(w)
    BY <2>2, WorkerIs, Zenon DEF Saves, RetroTypes
  <2>3. CASE UNCHANGED cp
    BY <2>3, Zenon DEF RetroTypes
  <2>4. QED
    BY <2>1, <2>2, <2>3, WorkKinds, Zenon DEF Loads, Turns, Acquires, Reads, Moves, Extracts, Ends
<1>7. QED
  BY <1>1, <1>2, <1>3, <1>4, <1>5, <1>6, Zenon DEF RetroTypes

\* Every step keeps the types.
LEMMA RetroTypesStep ==
  ASSUME RetroAssumption, RetroTypes, MarksFit, [Next]_(vars)
  PROVE  RetroTypes'
<1>1. ASSUME NEW w \in Workers, Work(w) PROVE RetroTypes'
  BY <1>1, WorkTypes, Zenon DEF MarksFit
<1>2. CASE TurnCompleted
  <2>1. worker' = worker /\ hist' \in Nat
    BY <1>2 DEF TurnCompleted, RetroTypes
  <2>2. QED
    BY <1>2, <2>1, RearmIs, Zenon DEF TurnCompleted, RetroTypes, runtime
<1>3. CASE SessionEnded
  <2>1. Ender \in Workers
    BY Zenon DEF Ender, Workers
  <2>2. worker' \in [Workers -> WorkerRecords]
    BY <1>3, <2>1, DispatchPuts, Zenon DEF SessionEnded, Put
  <2>3. QED
    BY <1>3, <2>2, RearmIs, Zenon DEF SessionEnded, RetroTypes, runtime
<1>4. ASSUME NEW t \in Timers, TimerFires(t) PROVE RetroTypes'
  <2>1. t \in Workers
    BY Zenon DEF Workers
  <2>2. worker' \in [Workers -> WorkerRecords]
    BY <1>4, <2>1, DispatchPuts, Zenon DEF TimerFires, Put
  <2>3. QED
    BY <1>4, <2>2, Zenon DEF TimerFires, RetroTypes, runtime
<1>5. CASE TakeTrigger
  <2>1. worker' \in [Workers -> WorkerRecords]
    BY <1>5, TakePuts, Zenon DEF Put
  <2>2. triggers' \in Seq(Jobs)
    BY <1>5 DEF TakeTrigger, RetroTypes
  <2>3. QED
    BY <1>5, <2>1, <2>2, Zenon DEF TakeTrigger, RetroTypes, runtime, timers
<1>6. CASE PublishTrigger
  <2>1. gw \in Jobs
    BY <1>6, Zenon DEF PublishTrigger, RetroTypes
  <2>2. triggers' \in Seq(Jobs) /\ lock' \in [Jobs -> BOOLEAN] /\ gw' = "none"
    <3>1. Append(triggers, gw) \in Seq(Jobs) /\ [lock EXCEPT ![gw] = FALSE] \in [Jobs -> BOOLEAN]
      BY <2>1 DEF RetroTypes
    <3>2. QED
      BY <1>6, <3>1, Zenon DEF PublishTrigger, RetroTypes
  <2>3. used' \in [events : Nat, triggers : Nat, preempts : Nat, faults : Nat, overruns : Nat]
    BY <1>6, SpendIs, Zenon DEF PublishTrigger, RetroTypes
  <2>4. QED
    BY <1>6, <2>2, <2>3, Zenon DEF PublishTrigger, RetroTypes, runtime, timers
<1>7. ASSUME NEW j \in Jobs, TriggerRequest(j) PROVE RetroTypes'
  <2>1. used' \in [events : Nat, triggers : Nat, preempts : Nat, faults : Nat, overruns : Nat]
    BY <1>7, SpendIs, Zenon DEF TriggerRequest
  <2>2. QED
    BY <1>7, <2>1, Zenon DEF TriggerRequest, RetroTypes, runtime, timers
<1>8. ASSUME NEW j \in Jobs, ExpireLock(j) PROVE RetroTypes'
  <2>1. used' \in [events : Nat, triggers : Nat, preempts : Nat, faults : Nat, overruns : Nat]
    <3>1. CASE Spend("overruns", MaxOverruns)
      <4>1. used' = [used EXCEPT !.overruns = used.overruns + 1]
        BY <3>1, Zenon DEF Spend
      <4>2. used.overruns + 1 \in Nat
        BY DEF RetroTypes
      <4>3. QED
        BY <4>1, <4>2, Zenon DEF RetroTypes
    <3>2. QED
      BY <1>8, <3>1, Zenon DEF ExpireLock, TTLOver, RetroTypes
  <2>2. QED
    BY <1>8, <2>1, Zenon DEF ExpireLock, RetroTypes, runtime, timers
<1>9. CASE Crash
  <2>1. Idle \in WorkerRecords
    BY DEF Idle, WorkerRecords, Pcs
  <2>2. used' \in [events : Nat, triggers : Nat, preempts : Nat, faults : Nat, overruns : Nat]
    BY <1>9, SpendIs, Zenon DEF Crash
  <2>3. QED
    BY <1>9, <2>1, <2>2, Zenon DEF Crash, RetroTypes
<1>10. CASE UNCHANGED vars
  BY <1>10, Zenon DEF vars, RetroTypes
<1>11. QED
  BY <1>1, <1>2, <1>3, <1>4, <1>5, <1>6, <1>7, <1>8, <1>9, <1>10, Zenon DEF Next

\* The job of a goroutine at work.
LEMMA JobOf ==
  ASSUME RetroTypes, NEW w \in Workers, HasJob(w), worker[w].pc # "idle"
  PROVE  Job(w) \in Jobs
  BY WorkerIs DEF HasJob, Job

\* More than one job leaves one after the first.
LEMMA MoreThanOne ==
  ASSUME NEW S, NEW q \in Seq(S), Len(q) > 1
  PROVE  Len(q) # 1 /\ Tail(q) # <<>>
<1>1. \A n \in Nat : n > 1 => n # 1 /\ n - 1 # 0
  OBVIOUS
<1>2. Len(q) \in Nat
  OBVIOUS
<1>3. q # <<>> => Len(Tail(q)) = Len(q) - 1
  OBVIOUS
<1>4. q # <<>>
  OBVIOUS
<1>5. Len(<<>>) = 0
  BY Zenon
<1>6. QED
  BY <1>1, <1>2, <1>3, <1>4, <1>5, Zenon

\* Every step keeps jobs and marks fitting.
LEMMA MarksStep ==
  ASSUME RetroAssumption, RetroTypes, MarksFit, [Next]_(vars)
  PROVE  MarksFit'
<1>a. /\ \A v \in Workers : HasJob(v) /\ Marks(v)
      /\ \A j \in Jobs : cp[j] \in Nat /\ cp[j] <= hist
      /\ hist \in Nat
  BY Zenon DEF MarksFit, RetroTypes
<1>1. ASSUME NEW w \in Workers, Work(w) PROVE MarksFit'
  <2> DEFINE q == worker[w].todo
  <2>k. /\ \/ Loads(w) \/ Turns(w) \/ Acquires(w) \/ Reads(w) \/ Moves(w) \/ Preempts(w)
           \/ Extracts(w) \/ Saves(w) \/ Ends(w)
        /\ hist' = hist
    BY <1>1, <1>a, WorkKinds
  <2>w. /\ HasJob(w) /\ Marks(w) /\ q \in Seq(Jobs) /\ worker[w].cp \in Nat
        /\ worker[w].len \in Nat /\ (worker[w].pc # "idle" => Job(w) \in Jobs)
    BY <1>a, WorkerIs, JobOf
  <2>h. hist' \in Nat /\ hist <= hist'
    BY <1>a, <2>k
  <2>s. ASSUME NEW p \in Running \cup {"ended"}, Same(w, p), worker[w].pc \in Running \cup {"lock"},
               p \in {"slot", "exec", "infer", "save"} =>
                  worker[w].pc \in {"slot", "exec", "infer", "save"}
        PROVE  \A v \in Workers : HasJob(v)' /\ Marks(v)'
    <3>1. /\ q # <<>> /\ (w = Consumer => Len(q) = 1) /\ p # "lock" /\ p # "idle"
          /\ worker[w].cp <= hist' /\ worker[w].len <= hist'
          /\ (p \in {"slot", "exec", "infer", "save"} => worker[w].cp <= worker[w].len)
      BY <2>k, <2>w, <2>s DEF HasJob, Marks, Running
    <3>2. Put(w, p, q, worker[w].cp, worker[w].len)
      BY <2>s, Zenon DEF Same
    <3>3. Fit(w, p, q, worker[w].cp, worker[w].len, hist')
      BY <2>w, <3>1 DEF Fit
    <3>4. QED
      BY <1>a, <2>h, <3>2, <3>3, PutShape, Zenon
  <2>c. ASSUME UNCHANGED cp PROVE \A j \in Jobs : cp'[j] <= hist'
    BY <1>a, <2>c, <2>k, SMTT(30)
  <2>1. CASE Loads(w)
    <3>1. PICK c \in {cp[Job(w)], 0}, p \in {"lock", "reflect", "history"} :
            Put(w, p, q, c, worker[w].len) /\ (p = "lock" <=> w # Consumer)
      BY <2>1, Zenon DEF Loads
    <3>2. /\ q # <<>> /\ (w = Consumer => Len(q) = 1 /\ p # "lock") /\ c \in Nat
          /\ c <= hist' /\ worker[w].len <= hist' /\ p \notin {"slot", "exec", "infer", "save"}
      <4>1. worker[w].pc = "load"
        BY <2>1, Zenon DEF Loads
      <4>2. q # <<>> /\ (w = Consumer => Len(q) = 1) /\ Job(w) \in Jobs
        BY <2>w, <4>1, SMTT(30) DEF HasJob
      <4>3. c \in Nat /\ c <= hist'
        BY <1>a, <2>k, <3>1, <4>2, SMTT(30)
      <4>4. worker[w].len <= hist'
        BY <2>k, <2>w DEF Marks
      <4>5. QED
        BY <3>1, <4>2, <4>3, <4>4
    <3>3. \A v \in Workers : HasJob(v)' /\ Marks(v)'
      <4>1. Fit(w, p, q, c, worker[w].len, hist')
        BY <2>w, <3>2 DEF Fit
      <4>2. QED
        BY <1>a, <2>h, <3>1, <4>1, PutShape, Zenon
    <3>4. QED
      BY <2>1, <2>c, <3>3, SMTT(30) DEF Loads, MarksFit
  <2>2. CASE Turns(w)
    <3>1. CASE Same(w, "ended")
      BY <2>2, <2>c, <2>s, <3>1 DEF Turns, MarksFit, Running
    <3>2. CASE Len(q) > 1 /\ Put(w, "load", Tail(q), worker[w].cp, worker[w].len)
      <4>1. w # Consumer /\ Tail(q) # <<>> /\ worker[w].len <= hist'
        <5>0. worker[w].pc # "idle"
          BY <2>2, Zenon DEF Turns
        <5>2. Tail(q) # <<>> /\ Len(q) # 1
          BY <2>w, <3>2, MoreThanOne, Zenon
        <5>1. w # Consumer
          BY <2>w, <5>0, <5>2, Zenon DEF HasJob
        <5>3. worker[w].len <= hist'
          BY <2>k, <2>w DEF Marks
        <5>4. QED
          BY <5>1, <5>2, <5>3
      <4>2. "load" \notin Running \cup {"lock"}
        BY Zenon DEF Running
      <4>3. \A v \in Workers : HasJob(v)' /\ Marks(v)'
        <5>1. Fit(w, "load", Tail(q), worker[w].cp, worker[w].len, hist')
          BY <2>w, <4>1, <4>2 DEF Fit
        <5>2. QED
          BY <1>a, <2>h, <3>2, <5>1, PutShape, Zenon
      <4>4. QED
        BY <2>2, <2>c, <4>3 DEF Turns, MarksFit
    <3>3. QED
      BY <2>2, <3>1, <3>2, SMTT(30) DEF Turns
  <2>3. CASE Acquires(w)
    <3>1. PICK p \in {"reflect", "history"} : Same(w, p)
      BY <2>3, Zenon DEF Acquires
    <3>2. \A v \in Workers : HasJob(v)' /\ Marks(v)'
      BY <2>3, <2>s, <3>1 DEF Acquires, Running
    <3>3. QED
      BY <2>3, <2>c, <3>2 DEF Acquires, MarksFit
  <2>4. CASE Reads(w)
    <3>1. CASE Same(w, "unlock")
      BY <2>4, <2>c, <2>s, <3>1, SMTT(30) DEF Reads, MarksFit, Running
    <3>2. ASSUME NEW p \in {"unlock", "slot"}, Put(w, p, q, worker[w].cp, hist),
                 p = "slot" => worker[w].cp < hist
          PROVE  MarksFit'
      <4>1. q # <<>> /\ (w = Consumer => Len(q) = 1) /\ worker[w].cp <= hist'
        BY <2>4, <2>k, <2>w, SMTT(30) DEF Reads, HasJob, Marks, Running
      <4>2. p # "lock" /\ (p \in {"slot", "exec", "infer", "save"} => worker[w].cp <= hist)
        BY <1>a, <2>w, <3>2
      <4>3. \A v \in Workers : HasJob(v)' /\ Marks(v)'
        <5>1. Fit(w, p, q, worker[w].cp, hist, hist')
          BY <1>a, <2>k, <2>w, <3>2, <4>1, <4>2, SMTT(30) DEF Fit
        <5>2. QED
          BY <1>a, <2>h, <3>2, <5>1, PutShape, Zenon
      <4>4. QED
        BY <2>4, <2>c, <4>3, SMTT(30) DEF Reads, MarksFit
    <3>3. QED
      BY <2>4, <3>1, <3>2 DEF Reads
  <2>5. CASE Moves(w)
    <3>1. \A v \in Workers : HasJob(v)' /\ Marks(v)'
      BY <2>5, <2>s DEF Moves, Running
    <3>2. QED
      BY <2>5, <2>c, <3>1 DEF Moves, MarksFit
  <2>6. CASE Preempts(w) \/ Saves(w)
    <3>1. \A v \in Workers : HasJob(v)' /\ Marks(v)'
      BY <2>6, <2>s DEF Preempts, Saves, Running
    <3>2. worker[w].pc \in {"infer", "save"} /\ Job(w) \in Jobs
      BY <2>6, <2>w DEF Preempts, Saves
    <3>3. worker[w].cp <= worker[w].len /\ worker[w].len <= hist
      BY <2>w, <3>2 DEF Marks
    <3>4. PICK n \in Nat : n <= hist /\ cp' = [cp EXCEPT ![Job(w)] = n]
      <4>1. CASE Preempts(w)
        <5>1. PICK n \in 0 .. (worker[w].len - worker[w].cp) :
                cp' = [cp EXCEPT ![Job(w)] = worker[w].cp + n]
          BY <4>1, Zenon DEF Preempts
        <5>2. worker[w].cp + n \in Nat /\ worker[w].cp + n <= hist
          BY <1>a, <2>w, <3>3, <5>1, SMTT(30)
        <5>3. QED
          BY <5>1, <5>2, Zenon
      <4>2. QED
        BY <2>6, <2>w, <3>3, <4>1 DEF Saves
    <3>5. \A j \in Jobs : cp'[j] <= hist'
      BY <1>a, <2>k, <3>4, SMTT(30) DEF RetroTypes
    <3>6. QED
      BY <3>1, <3>5, SMTT(30) DEF MarksFit
  <2>7. CASE Extracts(w)
    <3>1. \A v \in Workers : HasJob(v)' /\ Marks(v)'
      BY <2>7, <2>s, SMTT(30) DEF Extracts, Running
    <3>2. QED
      BY <2>7, <2>c, <3>1, SMTT(30) DEF Extracts, MarksFit
  <2>8. CASE Ends(w)
    <3>1. "idle" \notin Running \cup {"lock"} /\ 0 <= hist'
      BY <2>h DEF Running
    <3>2. \A v \in Workers : HasJob(v)' /\ Marks(v)'
      <4>1. Fit(w, "idle", <<>>, 0, 0, hist') /\ Put(w, "idle", <<>>, 0, 0)
        BY <2>8, <3>1 DEF Fit, Ends
      <4>2. QED
        BY <1>a, <2>h, <4>1, PutShape, Zenon
    <3>3. QED
      BY <2>8, <2>c, <3>2 DEF Ends, MarksFit
  <2>9. QED
    BY <2>1, <2>2, <2>3, <2>4, <2>5, <2>6, <2>7, <2>8, <2>k
<1>2. ASSUME NEW w \in Workers, Starts(w) PROVE MarksFit'
  <2>1. "load" \notin Running \cup {"lock"} /\ 0 <= hist' /\ hist' = hist
    BY <1>2, <1>a DEF Running, Starts
  <2>2. \A v \in Workers : HasJob(v)' /\ Marks(v)'
    <3>1. Fit(w, "load", JobOrder, 0, 0, hist') /\ Put(w, "load", JobOrder, 0, 0)
      BY <1>2, <2>1, JobOrderIs DEF Fit, Starts
    <3>2. hist' \in Nat /\ hist <= hist'
      BY <1>a, <2>1
    <3>3. QED
      BY <1>a, <3>1, <3>2, PutShape, Zenon
  <2>3. QED
    BY <1>2, <1>a, <2>2 DEF Starts, MarksFit
<1>3. CASE Takes
  <2>1. "load" \notin Running \cup {"lock"} /\ 0 <= hist' /\ hist' = hist
    BY <1>3, <1>a DEF Running, Takes
  <2>2. <<Head(triggers)>> # <<>> /\ Len(<<Head(triggers)>>) = 1 /\ Consumer \in Workers
    BY Zenon DEF Workers
  <2>3. \A v \in Workers : HasJob(v)' /\ Marks(v)'
    <3>1. /\ Fit(Consumer, "load", <<Head(triggers)>>, 0, 0, hist')
          /\ Put(Consumer, "load", <<Head(triggers)>>, 0, 0)
      BY <1>3, <2>1, <2>2 DEF Fit, Takes
    <3>2. hist' \in Nat /\ hist <= hist'
      BY <1>a, <2>1
    <3>3. QED
      BY <1>a, <2>2, <3>1, <3>2, PutShape, Zenon
  <2>4. QED
    BY <1>3, <1>a, <2>3 DEF Takes, MarksFit
<1>4. CASE Quiet
  <2>1. hist' \in Nat /\ hist <= hist'
    BY <1>4, <1>a, SMTT(30) DEF Quiet
  <2>2. ASSUME NEW v \in Workers PROVE HasJob(v)' /\ Marks(v)'
    <3>1. worker'[v] = worker[v] /\ HasJob(v) /\ Marks(v)
      BY <1>4, <1>a, Zenon DEF Quiet
    <3>2. worker[v].cp \in Nat /\ worker[v].len \in Nat
      BY WorkerIs, Zenon
    <3>3. QED
      BY <1>a, <2>1, <3>1, <3>2 DEF HasJob, Marks
  <2>3. \A j \in Jobs : cp'[j] <= hist'
    BY <1>4, <1>a, <2>1, SMTT(30) DEF Quiet
  <2>4. QED
    BY <2>2, <2>3, Zenon DEF MarksFit
<1>5. CASE Crash
  BY <1>5, <1>a DEF Crash, Idle, MarksFit, HasJob, Marks, Running
<1>6. QED
  BY <1>1, <1>2, <1>3, <1>4, <1>5, <1>a, RetroKinds

-----------------------------------------------------------------------------
(* Checkpoints pass over nothing *)

Hows == {"extracted", "claimed"}
Covers(d, n) == \A m \in 1 .. n : \E how \in Hows : <<m, how>> \in d

\* What a run takes for processed is processed, and so is all it was given once
\* it is about to save.
Backed(w) ==
    /\ worker[w].pc \in Running \cup {"lock"} => Covers(done[Job(w)], worker[w].cp)
    /\ worker[w].pc = "save" => Covers(done[Job(w)], worker[w].len)

AllBacked == /\ \A j \in Jobs : Covers(done[j], cp[j])
             /\ \A w \in Workers : Backed(w)

Grows == \A j \in Jobs : done[j] \subseteq done'[j]

\* Dealing with more messages covers no fewer.
LEMMA CoversMore ==
  ASSUME NEW d, NEW e, d \subseteq e, NEW n, Covers(d, n)
  PROVE  Covers(e, n)
  BY Zenon DEF Covers

\* The messages after the covered ones extend them.
LEMMA CoversNext ==
  ASSUME NEW d, NEW c \in Nat, NEW n \in Nat, NEW how \in Hows, Covers(d, c)
  PROVE  Covers(d \cup (((c + 1) .. (c + n)) \X {how}), c + n)
<1>1. SUFFICES ASSUME NEW m \in 1 .. (c + n)
               PROVE  \E h \in Hows : <<m, h>> \in d \cup (((c + 1) .. (c + n)) \X {how})
  BY Zenon DEF Covers
<1>2. CASE m <= c
  <2>1. m \in 1 .. c
    BY <1>2
  <2>2. PICK h \in Hows : <<m, h>> \in d
    BY <2>1, Zenon DEF Covers
  <2>3. QED
    BY <2>2, Zenon
<1>3. CASE m > c
  <2>1. m \in (c + 1) .. (c + n)
    BY <1>3
  <2>2. QED
    BY <2>1, Zenon
<1>4. m <= c \/ m > c
  OBVIOUS
<1>5. QED
  BY <1>2, <1>3, <1>4, Zenon

\* A goroutine that gets backed fields, and all others, stay backed.
LEMMA PutBacked ==
  ASSUME RetroTypes, MarksFit, AllBacked, Grows, NEW w \in Workers,
         NEW p, NEW t, NEW c, NEW l, Put(w, p, t, c, l),
         p \in Running \cup {"lock"} => Covers(done'[Head(t)], c),
         p = "save" => Covers(done'[Head(t)], l)
  PROVE  \A v \in Workers : Backed(v)'
<1>1. SUFFICES ASSUME NEW v \in Workers PROVE Backed(v)'
  BY Zenon
<1>2. CASE v = w
  <2>1. worker'[v].pc = p /\ Job(v)' = Head(t) /\ worker'[v].cp = c /\ worker'[v].len = l
    BY <1>2, Zenon DEF Put, Fields, Job
  <2>2. QED
    BY <2>1, Zenon DEF Backed
<1>3. CASE v # w
  <2>1. worker'[v] = worker[v] /\ Job(v)' = Job(v) /\ Backed(v) /\ HasJob(v)
    BY <1>3, Zenon DEF Put, AllBacked, Job, MarksFit
  <2>2. CASE worker[v].pc = "idle"
    BY <2>1, <2>2, SMTT(30) DEF Backed, Running
  <2>3. CASE worker[v].pc # "idle"
    <3>1. done[Job(v)] \subseteq done'[Job(v)]
      BY <2>1, <2>3, JobOf, SMTT(30) DEF Grows
    <3>2. QED
      BY <2>1, <3>1, CoversMore, SMTT(30) DEF Backed
  <2>4. QED
    BY <2>2, <2>3, Zenon
<1>4. QED
  BY <1>2, <1>3, Zenon

\* Every step keeps checkpoints and runs backed.
LEMMA BackedStep ==
  ASSUME RetroAssumption, RetroTypes, MarksFit, AllBacked, [Next]_(vars)
  PROVE  AllBacked'
<1>a. \A v \in Workers : HasJob(v) /\ Marks(v) /\ Backed(v)
  BY Zenon DEF MarksFit, AllBacked
<1>s. ASSUME UNCHANGED done PROVE Grows
  BY <1>s, Zenon DEF Grows
<1>c. ASSUME UNCHANGED <<cp, done>> PROVE \A j \in Jobs : Covers(done'[j], cp'[j])
  BY <1>c, Zenon DEF AllBacked
<1>1. ASSUME NEW w \in Workers, Work(w) PROVE AllBacked'
  <2> DEFINE j == Job(w)
             b == worker[w].cp
             l == worker[w].len
  <2>k. \/ Loads(w) \/ Turns(w) \/ Acquires(w) \/ Reads(w) \/ Moves(w) \/ Preempts(w)
        \/ Extracts(w) \/ Saves(w) \/ Ends(w)
    BY <1>1, <1>a, WorkKinds
  <2>w. /\ b \in Nat /\ l \in Nat /\ HasJob(w) /\ Marks(w) /\ Backed(w)
        /\ Head(worker[w].todo) = Job(w)
    BY <1>a, WorkerIs, Zenon DEF Job
  <2>p. "ended" \notin Running \cup {"lock"} /\ "load" \notin Running \cup {"lock"}
        /\ "idle" \notin Running \cup {"lock"}
    BY Zenon DEF Running
  <2>s. ASSUME NEW p, Same(w, p), Grows, worker[w].pc \in Running \cup {"lock"}, p # "save"
        PROVE  \A v \in Workers : Backed(v)'
    <3>1. Job(w) \in Jobs
      BY <2>s, <2>w, <2>p, JobOf, SMTT(30)
    <3>2. Covers(done'[j], b)
      BY <2>s, <2>w, <3>1, CoversMore DEF Grows, Backed
    <3>3. QED
      BY <2>s, <2>w, <3>2, PutBacked DEF Same
  <2>1. CASE Loads(w)
    <3>1. PICK c \in {cp[Job(w)], 0}, p \in {"lock", "reflect", "history"} :
            Put(w, p, worker[w].todo, c, l)
      BY <2>1, Zenon DEF Loads
    <3>2. UNCHANGED <<cp, done>> /\ Job(w) \in Jobs
      BY <2>1, <2>w, JobOf DEF Loads
    <3>3. Covers(done'[j], c)
      BY <3>1, <3>2, SMTT(30) DEF AllBacked, Covers
    <3>4. \A v \in Workers : Backed(v)'
      BY <1>s, <2>w, <3>1, <3>2, <3>3, PutBacked, Zenon
    <3>5. QED
      BY <1>c, <3>2, <3>4 DEF AllBacked
  <2>2. CASE Turns(w)
    <3>1. UNCHANGED <<cp, done>> /\ \E p \in {"ended", "load"} : \E t : Put(w, p, t, b, l)
      BY <2>2, Zenon DEF Turns, Same
    <3>2. \A v \in Workers : Backed(v)'
      BY <1>s, <2>p, <3>1, PutBacked, SMTT(30)
    <3>3. QED
      BY <1>c, <3>1, <3>2 DEF AllBacked
  <2>3. CASE Acquires(w)
    <3>1. UNCHANGED <<cp, done>> /\ \E p \in {"reflect", "history"} : Same(w, p)
      BY <2>3, Zenon DEF Acquires
    <3>2. \A v \in Workers : Backed(v)'
      BY <1>s, <2>3, <2>s, <3>1 DEF Acquires
    <3>3. QED
      BY <1>c, <3>1, <3>2, SMTT(30) DEF AllBacked
  <2>4. CASE Reads(w)
    <3>1. UNCHANGED <<cp, done>> /\ worker[w].pc = "history"
      BY <2>4, Zenon DEF Reads
    <3>2. PICK p \in {"unlock", "slot"}, m \in {hist, l} : Put(w, p, worker[w].todo, b, m)
      BY <2>4, Zenon DEF Reads, Same
    <3>3. Covers(done'[j], b)
      BY <2>w, <3>1, Zenon DEF Backed, Running
    <3>4. \A v \in Workers : Backed(v)'
      BY <1>s, <2>w, <3>1, <3>2, <3>3, PutBacked, SMTT(30)
    <3>5. QED
      BY <1>c, <3>1, <3>4 DEF AllBacked
  <2>5. CASE Moves(w)
    <3>1. /\ UNCHANGED <<cp, done>> /\ worker[w].pc \in Running
          /\ \E p \in {"exec", "infer", "release", "unlock"} : Same(w, p)
      BY <2>5, Zenon DEF Moves, Running
    <3>2. \A v \in Workers : Backed(v)'
      BY <1>s, <2>s, <3>1
    <3>3. QED
      BY <1>c, <3>1, <3>2 DEF AllBacked
  <2>6. CASE Preempts(w)
    <3>1. PICK n \in 0 .. (l - b) :
            /\ cp' = [cp EXCEPT ![j] = b + n]
            /\ done' = [done EXCEPT ![j] = done[j] \cup Dealt(w, n, "claimed")]
      BY <2>6, Zenon DEF Preempts
    <3>2. j \in Jobs /\ worker[w].pc = "infer" /\ Same(w, "release") /\ n \in Nat
      BY <2>6, <2>w, <3>1, JobOf DEF Preempts
    <3>3. Grows
      BY <3>1, Zenon DEF Grows, RetroTypes
    <3>4. \A v \in Workers : Backed(v)'
      BY <2>s, <3>2, <3>3 DEF Running
    <3>5. Covers(done'[j], b + n)
      <4>1. Covers(done[j], b)
        BY <2>w, <3>2 DEF Backed, Running
      <4>2. done'[j] = done[j] \cup (((b + 1) .. (b + n)) \X {"claimed"})
        BY <3>1, <3>2 DEF RetroTypes, Dealt
      <4>3. "claimed" \in Hows
        BY Zenon DEF Hows
      <4>4. QED
        BY <2>w, <3>2, <4>1, <4>2, <4>3, CoversNext, SMTT(30)
    <3>6. ASSUME NEW i \in Jobs PROVE Covers(done'[i], cp'[i])
      <4>1. CASE i = j
        BY <3>1, <3>5, <4>1 DEF RetroTypes
      <4>2. CASE i # j
        BY <3>1, <4>2 DEF RetroTypes, AllBacked
      <4>3. QED
        BY <4>1, <4>2
    <3>7. QED
      BY <3>4, <3>6 DEF AllBacked
  <2>7. CASE Extracts(w)
    <3>1. done' = [done EXCEPT ![j] = done[j] \cup Dealt(w, l - b, "extracted")]
      BY <2>7, Zenon DEF Extracts
    <3>2. /\ j \in Jobs /\ worker[w].pc = "infer" /\ Put(w, "save", worker[w].todo, b, l)
          /\ cp' = cp
      BY <2>7, <2>w, JobOf DEF Extracts, Same
    <3>3. Grows
      BY <3>1 DEF Grows, RetroTypes
    <3>4. b <= l
      BY <2>w, <3>2 DEF Marks
    <3>5. l - b \in Nat /\ b + (l - b) = l
      BY <2>w, <3>4, SMTT(30)
    <3>6. Covers(done'[j], l) /\ Covers(done'[j], b)
      <4>1. Covers(done[j], b)
        BY <2>w, <3>2, SMTT(30) DEF Backed, Running
      <4>2. done'[j] = done[j] \cup (((b + 1) .. (b + (l - b))) \X {"extracted"})
        BY <3>1, <3>2 DEF RetroTypes, Dealt
      <4>3. "extracted" \in Hows
        BY Zenon DEF Hows
      <4>n. PICK n \in Nat : n = l - b
        BY <3>5
      <4>4. Covers(done'[j], b + n)
        BY <2>w, <4>1, <4>2, <4>3, <4>n, CoversNext, SMTT(30)
      <4>5. Covers(done'[j], b)
        BY <3>2, <3>3, <4>1, CoversMore, SMTT(30) DEF Grows
      <4>6. QED
        BY <3>5, <4>4, <4>5, <4>n
    <3>7. \A v \in Workers : Backed(v)'
      BY <2>w, <3>2, <3>3, <3>6, PutBacked, SMTT(30)
    <3>8. \A i \in Jobs : Covers(done'[i], cp'[i])
      BY <3>2, <3>3, CoversMore DEF Grows, AllBacked
    <3>9. QED
      BY <3>7, <3>8, Zenon DEF AllBacked
  <2>8. CASE Saves(w)
    <3>1. /\ UNCHANGED done /\ worker[w].pc = "save" /\ Same(w, "release")
          /\ cp' = [cp EXCEPT ![j] = l]
      BY <2>8, Zenon DEF Saves
    <3>2. \A v \in Workers : Backed(v)'
      BY <1>s, <2>s, <3>1 DEF Running
    <3>3. Covers(done[j], l)
      BY <2>w, <3>1 DEF Backed
    <3>4. \A i \in Jobs : Covers(done'[i], cp'[i])
      BY <3>1, <3>3, SMTT(30) DEF AllBacked, RetroTypes
    <3>5. QED
      BY <3>2, <3>4, Zenon DEF AllBacked
  <2>9. CASE Ends(w)
    <3>1. UNCHANGED <<cp, done>> /\ Put(w, "idle", <<>>, 0, 0)
      BY <2>9 DEF Ends
    <3>2. \A v \in Workers : Backed(v)'
      BY <1>s, <2>p, <3>1, PutBacked
    <3>3. QED
      BY <1>c, <3>1, <3>2 DEF AllBacked
  <2>10. QED
    BY <2>1, <2>2, <2>3, <2>4, <2>5, <2>6, <2>7, <2>8, <2>9, <2>k
<1>2. ASSUME NEW w \in Workers, NEW t, Put(w, "load", t, 0, 0), UNCHANGED <<cp, done>>
      PROVE  AllBacked'
  <2>1. "load" \notin Running \cup {"lock"} /\ "load" # "save"
    BY Zenon DEF Running
  <2>2. \A v \in Workers : Backed(v)'
    BY <1>2, <1>s, <2>1, PutBacked
  <2>3. QED
    BY <1>2, <1>c, <2>2 DEF AllBacked
<1>3. CASE Quiet
  <2>1. \A v \in Workers : Backed(v)'
    BY <1>3, <1>a DEF Quiet, Backed, Job
  <2>2. QED
    BY <1>3, <1>c, <2>1, SMTT(30) DEF Quiet, AllBacked
<1>4. CASE Crash
  <2>1. \A v \in Workers : worker'[v].pc = "idle"
    BY <1>4, Zenon DEF Crash, Idle
  <2>2. \A v \in Workers : Backed(v)'
    BY <2>1 DEF Backed, Running
  <2>3. QED
    BY <1>4, <1>c, <2>2 DEF Crash, AllBacked
<1>5. Consumer \in Workers
  BY Zenon DEF Workers
<1>6. \A v \in Workers : HasJob(v) /\ Marks(v)
  BY Zenon DEF MarksFit
<1>7. QED
  BY <1>1, <1>2, <1>3, <1>4, <1>5, <1>6, RetroKinds DEF Starts, Takes

-----------------------------------------------------------------------------
(* Whom a lock belongs to *)

Holds(w) == worker[w].pc \in Running \/ (w = Consumer /\ worker[w].pc = "load")

\* Every lock belongs to one run at most: the one the gateway is asking for, one
\* whose trigger is in the stream, or one of a goroutine.
Exclusive ==
    /\ gw \in Jobs => lock[gw] /\ \A i \in 1 .. Len(triggers) : triggers[i] # gw
    /\ \A i \in 1 .. Len(triggers) :
          lock[triggers[i]] /\ \A k \in 1 .. Len(triggers) : k # i => triggers[k] # triggers[i]
    /\ \A w \in Workers : Holds(w) =>
          lock[Job(w)] /\ Job(w) # gw /\ \A i \in 1 .. Len(triggers) : triggers[i] # Job(w)
    /\ \A v, w \in Workers : v # w /\ Holds(v) /\ Holds(w) => Job(v) # Job(w)

\* Nothing new holds a lock, and no lock is freed.
Loses ==
    /\ UNCHANGED <<gw, triggers>>
    /\ \A j \in Jobs : lock[j] => lock'[j]
    /\ \A v \in Workers : Holds(v)' => Holds(v) /\ Job(v)' = Job(v)

\* Then every lock still has one owner.
LEMMA LosesExclusive ==
  ASSUME RetroTypes, MarksFit, Exclusive, Loses
  PROVE  Exclusive'
<1>a. \A i \in 1 .. Len(triggers) : triggers[i] \in Jobs
  BY DEF RetroTypes
<1>b. \A w \in Workers : Holds(w) => Job(w) \in Jobs
  BY JobOf, Zenon DEF Holds, MarksFit, Running
<1>1. gw' \in Jobs => lock'[gw'] /\ \A i \in 1 .. Len(triggers') : triggers'[i] # gw'
  BY Zenon DEF Exclusive, Loses
<1>2. \A i \in 1 .. Len(triggers') :
        lock'[triggers'[i]] /\ \A k \in 1 .. Len(triggers') : k # i => triggers'[k] # triggers'[i]
  BY <1>a, Zenon DEF Exclusive, Loses
<1>3. ASSUME NEW w \in Workers, Holds(w)'
      PROVE  /\ lock'[Job(w)'] /\ Job(w)' # gw'
             /\ \A i \in 1 .. Len(triggers') : triggers'[i] # Job(w)'
  <2>1. Holds(w) /\ Job(w)' = Job(w) /\ gw' = gw /\ triggers' = triggers
    BY <1>3, Zenon DEF Loses
  <2>2. lock[Job(w)] /\ Job(w) # gw /\ \A i \in 1 .. Len(triggers) : triggers[i] # Job(w)
    BY <2>1, Zenon DEF Exclusive
  <2>3. lock'[Job(w)]
    BY <1>b, <2>1, <2>2, SMTT(30) DEF Loses
  <2>4. QED
    BY <2>1, <2>2, <2>3, SMTT(30)
<1>4. ASSUME NEW v \in Workers, NEW w \in Workers, v # w, Holds(v)', Holds(w)'
      PROVE  Job(v)' # Job(w)'
  <2>1. Holds(v) /\ Holds(w) /\ Job(v)' = Job(v) /\ Job(w)' = Job(w)
    BY <1>4 DEF Loses
  <2>2. QED
    BY <1>4, <2>1 DEF Exclusive
<1>5. QED
  BY <1>1, <1>2, <1>3, <1>4 DEF Exclusive

\* A goroutine whose change gives it no lock of another job.
LEMMA PutLoses ==
  ASSUME NEW w \in Workers, NEW p, NEW t, NEW c, NEW l, Put(w, p, t, c, l),
         p \in Running \/ (w = Consumer /\ p = "load") => Holds(w) /\ Head(t) = Job(w)
  PROVE  \A v \in Workers : Holds(v)' => Holds(v) /\ Job(v)' = Job(v)
<1>1. SUFFICES ASSUME NEW v \in Workers, Holds(v)' PROVE Holds(v) /\ Job(v)' = Job(v)
  BY Zenon
<1>2. CASE v = w
  <2>1. worker'[w].pc = p /\ Job(w)' = Head(t)
    BY Zenon DEF Put, Fields, Job
  <2>2. p \in Running \/ (w = Consumer /\ p = "load")
    BY <1>1, <1>2, <2>1, SMTT(30) DEF Holds
  <2>3. QED
    BY <1>2, <2>1, <2>2
<1>3. CASE v # w
  <2>1. worker'[v] = worker[v]
    BY <1>3, Zenon DEF Put
  <2>2. QED
    BY <1>1, <2>1 DEF Holds, Job
<1>4. QED
  BY <1>2, <1>3

\* A goroutine takes a lock that was free, or gives its own back.
LEMMA LockExclusive ==
  ASSUME RetroTypes, MarksFit, Exclusive, UNCHANGED <<gw, triggers>>, NEW w \in Workers,
         Job(w) \in Jobs,
         \A v \in Workers : v # w => worker'[v] = worker[v],
         \/ /\ ~lock[Job(w)] /\ lock' = [lock EXCEPT ![Job(w)] = TRUE]
            /\ Job(w)' = Job(w)
         \/ /\ Holds(w) /\ ~Holds(w)' /\ lock' = [lock EXCEPT ![Job(w)] = FALSE]
  PROVE  Exclusive'
<1> DEFINE j == Job(w)
<1>a. /\ \A i \in 1 .. Len(triggers) : triggers[i] \in Jobs
      /\ \A i \in Jobs : i # j => lock'[i] = lock[i]
  BY SMTT(30) DEF RetroTypes
<1>b. \A v \in Workers : Holds(v) => Job(v) \in Jobs
  BY JobOf, Zenon DEF Holds, MarksFit, Running
<1>c. \A v \in Workers : v # w => (Holds(v)' <=> Holds(v)) /\ Job(v)' = Job(v)
  BY Zenon DEF Holds, Job
<1>d. j \in Jobs /\ gw' = gw /\ triggers' = triggers
  BY Zenon
<1>1. gw # j /\ (\A i \in 1 .. Len(triggers) : triggers[i] # j)
      /\ \A v \in Workers : v # w /\ Holds(v) => Job(v) # j
  <2>1. CASE ~lock[j]
    BY <2>1, SMTT(30) DEF Exclusive
  <2>2. CASE Holds(w)
    BY <2>2, Zenon DEF Exclusive
  <2>3. QED
    BY <2>1, <2>2, SMTT(30)
<1>2. Holds(w)' => lock'[j] /\ Job(w)' = j
  BY <1>d, Zenon DEF RetroTypes
<1> HIDE DEF j
<1>3. gw' \in Jobs => lock'[gw'] /\ \A i \in 1 .. Len(triggers') : triggers'[i] # gw'
  BY <1>1, <1>a, <1>d, SMTT(30) DEF Exclusive
<1>4. \A i \in 1 .. Len(triggers') :
        lock'[triggers'[i]] /\ \A k \in 1 .. Len(triggers') : k # i => triggers'[k] # triggers'[i]
  BY <1>1, <1>a, <1>d, SMTT(30) DEF Exclusive
<1>5. ASSUME NEW v \in Workers, Holds(v)'
      PROVE  /\ lock'[Job(v)'] /\ Job(v)' # gw'
             /\ \A i \in 1 .. Len(triggers') : triggers'[i] # Job(v)'
  <2>1. CASE v = w
    BY <1>1, <1>2, <1>5, <1>d, <2>1, SMTT(30)
  <2>2. CASE v # w
    <3>1. Holds(v) /\ Job(v)' = Job(v) /\ Job(v) # j /\ Job(v) \in Jobs
      BY <1>1, <1>5, <1>b, <1>c, <2>2, SMTT(30)
    <3>2. lock[Job(v)] /\ Job(v) # gw /\ \A i \in 1 .. Len(triggers) : triggers[i] # Job(v)
      BY <3>1, SMTT(30) DEF Exclusive
    <3>3. QED
      BY <1>a, <1>d, <3>1, <3>2, SMTT(30)
  <2>3. QED
    BY <2>1, <2>2, Zenon
<1>6. ASSUME NEW u \in Workers, NEW v \in Workers, u # v, Holds(u)', Holds(v)'
      PROVE  Job(u)' # Job(v)'
  <2>1. CASE u = w
    BY <1>1, <1>2, <1>6, <1>c, <2>1, SMTT(30)
  <2>2. CASE v = w
    BY <1>1, <1>2, <1>6, <1>c, <2>2, SMTT(30)
  <2>3. CASE u # w /\ v # w
    <3>1. Holds(u) /\ Holds(v) /\ Job(u)' = Job(u) /\ Job(v)' = Job(v)
      BY <1>6, <1>c, <2>3
    <3>2. QED
      BY <1>6, <3>1, SMTT(30) DEF Exclusive
  <2>4. QED
    BY <2>1, <2>2, <2>3, SMTT(30)
<1>7. QED
  BY <1>3, <1>4, <1>5, <1>6 DEF Exclusive

\* Every step of a goroutine leaves each lock with one owner.
LEMMA WorkExclusive ==
  ASSUME RetroTypes, MarksFit, Exclusive, NEW w \in Workers, Work(w)
  PROVE  Exclusive'
<1>k. /\ \/ Loads(w) \/ Turns(w) \/ Acquires(w) \/ Reads(w) \/ Moves(w) \/ Preempts(w)
         \/ Extracts(w) \/ Saves(w) \/ Ends(w)
      /\ UNCHANGED <<gw, triggers>> /\ HasJob(w)
  BY WorkKinds, Zenon DEF MarksFit
<1>j. worker[w].pc # "idle" => Job(w) \in Jobs
  BY <1>k, JobOf, Zenon
<1>t. Head(worker[w].todo) = Job(w)
  BY Zenon DEF Job
<1>l. ASSUME lock' \in {lock, [lock EXCEPT ![Job(w)] = TRUE]},
             \A v \in Workers : Holds(v)' => Holds(v) /\ Job(v)' = Job(v)
      PROVE  Exclusive'
  <2>1. \A i \in Jobs : lock[i] => lock'[i]
    BY <1>l, Zenon DEF RetroTypes
  <2>2. Loses
    BY <1>k, <1>l, <2>1 DEF Loses
  <2>3. QED
    BY <2>2, LosesExclusive
<1>1. CASE Loads(w)
  <2>1. PICK c \in {cp[Job(w)], 0}, p \in {"lock", "reflect", "history"} :
          Put(w, p, worker[w].todo, c, worker[w].len) /\ (p = "lock" <=> w # Consumer)
    BY <1>1 DEF Loads
  <2>2. p \in Running \/ (w = Consumer /\ p = "load") => Holds(w)
    BY <1>1, <2>1 DEF Loads, Holds, Running
  <2>3. \A v \in Workers : Holds(v)' => Holds(v) /\ Job(v)' = Job(v)
    BY <1>t, <2>1, <2>2, PutLoses, SMTT(30)
  <2>4. QED
    BY <1>1, <1>l, <2>3 DEF Loads
<1>2. CASE Turns(w)
  <2>1. PICK p \in {"ended", "load"}, t \in {worker[w].todo, Tail(worker[w].todo)} :
          Put(w, p, t, worker[w].cp, worker[w].len) /\ (p = "load" => Len(worker[w].todo) > 1)
    BY <1>2, SMTT(30) DEF Turns, Same
  <2>2. worker[w].todo \in Seq(Jobs) /\ worker[w].pc # "idle"
    BY <1>2, WorkerIs DEF Turns
  <2>3. p = "load" => w # Consumer
    BY <1>k, <2>1, <2>2, MoreThanOne, Zenon DEF HasJob
  <2>4. ~(p \in Running \/ (w = Consumer /\ p = "load"))
    BY <2>1, <2>3 DEF Running
  <2>5. \A v \in Workers : Holds(v)' => Holds(v) /\ Job(v)' = Job(v)
    BY <2>1, <2>4, PutLoses
  <2>6. CASE lock' \in {lock, [lock EXCEPT ![Job(w)] = TRUE]}
    BY <1>l, <2>5, <2>6, SMTT(30)
  <2>7. CASE worker[w].pc = "unlock" /\ lock' = [lock EXCEPT ![Job(w)] = FALSE]
    <3>1. Holds(w)
      BY <2>7, SMTT(30) DEF Holds, Running
    <3>2. ~Holds(w)'
      BY <2>1, <2>4 DEF Put, Fields, Holds
    <3>3. \A v \in Workers : v # w => worker'[v] = worker[v]
      BY <2>1, SMTT(30) DEF Put
    <3>4. QED
      BY <1>j, <1>k, <2>7, <3>1, <3>2, <3>3, LockExclusive, Zenon
  <2>8. QED
    BY <1>2, <2>6, <2>7, SMTT(30) DEF Turns
<1>3. CASE Acquires(w)
  <2>1. PICK p \in {"reflect", "history"} :
          Put(w, p, worker[w].todo, worker[w].cp, worker[w].len)
    BY <1>3 DEF Acquires, Same
  <2>2. Job(w)' = Job(w) /\ \A v \in Workers : v # w => worker'[v] = worker[v]
    BY <2>1 DEF Put, Fields, Job
  <2>3. ~lock[Job(w)] /\ lock' = [lock EXCEPT ![Job(w)] = TRUE] /\ Job(w) \in Jobs
    BY <1>3, <1>j DEF Acquires
  <2>4. QED
    BY <1>k, <2>2, <2>3, LockExclusive, Zenon
<1>4. CASE Reads(w) \/ Moves(w) \/ Preempts(w) \/ Extracts(w) \/ Saves(w)
  <2>1. UNCHANGED lock /\ worker[w].pc \in Running
    BY <1>4, Zenon DEF Reads, Moves, Preempts, Extracts, Saves, Running
  <2>2. PICK p \in Running, l \in {hist, worker[w].len} :
          Put(w, p, worker[w].todo, worker[w].cp, l)
    BY <1>4, Zenon DEF Reads, Moves, Preempts, Extracts, Saves, Same, Running
  <2>3. Holds(w)
    BY <2>1 DEF Holds
  <2>4. \A v \in Workers : Holds(v)' => Holds(v) /\ Job(v)' = Job(v)
    BY <1>t, <2>2, <2>3, PutLoses
  <2>5. QED
    BY <1>l, <2>1, <2>4, Zenon
<1>5. CASE Ends(w)
  <2>1. UNCHANGED lock /\ Put(w, "idle", <<>>, 0, 0)
    BY <1>5, Zenon DEF Ends
  <2>2. ~("idle" \in Running \/ (w = Consumer /\ "idle" = "load"))
    BY Zenon DEF Running
  <2>3. \A v \in Workers : Holds(v)' => Holds(v) /\ Job(v)' = Job(v)
    BY <2>1, <2>2, PutLoses
  <2>4. QED
    BY <1>l, <2>1, <2>3, SMTT(30)
<1>6. QED
  BY <1>1, <1>2, <1>3, <1>4, <1>5, <1>k

\* The gateway's lock passes to the trigger it appends to the stream.
LEMMA PublishExclusive ==
  ASSUME RetroAssumption, RetroTypes, MarksFit, Exclusive, gw \in Jobs, gw' = "none",
         triggers' = Append(triggers, gw), UNCHANGED <<lock, worker>>
  PROVE  Exclusive'
<1>1. /\ triggers \in Seq(Jobs) /\ Len(triggers) \in Nat /\ Len(triggers') = Len(triggers) + 1
      /\ \A i \in 1 .. Len(triggers) : triggers'[i] = triggers[i]
      /\ triggers'[Len(triggers) + 1] = gw
  BY DEF RetroTypes
<1>2. ASSUME NEW i \in 1 .. Len(triggers')
      PROVE  \/ i \in 1 .. Len(triggers) /\ triggers'[i] = triggers[i]
             \/ i = Len(triggers) + 1 /\ i \notin 1 .. Len(triggers) /\ triggers'[i] = gw
  BY <1>1
<1>3. gw' \notin Jobs
  BY Zenon DEF RetroAssumption
<1>4. lock[gw] /\ \A i \in 1 .. Len(triggers) : triggers[i] # gw
  BY Zenon DEF Exclusive
<1>5. ASSUME NEW i \in 1 .. Len(triggers')
      PROVE  lock'[triggers'[i]] /\ \A k \in 1 .. Len(triggers') : k # i => triggers'[k] # triggers'[i]
  <2>1. lock'[triggers'[i]]
    BY <1>2, <1>4, SMTT(30) DEF Exclusive
  <2>2. ASSUME NEW k \in 1 .. Len(triggers'), k # i PROVE triggers'[k] # triggers'[i]
    <3>1. \/ i \in 1 .. Len(triggers) /\ triggers'[i] = triggers[i]
          \/ i = Len(triggers) + 1 /\ i \notin 1 .. Len(triggers) /\ triggers'[i] = gw
      BY <1>2
    <3>2. \/ k \in 1 .. Len(triggers) /\ triggers'[k] = triggers[k]
          \/ k = Len(triggers) + 1 /\ k \notin 1 .. Len(triggers) /\ triggers'[k] = gw
      BY <1>2
    <3>3. QED
      BY <1>4, <2>2, <3>1, <3>2 DEF Exclusive
  <2>3. QED
    BY <2>1, <2>2, SMTT(30)
<1>6. ASSUME NEW w \in Workers, Holds(w)'
      PROVE  /\ lock'[Job(w)'] /\ Job(w)' # gw'
             /\ \A i \in 1 .. Len(triggers') : triggers'[i] # Job(w)'
  <2>1. Holds(w) /\ Job(w)' = Job(w)
    BY <1>6, SMTT(30) DEF Holds, Job
  <2>2. lock[Job(w)] /\ Job(w) # gw /\ \A i \in 1 .. Len(triggers) : triggers[i] # Job(w)
    BY <2>1, SMTT(30) DEF Exclusive
  <2>3. Job(w) \in Jobs
    BY <2>1, JobOf DEF Holds, MarksFit, Running
  <2>4. QED
    BY <1>2, <1>3, <2>1, <2>2, <2>3
<1>7. \A v, w \in Workers : v # w /\ Holds(v)' /\ Holds(w)' => Job(v)' # Job(w)'
  BY SMTT(30) DEF Exclusive, Holds, Job
<1>8. QED
  BY <1>3, <1>5, <1>6, <1>7 DEF Exclusive

\* The lock of the trigger taken passes to the consumer.
LEMMA TakeExclusive ==
  ASSUME RetroAssumption, RetroTypes, Exclusive, Takes
  PROVE  Exclusive'
<1>1. /\ triggers \in Seq(Jobs) /\ triggers # <<>> /\ triggers' = Tail(triggers)
      /\ gw' = gw /\ lock' = lock /\ worker[Consumer].pc = "idle" /\ Consumer \in Workers
  BY Zenon DEF RetroTypes, Takes, Workers
<1>2. /\ Len(triggers) \in Nat /\ Len(triggers) > 0 /\ Len(triggers') = Len(triggers) - 1
      /\ \A i \in 1 .. Len(triggers') : triggers'[i] = triggers[i + 1]
      /\ Head(triggers) = triggers[1]
  BY <1>1
<1>3. ASSUME NEW i \in 1 .. Len(triggers')
      PROVE  i + 1 \in 1 .. Len(triggers) /\ i + 1 # 1 /\ triggers'[i] = triggers[i + 1]
  BY <1>2
<1>4. 1 \in 1 .. Len(triggers)
  BY <1>2
<1>5. ASSUME NEW w \in Workers, Holds(w)'
      PROVE  \/ w # Consumer /\ Holds(w) /\ Job(w)' = Job(w)
             \/ w = Consumer /\ Job(w)' = triggers[1]
  <2>1. CASE w = Consumer
    BY <1>2, <2>1, SMTT(30) DEF Takes, Put, Fields, Job
  <2>2. CASE w # Consumer
    BY <1>5, <2>2, Zenon DEF Takes, Put, Holds, Job
  <2>3. QED
    BY <2>1, <2>2
<1>6. gw' \in Jobs => lock'[gw'] /\ \A i \in 1 .. Len(triggers') : triggers'[i] # gw'
  BY <1>1, <1>3 DEF Exclusive
<1>7. ASSUME NEW i \in 1 .. Len(triggers')
      PROVE  lock'[triggers'[i]] /\ \A k \in 1 .. Len(triggers') : k # i => triggers'[k] # triggers'[i]
  <2>1. lock'[triggers'[i]]
    BY <1>1, <1>3, SMTT(30) DEF Exclusive
  <2>2. ASSUME NEW k \in 1 .. Len(triggers'), k # i PROVE triggers'[k] # triggers'[i]
    <3>1. k + 1 # i + 1
      BY <2>2, SMTT(30)
    <3>2. QED
      BY <1>3, <3>1 DEF Exclusive
  <2>3. QED
    BY <2>1, <2>2, Zenon
<1>8. ASSUME NEW w \in Workers, Holds(w)'
      PROVE  /\ lock'[Job(w)'] /\ Job(w)' # gw'
             /\ \A i \in 1 .. Len(triggers') : triggers'[i] # Job(w)'
  <2>1. CASE w # Consumer /\ Holds(w) /\ Job(w)' = Job(w)
    BY <1>1, <1>3, <2>1, SMTT(30) DEF Exclusive
  <2>2. CASE w = Consumer /\ Job(w)' = triggers[1]
    <3>1. lock[triggers[1]] /\ triggers[1] \in Jobs
      BY <1>1, <1>4, SMTT(30) DEF Exclusive
    <3>2. gw # triggers[1]
      BY <1>4, <3>1, SMTT(30) DEF Exclusive
    <3>3. \A i \in 1 .. Len(triggers') : triggers'[i] # triggers[1]
      BY <1>3, <1>4, SMTT(30) DEF Exclusive
    <3>4. QED
      BY <1>1, <2>2, <3>1, <3>2, <3>3, SMTT(30)
  <2>3. QED
    BY <1>5, <1>8, <2>1, <2>2, SMTT(30)
<1>9. ASSUME NEW v \in Workers, NEW w \in Workers, v # w, Holds(v)', Holds(w)'
      PROVE  Job(v)' # Job(w)'
  <2>1. /\ \/ v # Consumer /\ Holds(v) /\ Job(v)' = Job(v)
           \/ v = Consumer /\ Job(v)' = triggers[1]
        /\ \/ w # Consumer /\ Holds(w) /\ Job(w)' = Job(w)
           \/ w = Consumer /\ Job(w)' = triggers[1]
    BY <1>5, <1>9, SMTT(30)
  <2>2. \A u \in Workers : Holds(u) => Job(u) # triggers[1]
    BY <1>4, Zenon DEF Exclusive
  <2>3. QED
    BY <1>9, <2>1, <2>2 DEF Exclusive
<1>10. QED
  BY <1>6, <1>7, <1>8, <1>9, Zenon DEF Exclusive

\* A lock nobody owns may go, or come to the gateway; the gateway may also give
\* up, with the lock or without.
LEMMA GatewayExclusive ==
  ASSUME RetroAssumption, RetroTypes, MarksFit, Exclusive, UNCHANGED <<triggers, worker>>,
         NEW j \in Jobs,
         \A i \in Jobs : i # j => lock'[i] = lock[i],
         \A i \in 1 .. Len(triggers) : triggers[i] # j,
         \A w \in Workers : Holds(w) => Job(w) # j,
         \/ gw' = gw /\ gw # j
         \/ gw' = j /\ lock'[j]
         \/ gw' = "none"
  PROVE  Exclusive'
<1>1. "none" \notin Jobs /\ \A i \in 1 .. Len(triggers) : triggers[i] \in Jobs
  BY SMTT(30) DEF RetroAssumption, RetroTypes
<1>2. \A w \in Workers : (Holds(w)' <=> Holds(w)) /\ Job(w)' = Job(w)
  BY Zenon DEF Holds, Job
<1>3. \A w \in Workers : Holds(w) => Job(w) \in Jobs
  BY JobOf, SMTT(30) DEF Holds, MarksFit, Running
<1>4. gw' \in Jobs => lock'[gw'] /\ \A i \in 1 .. Len(triggers') : triggers'[i] # gw'
  BY <1>1, SMTT(30) DEF Exclusive
<1>5. \A i \in 1 .. Len(triggers') :
        lock'[triggers'[i]] /\ \A k \in 1 .. Len(triggers') : k # i => triggers'[k] # triggers'[i]
  BY <1>1, SMTT(30) DEF Exclusive
<1>6. ASSUME NEW w \in Workers, Holds(w)'
      PROVE  /\ lock'[Job(w)'] /\ Job(w)' # gw'
             /\ \A i \in 1 .. Len(triggers') : triggers'[i] # Job(w)'
  <2>1. Holds(w) /\ Job(w)' = Job(w) /\ Job(w) \in Jobs /\ Job(w) # j
    BY <1>2, <1>3, <1>6, SMTT(30)
  <2>2. lock[Job(w)] /\ Job(w) # gw /\ \A i \in 1 .. Len(triggers) : triggers[i] # Job(w)
    BY <2>1, SMTT(30) DEF Exclusive
  <2>3. QED
    BY <1>1, <2>1, <2>2, SMTT(30)
<1>7. \A v, w \in Workers : v # w /\ Holds(v)' /\ Holds(w)' => Job(v)' # Job(w)'
  BY <1>2 DEF Exclusive
<1>8. QED
  BY <1>4, <1>5, <1>6, <1>7, Zenon DEF Exclusive

\* As long as no run outlasts its lock, every lock has one owner.
LEMMA ExclusiveStep ==
  ASSUME RetroAssumption, RetroTypes, MarksFit, [Next]_(vars),
         used.overruns = 0 => Exclusive
  PROVE  used'.overruns = 0 => Exclusive'
<1>a. \A v \in Workers : HasJob(v) /\ Marks(v)
  BY Zenon DEF MarksFit
<1>h. SUFFICES ASSUME used'.overruns = 0 PROVE Exclusive'
  OBVIOUS
<1>u. used.overruns \in Nat
  BY Zenon DEF RetroTypes
<1>l. ASSUME used'.overruns = used.overruns, UNCHANGED <<gw, triggers, lock>>,
             \A v \in Workers : Holds(v)' => Holds(v) /\ Job(v)' = Job(v)
      PROVE  Exclusive'
  BY <1>h, <1>l, LosesExclusive DEF Loses
<1>q. UNCHANGED worker => \A v \in Workers : Holds(v)' => Holds(v) /\ Job(v)' = Job(v)
  BY Zenon DEF Holds, Job
<1>1. ASSUME NEW w \in Workers, Work(w) PROVE Exclusive'
  <2>1. used'.overruns = used.overruns
    BY <1>1, <1>a, WorkKinds, SMTT(30)
  <2>2. QED
    BY <1>1, <1>h, <2>1, WorkExclusive, SMTT(30)
<1>2. ASSUME NEW w \in Workers, Starts(w) PROVE Exclusive'
  <2>1. ~("load" \in Running \/ (w = Consumer /\ "load" = "load"))
    BY <1>2, SMTT(30) DEF Starts, Running
  <2>2. \A v \in Workers : Holds(v)' => Holds(v) /\ Job(v)' = Job(v)
    BY <1>2, <2>1, PutLoses DEF Starts
  <2>3. QED
    BY <1>2, <1>l, <2>2 DEF Starts
<1>3. CASE Takes
  <2>1. used' = used
    BY <1>3, Zenon DEF Takes
  <2>2. QED
    BY <1>3, <1>h, <2>1, TakeExclusive, SMTT(30)
<1>4. CASE Crash
  <2>1. used'.overruns = used.overruns
    BY <1>4, SpendIs, SMTT(30) DEF Crash
  <2>2. \A v \in Workers : ~Holds(v)'
    BY <1>4 DEF Crash, Holds, Idle, Running
  <2>3. QED
    BY <1>4, <1>l, <2>1, <2>2, SMTT(30) DEF Crash
<1>5. CASE TurnCompleted
  <2>1. used'.overruns = used.overruns
    BY <1>5, RearmIs, SMTT(30) DEF TurnCompleted
  <2>2. QED
    BY <1>5, <1>l, <1>q, <2>1 DEF TurnCompleted
<1>6. CASE UNCHANGED vars
  BY <1>6, <1>l, <1>q, SMTT(30) DEF vars
<1>7. CASE PublishTrigger
  <2>1. gw \in Jobs /\ gw' = "none" /\ UNCHANGED worker
    BY <1>7 DEF PublishTrigger, RetroTypes
  <2>2. CASE triggers' = Append(triggers, gw) /\ UNCHANGED <<lock, used>>
    BY <1>h, <2>1, <2>2, PublishExclusive, SMTT(30)
  <2>3. CASE /\ Spend("faults", MaxFaults) /\ UNCHANGED triggers
             /\ lock' = [lock EXCEPT ![gw] = FALSE] \/ UNCHANGED lock
    <3>1. Exclusive
      BY <1>h, <2>3, SpendIs, SMTT(30)
    <3>2. \A i \in Jobs : i # gw => lock'[i] = lock[i]
      BY <2>3, SMTT(30) DEF RetroTypes
    <3>3. /\ \A i \in 1 .. Len(triggers) : triggers[i] # gw
          /\ \A w \in Workers : Holds(w) => Job(w) # gw
      BY <2>1, <3>1 DEF Exclusive
    <3>4. UNCHANGED <<triggers, worker>>
      BY <2>1, <2>3, SMTT(30)
    <3>5. QED
      BY <2>1, <3>1, <3>2, <3>3, <3>4, GatewayExclusive, SMTT(30)
  <2>4. QED
    BY <1>7, <2>2, <2>3, SMTT(30) DEF PublishTrigger
<1>8. ASSUME NEW j \in Jobs, TriggerRequest(j) PROVE Exclusive'
  <2>1. UNCHANGED <<triggers, worker>> /\ gw' = j /\ ~lock[j]
    BY <1>8 DEF TriggerRequest
  <2>2. (\A i \in Jobs : i # j => lock'[i] = lock[i]) /\ lock'[j]
    BY <1>8 DEF TriggerRequest, RetroTypes
  <2>3. Exclusive
    BY <1>8, <1>h, SpendIs, SMTT(30) DEF TriggerRequest
  <2>4. /\ \A i \in 1 .. Len(triggers) : triggers[i] # j
        /\ \A w \in Workers : Holds(w) => Job(w) # j
    BY <2>1, <2>3, SMTT(30) DEF Exclusive
  <2>5. QED
    BY <2>1, <2>2, <2>3, <2>4, GatewayExclusive
<1>9. ASSUME NEW j \in Jobs, ExpireLock(j) PROVE Exclusive'
  <2>1. UNCHANGED <<gw, triggers, worker>> /\ TTLOver(j)
    BY <1>9 DEF ExpireLock
  <2>2. \A i \in Jobs : i # j => lock'[i] = lock[i]
    BY <1>9 DEF ExpireLock, RetroTypes
  <2>3. ~InUse(j) /\ used' = used
    <3>1. CASE InUse(j) /\ Spend("overruns", MaxOverruns)
      <4>1. used' = [used EXCEPT !["overruns"] = @ + 1]
        BY <3>1 DEF Spend
      <4>2. used'.overruns = used.overruns + 1
        BY <4>1 DEF RetroTypes
      <4>3. QED
        BY <1>h, <1>u, <4>2
    <3>2. QED
      BY <2>1, <3>1 DEF TTLOver
  <2>4. gw # j /\ j \notin Range(triggers)
        /\ \A w \in Workers : ~(worker[w].pc \in Running \cup {"load"} /\ Job(w) = j)
    BY <2>3, Zenon DEF InUse
  <2>5. \A i \in 1 .. Len(triggers) : triggers[i] # j
    BY <2>4 DEF Range, RetroTypes
  <2>6. \A w \in Workers : Holds(w) => Job(w) # j
    BY <2>4 DEF Holds
  <2>7. Exclusive
    BY <1>h, <2>3
  <2>8. QED
    BY <2>1, <2>2, <2>4, <2>5, <2>6, <2>7, GatewayExclusive, Zenon
<1>10. QED
  BY <1>1, <1>2, <1>3, <1>4, <1>5, <1>6, <1>7, <1>8, <1>9, <1>a, RetroKinds, Zenon
     DEF Quiet, Outside

-----------------------------------------------------------------------------
RetroInv == RetroTypes /\ MarksFit /\ AllBacked /\ (used.overruns = 0 => Exclusive)

\* The jobs of a session (cmd/retro-agent/main.go; retro/job.go; retro/lock.go),
\* for any set of jobs and however many events, triggers, preemptions and faults:
\* without an overrun no two goroutines run the same job at once, and with or
\* without one no checkpoint passes over a message that no run dealt with.
THEOREM JobsAreSound ==
  ASSUME RetroAssumption
  PROVE  Spec => []JobsSound
<1>1. ASSUME Init PROVE RetroInv
  <2>1. RetroTypes
    <3>1. Idle \in WorkerRecords
      BY SMTT(30) DEF Idle, WorkerRecords, Pcs
    <3>2. QED
      BY <1>1, <3>1 DEF Init, RetroTypes, Slots, NoSlot
  <2>2. MarksFit
    BY <1>1, SMTT(30) DEF Init, MarksFit, HasJob, Marks, Idle, Running
  <2>3. AllBacked
    BY <1>1, SMTT(30) DEF Init, AllBacked, Backed, Covers, Idle, Running
  <2>4. Exclusive
    <3>1. \A w \in Workers : ~Holds(w)
      BY <1>1, SMTT(30) DEF Init, Holds, Idle, Running
    <3>2. gw \notin Jobs /\ Len(triggers) = 0
      BY <1>1 DEF Init, RetroAssumption
    <3>3. QED
      BY <3>1, <3>2, SMTT(30) DEF Exclusive
  <2>5. QED
    BY <2>1, <2>2, <2>3, <2>4 DEF RetroInv
<1>2. RetroInv /\ [Next]_vars => RetroInv'
  BY RetroTypesStep, MarksStep, BackedStep, ExclusiveStep DEF RetroInv
<1>3. ASSUME RetroInv PROVE JobsSound
  <2>1. TypeOK
    <3>1. \A w \in Workers : worker[w].pc \in Running \cup {"idle", "load", "lock", "ended"}
      BY <1>3, SMTT(30) DEF RetroInv, RetroTypes, WorkerRecords, Pcs
    <3>2. QED
      BY <1>3, <3>1 DEF RetroInv, RetroTypes, MarksFit, TypeOK
  <2>2. OneRunPerJob
    BY <1>3, SMTT(30) DEF RetroInv, Exclusive, Holds, OneRunPerJob
  <2>3. NothingSkipped
    BY <1>3, Zenon DEF RetroInv, AllBacked, Covers, Hows, NothingSkipped
  <2>4. QED
    BY <2>1, <2>2, <2>3 DEF JobsSound
<1>4. QED
  BY <1>1, <1>2, <1>3, PTL DEF Spec
=============================================================================
