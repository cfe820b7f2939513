-------------------------------- MODULE Retro --------------------------------
(***************************************************************************)
(* The retro-agent (cmd/retro-agent/main.go, internal/retro) on one        *)
(* session: inactivity timers and external triggers start its jobs, a      *)
(* Valkey lock with a TTL keeps two runs of a job apart, and a checkpoint  *)
(* records how much of the session a job has processed.  The jobs run in   *)
(* goroutines that share one agent.Runtime, and with it one slot number.   *)
(* handleRetroTrigger of the gateway takes the lock for the run it asks    *)
(* for.                                                                    *)
(***************************************************************************)
EXTENDS Naturals, Sequences, FiniteSets, Functions

CONSTANTS
    Jobs,           \* subset of {"memory", "skill", "curation"}
    MaxEvents,      \* session events, and so timers
    MinTurns,       \* minHistoryTurns of skill creation
    MaxTriggers, MaxPreempts, MaxFaults,
    MaxOverruns,    \* how often a job or a queued trigger outlasts its lock
    Markers         \* partial output may contain role markers

Timers == 1..MaxEvents
Consumer == 0           \* the consumer of stream:retro:triggers
Ender == MaxEvents + 1  \* the session-end trigger
Workers == Timers \cup {Consumer, Ender}
NoTimer == 0
NoSlot == 0
Slots == 1..Cardinality(Workers)

\* What the constants satisfy.
RetroAssumption ==
    /\ Jobs # {} /\ Jobs \subseteq {"memory", "skill", "curation"}
    /\ {MaxEvents, MinTurns, MaxTriggers, MaxPreempts, MaxFaults, MaxOverruns}
         \subseteq Nat
    /\ Markers \in BOOLEAN

VARIABLES
    hist,           \* messages in the session's history
    pending, entry, \* timers running; the one in the timers map
    lock,           \* retro:lock:{session}:{job}
    cp,             \* retro:checkpoint:{session}:{job}
    gw,             \* the trigger the gateway holds the lock for, or "none"
    triggers,       \* stream:retro:triggers
    worker,         \* the goroutines
    slot,           \* Runtime.slotID
    assigned,       \* slots the broker has assigned to the retro-agent
    done,           \* <<message, how>>: "extracted", or "claimed" by partial output
    used

vars == <<hist, pending, entry, lock, cp, gw, triggers, worker, slot, assigned,
          done, used>>
timers == <<pending, entry>>
runtime == <<slot, assigned>>

Idle == [pc |-> "idle", todo |-> <<>>, cp |-> 0, len |-> 0]
Running == {"history", "slot", "exec", "infer", "save", "release", "reflect", "unlock"}
Job(w) == Head(worker[w].todo)
Spend(what, limit) == used[what] < limit /\ used' = [used EXCEPT ![what] = @ + 1]
Goto(w, l) == worker' = [worker EXCEPT ![w].pc = l]

Init ==
    /\ hist = 0 /\ pending = {} /\ entry = NoTimer
    /\ lock = [j \in Jobs |-> FALSE] /\ cp = [j \in Jobs |-> 0]
    /\ gw = "none" /\ triggers = <<>> /\ worker = [w \in Workers |-> Idle]
    /\ slot = NoSlot /\ assigned = {} /\ done = [j \in Jobs |-> {}]
    /\ used = [events |-> 0, triggers |-> 0, preempts |-> 0, faults |-> 0,
               overruns |-> 0]

-----------------------------------------------------------------------------
(* Triggers. *)

\* Every event of the session re-arms its timer.
Rearm == /\ Spend("events", MaxEvents)
         /\ pending' = (pending \ {entry}) \cup {used'.events}
         /\ entry' = used'.events

TurnCompleted ==
    /\ Rearm /\ hist' = hist + 1
    /\ UNCHANGED <<lock, cp, gw, triggers, worker, runtime, done>>

\* dispatch: every job, one after the other.
JobOrder == LET If(j) == IF j \in Jobs THEN <<j>> ELSE <<>>
            IN  If("memory") \o If("skill") \o If("curation")
Dispatch(w) == worker' = [worker EXCEPT ![w] = [Idle EXCEPT !.pc = "load",
                                                            !.todo = JobOrder]]

SessionEnded ==
    /\ Rearm /\ worker[Ender].pc = "idle" /\ Dispatch(Ender)
    /\ UNCHANGED <<hist, lock, cp, gw, triggers, runtime, done>>

TimerFires(t) ==
    /\ t \in pending /\ pending' = pending \ {t}
    /\ Dispatch(t)
    /\ UNCHANGED <<hist, entry, lock, cp, gw, triggers, runtime, done, used>>

\* handleRetroTrigger: the lock, then the message; a failed publish gives the
\* lock back, a crash does not.
TriggerRequest(j) ==
    /\ gw = "none" /\ hist > 0 /\ ~lock[j] /\ Spend("triggers", MaxTriggers)
    /\ lock' = [lock EXCEPT ![j] = TRUE] /\ gw' = j
    /\ UNCHANGED <<hist, timers, cp, triggers, worker, runtime, done>>

PublishTrigger ==
    /\ gw # "none" /\ gw' = "none"
    /\ \/ triggers' = Append(triggers, gw) /\ UNCHANGED <<lock, used>>
       \/ /\ Spend("faults", MaxFaults) /\ UNCHANGED triggers
          /\ \/ lock' = [lock EXCEPT ![gw] = FALSE]
             \/ UNCHANGED lock
    /\ UNCHANGED <<hist, timers, cp, worker, runtime, done>>

\* dispatchSingle, under the gateway's lock.
TakeTrigger ==
    /\ worker[Consumer].pc = "idle" /\ triggers # <<>>
    /\ triggers' = Tail(triggers)
    /\ worker' = [worker EXCEPT ![Consumer] =
                    [Idle EXCEPT !.pc = "load", !.todo = <<Head(triggers)>>]]
    /\ UNCHANGED <<hist, timers, lock, cp, gw, runtime, done, used>>

\* The TTL of a lock: it normally outlives the run it was taken for.
InUse(j) == \/ gw = j \/ j \in Range(triggers)
            \/ \E w \in Workers : /\ worker[w].pc \in Running \cup {"load"}
                                  /\ Job(w) = j
TTLOver_Never(j) == FALSE /\ UNCHANGED used
TTLOver(j) == \/ ~InUse(j) /\ UNCHANGED used
              \/ InUse(j) /\ Spend("overruns", MaxOverruns)

ExpireLock(j) ==
    /\ lock[j] /\ TTLOver(j)
    /\ lock' = [lock EXCEPT ![j] = FALSE]
    /\ UNCHANGED <<hist, timers, cp, gw, triggers, worker, runtime, done>>

-----------------------------------------------------------------------------
(* A goroutine running jobs. *)

\* The checkpoint is loaded before the lock is taken; one that cannot be read
\* is none.
LoadCheckpoint(w) ==
    /\ worker[w].pc = "load"
    /\ \E from \in {cp[Job(w)], 0} :
        /\ worker' = [worker EXCEPT
              ![w].cp = IF Job(w) = "curation" THEN 0 ELSE from,
              ![w].pc = IF w # Consumer THEN "lock"
                        ELSE IF Job(w) = "curation" THEN "reflect" ELSE "history"]
        /\ IF from = cp[Job(w)] THEN UNCHANGED used ELSE Spend("faults", MaxFaults)
    /\ UNCHANGED <<hist, timers, lock, cp, gw, triggers, runtime, done>>

NextJob(w) ==
    IF Len(worker[w].todo) = 1 THEN [worker EXCEPT ![w].pc = "ended"]
    ELSE [worker EXCEPT ![w].pc = "load", ![w].todo = Tail(@)]

LockTaken_Never(j) == FALSE
LockTaken(j) == lock[j]

AcquireLock(w) ==
    /\ worker[w].pc = "lock"
    /\ \/ LockTaken(Job(w)) /\ worker' = NextJob(w) /\ UNCHANGED <<lock, used>>
       \/ /\ ~LockTaken(Job(w))
          /\ lock' = [lock EXCEPT ![Job(w)] = TRUE]
          /\ Goto(w, IF Job(w) = "curation" THEN "reflect" ELSE "history")
          /\ UNCHANGED used
       \/ /\ Spend("faults", MaxFaults) /\ worker' = NextJob(w)
          /\ lock' \in {lock, [lock EXCEPT ![Job(w)] = TRUE]}
    /\ UNCHANGED <<hist, timers, cp, gw, triggers, runtime, done>>

\* Job.Run: unreadable or too little history, or nothing new, ends the run.
TooShort(j, n) == IF j = "skill" THEN n < MinTurns ELSE n = 0

ReadHistory(w) ==
    /\ worker[w].pc = "history"
    /\ \/ /\ worker' = [worker EXCEPT ![w].len = hist,
                ![w].pc = IF TooShort(Job(w), hist) \/ worker[w].cp >= hist
                          THEN "unlock" ELSE "slot"]
          /\ UNCHANGED used
       \/ Spend("faults", MaxFaults) /\ Goto(w, "unlock")
    /\ UNCHANGED <<hist, timers, lock, cp, gw, triggers, runtime, done>>

\* Runtime.RequestSlot and ReleaseSlot use the one slotID of the Runtime.
RequestSlot(w) ==
    /\ worker[w].pc = "slot"
    /\ \/ /\ slot' \in Slots \ assigned /\ \A s \in Slots \ assigned : slot' <= s
          /\ assigned' = assigned \cup {slot'}
          /\ Goto(w, "exec") /\ UNCHANGED used
       \/ /\ Spend("faults", MaxFaults) /\ Goto(w, "unlock")
          /\ assigned' \in {assigned, {}}     \* defensiveRelease, of every slot
          /\ UNCHANGED slot
    /\ UNCHANGED <<hist, timers, lock, cp, gw, triggers, done>>

\* countProcessedFromProgress, at most the messages given to the model.
Progress(w) == IF Markers THEN 0..(worker[w].len - worker[w].cp) ELSE {0}

\* Execute returns ErrNoSlot at once when another goroutine's ReleaseSlot has
\* cleared the slotID since this one's RequestSlot.
StartExecute(w) ==
    /\ worker[w].pc = "exec"
    /\ Goto(w, IF slot = NoSlot THEN "release" ELSE "infer")
    /\ UNCHANGED <<hist, timers, lock, cp, gw, triggers, runtime, done, used>>

\* The first n messages the run was given, and how they were dealt with.
Dealt(w, n, how) == ((worker[w].cp + 1)..(worker[w].cp + n)) \X {how}

\* Execute returned: preempted, failed or unreadable, or memories to retain.
Execute(w) ==
    LET j == Job(w)
    IN  /\ worker[w].pc = "infer"
        /\ \/ /\ Spend("preempts", MaxPreempts)
              /\ \E n \in Progress(w) :
                    /\ cp' = [cp EXCEPT ![j] = worker[w].cp + n]
                    /\ done' = [done EXCEPT ![j] = @ \cup Dealt(w, n, "claimed")]
              /\ Goto(w, "release")
           \/ /\ Spend("faults", MaxFaults)
              /\ Goto(w, "release") /\ UNCHANGED <<cp, done>>
           \/ /\ done' = [done EXCEPT ![j] =
                    @ \cup Dealt(w, worker[w].len - worker[w].cp, "extracted")]
              /\ Goto(w, "save") /\ UNCHANGED <<cp, used>>
        /\ UNCHANGED <<hist, timers, lock, gw, triggers, runtime>>

SavedMark_Now(w) == hist
SavedMark(w) == worker[w].len

SaveCheckpoint(w) ==
    /\ worker[w].pc = "save"
    /\ \/ cp' = [cp EXCEPT ![Job(w)] = SavedMark(w)] /\ UNCHANGED used
       \/ Spend("faults", MaxFaults) /\ UNCHANGED cp
    /\ Goto(w, "release")
    /\ UNCHANGED <<hist, timers, lock, gw, triggers, runtime, done>>

ReleaseSlot(w) ==
    /\ worker[w].pc = "release"
    /\ slot' = NoSlot
    /\ \/ assigned' = assigned \ {slot} /\ UNCHANGED used
       \/ Spend("faults", MaxFaults) /\ UNCHANGED assigned
    /\ Goto(w, "unlock")
    /\ UNCHANGED <<hist, timers, lock, cp, gw, triggers, done>>

\* CurationJob.Run only asks the memory service to reflect.
Reflect(w) ==
    /\ worker[w].pc = "reflect" /\ Goto(w, "unlock")
    /\ UNCHANGED <<hist, timers, lock, cp, gw, triggers, runtime, done, used>>

\* ReleaseLock deletes the key, whoever set it, and ignores a failure.
ReleaseLock(w) ==
    /\ worker[w].pc = "unlock"
    /\ \/ lock' = [lock EXCEPT ![Job(w)] = FALSE] /\ UNCHANGED used
       \/ Spend("faults", MaxFaults) /\ UNCHANGED lock
    /\ worker' = NextJob(w)
    /\ UNCHANGED <<hist, timers, cp, gw, triggers, runtime, done>>

\* A timer's function ends by deleting the session's entry of the map.
EndDispatch(w) ==
    /\ worker[w].pc = "ended"
    /\ worker' = [worker EXCEPT ![w] = Idle]
    /\ entry' = IF w \in Timers THEN NoTimer ELSE entry
    /\ UNCHANGED <<hist, pending, lock, cp, gw, triggers, runtime, done, used>>

\* The retro-agent dies: a trigger it had read is not delivered again, the
\* broker frees its slots, locks and checkpoints stay.
Crash ==
    /\ Spend("faults", MaxFaults)
    /\ worker' = [w \in Workers |-> Idle] /\ pending' = {} /\ entry' = NoTimer
    /\ slot' = NoSlot /\ assigned' = {}
    /\ UNCHANGED <<hist, lock, cp, gw, triggers, done>>

Work(w) ==
    \/ LoadCheckpoint(w) \/ AcquireLock(w) \/ ReadHistory(w) \/ RequestSlot(w)
    \/ StartExecute(w) \/ Execute(w) \/ SaveCheckpoint(w) \/ ReleaseSlot(w) \/ Reflect(w)
    \/ ReleaseLock(w) \/ EndDispatch(w)

Next ==
    \/ TurnCompleted \/ SessionEnded \/ PublishTrigger \/ TakeTrigger \/ Crash
    \/ \E t \in Timers : TimerFires(t)
    \/ \E j \in Jobs : TriggerRequest(j) \/ ExpireLock(j)
    \/ \E w \in Workers : Work(w)

\* Goroutines run, timers fire, keys expire.
Fairness ==
    /\ \A w \in Workers : WF_vars(Work(w))
    /\ WF_vars(PublishTrigger) /\ WF_vars(TakeTrigger)
    /\ \A j \in Jobs : WF_vars(ExpireLock(j))

Spec == Init /\ [][Next]_vars /\ Fairness

-----------------------------------------------------------------------------
\* The variables keep their types; a job never claims more than there is.
TypeOK ==
    /\ pending \subseteq Timers /\ slot \in Slots \cup {NoSlot}
    /\ assigned \subseteq Slots /\ \A j \in Jobs : cp[j] <= hist
    /\ \A w \in Workers : worker[w].pc \in Running \cup {"idle", "load", "lock", "ended"}

\* As long as no run outlasted the TTL of its lock, two goroutines never run the
\* same job of a session at the same time, whether started by a timer or from
\* outside; crashes and failed publishes included (retro/lock.go;
\* cmd/retro-agent/main.go, dispatch and dispatchSingle).
OneRunPerJob ==
    used.overruns = 0 =>
        \A v, w \in Workers :
            v # w /\ worker[v].pc \in Running /\ worker[w].pc \in Running
                => Job(v) # Job(w)

\* A checkpoint never passes over a message that was neither extracted nor
\* counted in the partial output of a preempted run, although messages arrive
\* while a job runs, runs fail, and runs that outlast their lock overlap
\* (retro/job.go, Run).
NothingSkipped ==
    \A j \in Jobs : \A m \in 1..cp[j] :
        \E how \in {"extracted", "claimed"} : <<m, how>> \in done[j]

\* What the jobs of a session keep, all together (retro/lock.go; retro/job.go, Run).
JobsSound == TypeOK /\ OneRunPerJob /\ NothingSkipped

\* A lock is always freed, also one whose holder crashed or whose trigger was
\* never delivered.
LockFreed == \A j \in Jobs : lock[j] ~> ~lock[j]
=============================================================================
