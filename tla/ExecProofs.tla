------------------------------ MODULE ExecProofs ------------------------------
(***************************************************************************)
(* The services that run subprocesses, for every set of calls, sessions,   *)
(* skills and servers.                                                     *)
(*                                                                         *)
(* ExecSandbox: commands of one session never overlap, and a sweep never   *)
(* judges a sandbox idle while a command runs in it.  The first needs who  *)
(* holds the mutex of a call's session, the second what the first touch    *)
(* leaves behind while the call is active.                                 *)
(*                                                                         *)
(* ExecWorkspace: the collector never takes the directory of a run that    *)
(* has not been answered, and exit code 0 is about a script that ended by  *)
(* itself.  ExecInstall: uv runs once at a time per skill, and the service *)
(* tells the truth about what is installed.  CappedOutput: the buffer is   *)
(* the first Cap bytes of the output, and valid text is not broken.        *)
(*                                                                         *)
(* MCPManager: what a start has done so far (its process, its client, its  *)
(* entry in the health map), and that an order of tools, however stale,    *)
(* lists only what its servers have registered.                            *)
(***************************************************************************)
EXTENDS ExecSandbox, ExecInstall, ExecWorkspace, CappedOutput, MCPManager, Sequences, TLAPS

-----------------------------------------------------------------------------
(* The sandboxes of sessions *)

Labels == {"idle", "lock", "mkdir", "marker", "done"} \cup Active
Answers == {"none", "ran", "minusone", "error"}
Holding == {"mkdir", "marker"} \cup Active

Record == [pc : Labels, session : Sessions \cup {NoCall}, answer : Answers]

Types ==
    /\ marker \in [Sessions -> Ages] /\ dir \in [Sessions -> Ages]
    /\ lock \in [Sessions -> Calls \cup {NoCall}]
    /\ call \in [Calls -> Record]
    /\ \A c \in Calls : call[c].pc # "idle" => call[c].session \in Sessions

\* A call past Lock holds the mutex of its session.
Held == \A c \in Calls : call[c].pc \in Holding => lock[call[c].session] = c

\* What sessionAge reads of a sandbox in use: never "old".
Fresh == \A c \in Calls : call[c].pc \in Active => sessionAge(call[c].session) # "old"

\* A marker exists only inside its directory; the sweep keeps its shape.
Inside ==
    /\ \A s \in Sessions : dir[s] = "none" => marker[s] = "none"
    /\ gc \in [pc : {"idle", "check", "remove"}, left : SUBSET Sessions,
               cur : Sessions \cup {NoCall}, aged : SUBSET Sessions]

IInv == Types /\ Held /\ Fresh /\ Inside

\* The initial state satisfies the invariant.
LEMMA InitHolds == Init => IInv
  BY DEF Init, IInv, Types, Record, Held, Fresh, Inside, IdleGC, Labels, Answers, Holding,
         Active, Ages

\* A call that moves on and sets its answer is still a call.
LEMMA MovesOn ==
  ASSUME NEW f \in [Calls -> Record], NEW c \in Calls, NEW p \in Labels, NEW a \in Answers
  PROVE  [f EXCEPT ![c].pc = p, ![c].answer = a] \in [Calls -> Record]
  BY Zenon DEF Record

LEMMA TakesCall ==
  ASSUME NEW f \in [Calls -> Record], NEW c \in Calls, NEW p \in Labels, NEW s \in Sessions
  PROVE  [f EXCEPT ![c].pc = p, ![c].session = s] \in [Calls -> Record]
  BY Zenon DEF Record

\* Every step keeps the shapes of the variables.
LEMMA TypesStep == Types /\ [Next]_vars => Types'
<1> SUFFICES ASSUME Types, [Next]_vars PROVE Types'
  BY Zenon
<1> USE DEF Types, Record, Labels, Answers, Active, Ages
<1>1. ASSUME NEW c \in Calls, NEW s \in Sessions, handleBash(c, s) PROVE Types'
  <2>1. call' \in [Calls -> Record] /\ call'[c].session = s /\ \A d \in Calls : d # c => call'[d] = call[d]
    <3>1. call' \in [Calls -> Record]
      <4>1. "lock" \in Labels
        BY Zenon
      <4>2. QED
        BY <1>1, <4>1, TakesCall, Zenon DEF handleBash
    <3>2. call'[c].session = s
      BY <1>1, Zenon DEF handleBash
    <3>3. \A d \in Calls : d # c => call'[d] = call[d]
      BY <1>1, Zenon DEF handleBash
    <3>4. QED
      BY <3>1, <3>2, <3>3, Zenon
  <2>2. UNCHANGED <<marker, dir, lock>>
    BY <1>1, Zenon DEF handleBash
  <2> HIDE DEF Record
  <2>3. QED
    BY <2>1, <2>2, Zenon
<1>2. ASSUME NEW c \in Calls, Lock(c) PROVE Types'
  BY <1>2 DEF Lock, Goto
<1>3. ASSUME NEW c \in Calls, MkdirAll(c) PROVE Types'
  BY <1>3 DEF MkdirAll, Goto, Return, Unlock
<1>4. ASSUME NEW c \in Calls, TouchFirst(c) PROVE Types'
  BY <1>4, SMTT(30) DEF TouchFirst, Touch, Touched, Goto, Return, Unlock
<1>5. ASSUME NEW c \in Calls, Spawn(c) PROVE Types'
  <2>1. call' \in [Calls -> Record]
    <3>1. CASE Goto(c, "wait")
      BY <3>1 DEF Goto
    <3>2. CASE call' = [call EXCEPT ![c].pc = "touch", ![c].answer = "minusone"]
      BY <3>2, MovesOn, Zenon DEF Types
    <3>3. QED
      BY <1>5, <3>1, <3>2, Zenon DEF Spawn
  <2>2. \A d \in Calls : call'[d].session = call[d].session
    BY <1>5 DEF Spawn, Goto
  <2>3. QED
    BY <1>5, <2>1, <2>2, Zenon DEF Spawn, Goto
<1>6. ASSUME NEW c \in Calls, Wait(c) PROVE Types'
  <2>1. PICK a \in {"ran", "minusone"} :
          call' = [call EXCEPT ![c].pc = "touch", ![c].answer = a]
    BY <1>6, Zenon DEF Wait
  <2>2. call' \in [Calls -> Record]
    BY <2>1, MovesOn, Zenon DEF Types
  <2>3. \A d \in Calls : call'[d].session = call[d].session
    BY <2>1
  <2>4. QED
    BY <1>6, <2>2, <2>3 DEF Wait
<1>7. ASSUME NEW c \in Calls, TouchLast(c) PROVE Types'
  <2>1. call' \in [Calls -> Record]
    <3>1. call[c].answer \in Answers
      BY Zenon DEF Record
    <3>2. QED
      BY <1>7, <3>1, MovesOn, Zenon DEF TouchLast, Return
  <2>2. \A d \in Calls : call'[d].session = call[d].session
    BY <1>7 DEF TouchLast, Return
  <2>3. QED
    BY <1>7, <2>1, <2>2 DEF TouchLast, Touch, Touched, Return, Unlock
<1>8. ASSUME NEW c \in Calls, Command(c) PROVE Types'
  BY <1>8, Zenon DEF Command
<1>9. ASSUME NEW s \in Sessions, Age(s) PROVE Types'
  BY <1>9, Zenon DEF Age, Older
<1>10. CASE Sweep \/ CheckAge \/ SweepEnds
  BY <1>10, Zenon DEF Sweep, CheckAge, SweepEnds
<1>11. CASE RemoveAll
  BY <1>11, Zenon DEF RemoveAll
<1>12. CASE UNCHANGED vars
  BY <1>12, Zenon DEF vars
<1>13. QED
  BY <1>1, <1>2, <1>3, <1>4, <1>5, <1>6, <1>7, <1>8, <1>9, <1>10, <1>11, <1>12, Zenon
     DEF Next, Serve, Collect

\* Every step keeps the mutex with the call that holds it.
LEMMA HeldStep == Types /\ Held /\ [Next]_vars => Held'
<1> SUFFICES ASSUME Types, Held, [Next]_vars PROVE Held'
  BY Zenon
<1> USE ExecSandboxAssumption DEF Types, Record, Held, Labels, Answers, Active, Holding, Ages
<1>1. ASSUME NEW c \in Calls, NEW s \in Sessions, handleBash(c, s) PROVE Held'
  BY <1>1 DEF handleBash
<1>2. ASSUME NEW c \in Calls, Lock(c) PROVE Held'
  BY <1>2 DEF Lock, LockFree, Goto
<1>3. ASSUME NEW c \in Calls, MkdirAll(c) PROVE Held'
  BY <1>3 DEF MkdirAll, Goto, Return, Unlock
<1>4. ASSUME NEW c \in Calls, TouchFirst(c) PROVE Held'
  BY <1>4 DEF TouchFirst, Goto, Return, Unlock
<1>5. ASSUME NEW c \in Calls, Spawn(c) PROVE Held'
  BY <1>5 DEF Spawn, Goto
<1>6. ASSUME NEW c \in Calls, Wait(c) PROVE Held'
  BY <1>6 DEF Wait
<1>7. ASSUME NEW c \in Calls, TouchLast(c) PROVE Held'
  BY <1>7 DEF TouchLast, Return, Unlock
<1>8. ASSUME NEW c \in Calls, Command(c) PROVE Held'
  BY <1>8, Zenon DEF Command
<1>9. ASSUME NEW s \in Sessions, Age(s) PROVE Held'
  BY <1>9, Zenon DEF Age
<1>10. CASE Collect
  BY <1>10, Zenon DEF Collect, Sweep, CheckAge, RemoveAll, SweepEnds
<1>11. CASE UNCHANGED vars
  BY <1>11, Zenon DEF vars
<1>12. QED
  BY <1>1, <1>2, <1>3, <1>4, <1>5, <1>6, <1>7, <1>8, <1>9, <1>10, <1>11, Zenon
     DEF Next, Serve

\* Every step keeps a sandbox in use fresh.
LEMMA FreshStep == Types /\ Fresh /\ [Next]_vars => Fresh'
<1> SUFFICES ASSUME Types, Fresh, [Next]_vars PROVE Fresh'
  BY Zenon
<1> USE DEF Types, Record, Fresh, sessionAge, Labels, Answers, Active, Ages
<1>1. ASSUME NEW c \in Calls, NEW s \in Sessions, handleBash(c, s) PROVE Fresh'
  BY <1>1 DEF handleBash
<1>2. ASSUME NEW c \in Calls, Lock(c) PROVE Fresh'
  BY <1>2 DEF Lock, Goto
<1>3. ASSUME NEW c \in Calls, MkdirAll(c) PROVE Fresh'
  BY <1>3 DEF MkdirAll, Goto, Return, Unlock
<1>4. ASSUME NEW c \in Calls, TouchFirst(c) PROVE Fresh'
  BY <1>4 DEF TouchFirst, Touch, Touched, Goto, Return
<1>5. ASSUME NEW c \in Calls, Spawn(c) PROVE Fresh'
  BY <1>5 DEF Spawn, Goto
<1>6. ASSUME NEW c \in Calls, Wait(c) PROVE Fresh'
  BY <1>6 DEF Wait
<1>7. ASSUME NEW c \in Calls, TouchLast(c) PROVE Fresh'
  BY <1>7 DEF TouchLast, Touch, Touched, Return
<1>8. ASSUME NEW c \in Calls, Command(c) PROVE Fresh'
  BY <1>8 DEF Command
<1>9. ASSUME NEW s \in Sessions, Age(s) PROVE Fresh'
  BY <1>9 DEF Age, Older
<1>10. CASE Sweep \/ CheckAge \/ SweepEnds
  BY <1>10, Zenon DEF Sweep, CheckAge, SweepEnds
<1>11. CASE RemoveAll
  BY <1>11 DEF RemoveAll
<1>12. CASE UNCHANGED vars
  BY <1>12, Zenon DEF vars
<1>13. QED
  BY <1>1, <1>2, <1>3, <1>4, <1>5, <1>6, <1>7, <1>8, <1>9, <1>10, <1>11, <1>12, Zenon
     DEF Next, Serve, Collect

\* Every step keeps markers inside directories and the shape of the sweep.
LEMMA InsideStep == Types /\ Inside /\ [Next]_vars => Inside'
<1> SUFFICES ASSUME Types, Inside, [Next]_vars PROVE Inside'
  BY Zenon
<1> USE DEF Types, Record, Inside, Labels, Answers, Active, Ages
<1>1. ASSUME NEW c \in Calls, NEW s \in Sessions, handleBash(c, s) PROVE Inside'
  BY <1>1, Zenon DEF handleBash
<1>2. ASSUME NEW c \in Calls, Lock(c) PROVE Inside'
  BY <1>2, Zenon DEF Lock
<1>3. ASSUME NEW c \in Calls, MkdirAll(c) PROVE Inside'
  BY <1>3, Zenon DEF MkdirAll
<1>4. ASSUME NEW c \in Calls, TouchFirst(c) PROVE Inside'
  BY <1>4 DEF TouchFirst, Touch, Touched
<1>5. ASSUME NEW c \in Calls, Spawn(c) PROVE Inside'
  BY <1>5, Zenon DEF Spawn
<1>6. ASSUME NEW c \in Calls, Wait(c) PROVE Inside'
  BY <1>6, Zenon DEF Wait
<1>7. ASSUME NEW c \in Calls, TouchLast(c) PROVE Inside'
  BY <1>7 DEF TouchLast, Touch, Touched
<1>8. ASSUME NEW c \in Calls, Command(c) PROVE Inside'
  BY <1>8, Zenon DEF Command
<1>9. ASSUME NEW s \in Sessions, Age(s) PROVE Inside'
  BY <1>9, Zenon DEF Age, Older
<1>10. CASE Sweep
  BY <1>10, Zenon DEF Sweep, IdleGC
<1>11. CASE CheckAge
  <2>1. PICK s \in gc.left :
          gc' = [gc EXCEPT !.left = @ \ {s}, !.cur = s,
                   !.pc = IF s \in gc.aged /\ sessionAge(s) = "old" THEN "remove" ELSE "check"]
    BY <1>11, Zenon DEF CheckAge
  <2>2. QED
    BY <1>11, <2>1, Zenon DEF CheckAge
<1>12. CASE RemoveAll
  BY <1>12, Zenon DEF RemoveAll
<1>13. CASE SweepEnds
  BY <1>13, Zenon DEF SweepEnds, IdleGC
<1>14. CASE UNCHANGED vars
  BY <1>14, Zenon DEF vars
<1>15. QED
  BY <1>1, <1>2, <1>3, <1>4, <1>5, <1>6, <1>7, <1>8, <1>9, <1>10, <1>11, <1>12, <1>13, <1>14, Zenon
     DEF Next, Serve, Collect

\* The invariant holds in every reachable state.
LEMMA SandboxInvariant == Spec => []IInv
<1>1. IInv /\ [Next]_vars => IInv'
  BY TypesStep, HeldStep, FreshStep, InsideStep, Zenon DEF IInv
<1>2. QED
  BY InitHolds, <1>1, PTL DEF Spec

\* No step of SandboxGC.RunOnce judges a sandbox old while a command runs in it.
LEMMA NeverJudgedBusy == Spec => JudgedIdle
<1> DEFINE A == gc.pc = "check" /\ gc'.pc = "remove" =>
                  \A c \in Calls : call[c].session = gc'.cur => call[c].pc \notin Active
<1>1. IInv /\ [Next]_vars => [A]_vars
  <2> SUFFICES ASSUME IInv, Next, gc.pc = "check", gc'.pc = "remove",
                      NEW c \in Calls, call[c].session = gc'.cur
               PROVE call[c].pc \notin Active
    BY Zenon
  <2>1. CheckAge
    <3>1. gc' # gc
      BY Zenon
    <3>2. Collect
      BY <3>1, Zenon DEF Next, handleBash, Serve, Lock, MkdirAll, TouchFirst, Spawn, Wait,
                  TouchLast, Command, Age
    <3>3. QED
      BY <3>2 DEF Collect, Sweep, RemoveAll, SweepEnds, IdleGC
  <2>2. sessionAge(gc'.cur) = "old"
    BY <2>1 DEF CheckAge
  <2>3. QED
    BY <2>2, Zenon DEF IInv, Fresh
<1>2. QED
  BY SandboxInvariant, <1>1, PTL DEF Spec, JudgedIdle

\* BashRunner.Run and SandboxGC.RunOnce: for every set of calls and sessions,
\* commands of one session never overlap and none has its sandbox judged idle.
THEOREM SandboxIsSound == Spec => SandboxSound
<1>1. IInv => TypeOK /\ OneCommandPerSession
  BY DEF IInv, Types, Record, Held, Inside, Labels, Answers, TypeOK, OneCommandPerSession,
         Holding
<1>2. QED
  BY SandboxInvariant, NeverJudgedBusy, <1>1, PTL DEF SandboxSound

-----------------------------------------------------------------------------
(* The workspaces of script runs: ExecWorkspace *)

RunRecord == [pc : {"idle", "session", "mkdir", "spawn", "wait", "finalize",
                    "respond", "done", "refused", "full"},
              ctx : {"live", "deadline", "cancelled"},
              proc : {"none", "alive", "exited", "failed", "killed"},
              exit : {"none", "zero", "nonzero", "minusone"}]

WorkspaceTypes ==
    /\ sessDirs \subseteq RunSessions
    /\ ws \in [Invs -> WsStates]
    /\ run \in [Invs -> RunRecord]
    /\ wsGC \in [pc : {"idle", "session", "inv", "remove"}, left : SUBSET RunSessions,
                 cur : RunSessions \cup {NoSession}, invs : SUBSET Invs,
                 inv : Invs \cup {NoSession}, old : SUBSET Invs]
    /\ expired \subseteq Invs

\* A workspace keeps its session's directory in being, and only a run that was
\* answered long ago can be judged reclaimable: nothing brings it back.
WorkspaceKept ==
    /\ \A i \in Invs : ws[i] # "none" => SessionOf[i] \in sessDirs
    /\ wsGC.old \subseteq expired
    /\ \A i \in expired : run[i].pc = "done"
    /\ wsGC.pc = "remove" => wsGC.inv \in Invs /\ run[wsGC.inv].pc = "done"
    /\ LiveWorkspaceKept

\* The process of a run: there is none before spawn and none alive after Wait.
WorkspaceProcess ==
    \A i \in Invs :
        /\ run[i].proc = "alive" => run[i].pc = "wait"
        /\ run[i].pc = "wait" => run[i].proc # "none" /\ run[i].exit = "none"
        /\ run[i].exit = "zero" => run[i].proc = "exited" /\ run[i].ctx # "deadline"

WorkspaceInv == WorkspaceTypes /\ WorkspaceKept /\ WorkspaceProcess

\* The initial state satisfies the invariant.
LEMMA WorkspaceStarts == WorkspaceInit => WorkspaceInv
  BY DEF WorkspaceInit, IdleRun, WorkspaceIdleGC, NoSession, WsStates, LiveWorkspaceKept,
         WorkspaceInv, WorkspaceTypes, WorkspaceKept, WorkspaceProcess, RunRecord

\* A run with another process or exit code is still a run.
LEMMA RunSets ==
  ASSUME NEW f \in [Invs -> RunRecord], NEW i \in Invs
  PROVE  /\ [f EXCEPT ![i].proc = "alive"] \in [Invs -> RunRecord]
         /\ \A x \in {"zero", "nonzero", "minusone"} : [f EXCEPT ![i].exit = x] \in [Invs -> RunRecord]
  BY DEF RunRecord

\* A run that moves on, with a process or an exit code, is still a run.
LEMMA RunMovesOn ==
  ASSUME NEW f \in [Invs -> RunRecord], NEW i \in Invs
  PROVE  /\ [f EXCEPT ![i].pc = "wait", ![i].proc = "alive"] \in [Invs -> RunRecord]
         /\ \A x \in {"zero", "nonzero", "minusone"} :
              [f EXCEPT ![i].pc = "finalize", ![i].exit = x] \in [Invs -> RunRecord]
<1>1. [f EXCEPT ![i].pc = "wait", ![i].proc = "alive"] \in [Invs -> RunRecord]
  <2>1. [f EXCEPT ![i].pc = "wait"] \in [Invs -> RunRecord]
    BY DEF RunRecord
  <2>2. [[f EXCEPT ![i].pc = "wait"] EXCEPT ![i].proc = "alive"] \in [Invs -> RunRecord]
    BY <2>1, RunSets, Zenon
  <2>3. QED
    BY <2>2, Zenon
<1>2. ASSUME NEW x \in {"zero", "nonzero", "minusone"}
      PROVE [f EXCEPT ![i].pc = "finalize", ![i].exit = x] \in [Invs -> RunRecord]
  <2>1. [f EXCEPT ![i].pc = "finalize"] \in [Invs -> RunRecord]
    BY DEF RunRecord
  <2>2. [[f EXCEPT ![i].pc = "finalize"] EXCEPT ![i].exit = x] \in [Invs -> RunRecord]
    BY <2>1, RunSets, Zenon
  <2>3. QED
    BY <2>2, Zenon
<1>3. QED
  BY <1>1, <1>2, Zenon

\* Every step keeps the shapes of the variables.
LEMMA WorkspaceTypesStep ==
  ASSUME ExecWorkspaceAssumption, WorkspaceTypes, WorkspaceProcess, [WorkspaceNext]_(workspaceVars)
  PROVE  WorkspaceTypes'
<1> USE DEF ExecWorkspaceAssumption, WorkspaceTypes, RunRecord, WsStates, RunGoto, Fault
<1>1. ASSUME NEW i \in Invs, Start(i) PROVE WorkspaceTypes'
  BY <1>1 DEF Start
<1>2. ASSUME NEW i \in Invs, AllocateSession(i) PROVE WorkspaceTypes'
  <2>1. SessionOf[i] \in RunSessions
    BY Zenon
  <2>2. run' \in [Invs -> RunRecord] /\ sessDirs' \subseteq RunSessions
    BY <1>2, <2>1, SMTT(30) DEF AllocateSession
  <2>3. QED
    BY <1>2, <2>2, Zenon DEF AllocateSession
<1>3. ASSUME NEW i \in Invs, Allocate(i) PROVE WorkspaceTypes'
  BY <1>3, SMTT(30) DEF Allocate
<1>4. ASSUME NEW i \in Invs, SpawnScript(i) PROVE WorkspaceTypes'
  <2>1. run' \in [Invs -> RunRecord]
    <3>1. \/ run' = [run EXCEPT ![i].pc = "wait", ![i].proc = "alive"]
          \/ run' = [run EXCEPT ![i].pc = "finalize", ![i].exit = "minusone"]
      BY <1>4, Zenon DEF SpawnScript
    <3>2. [run EXCEPT ![i].pc = "finalize", ![i].exit = "minusone"] \in [Invs -> RunRecord]
      BY RunMovesOn, Zenon
    <3>3. [run EXCEPT ![i].pc = "wait", ![i].proc = "alive"] \in [Invs -> RunRecord]
      BY RunMovesOn, Zenon
    <3>4. QED
      BY <3>1, <3>2, <3>3, Zenon
  <2>2. QED
    BY <1>4, <2>1, Zenon DEF SpawnScript
<1>5. ASSUME NEW i \in Invs, KillGroup(i) PROVE WorkspaceTypes'
  BY <1>5 DEF KillGroup
<1>6. ASSUME NEW i \in Invs, WaitScript(i) PROVE WorkspaceTypes'
  <2>1. ExitCode(run[i]) \in {"zero", "nonzero", "minusone"}
    BY <1>6, Zenon DEF WaitScript, ExitCode, WorkspaceProcess
  <2>2. run' \in [Invs -> RunRecord]
    BY <1>6, <2>1, RunMovesOn, Zenon DEF WaitScript
  <2>3. QED
    BY <1>6, <2>2, Zenon DEF WaitScript
<1>7. ASSUME NEW i \in Invs, Finalize(i) PROVE WorkspaceTypes'
  BY <1>7, SMTT(30) DEF Finalize
<1>8. ASSUME NEW i \in Invs, Respond(i) PROVE WorkspaceTypes'
  BY <1>8 DEF Respond
<1>9. ASSUME NEW i \in Invs, ScriptEnds(i) PROVE WorkspaceTypes'
  BY <1>9 DEF ScriptEnds
<1>10. ASSUME NEW i \in Invs, RetentionPasses(i) PROVE WorkspaceTypes'
  BY <1>10 DEF RetentionPasses
<1>11. ASSUME NEW i \in Invs, NEW why \in {"deadline", "cancelled"}, ContextEnds(i, why)
       PROVE WorkspaceTypes'
  BY <1>11, SMTT(30) DEF ContextEnds
<1>12. CASE SweepRuns
  BY <1>12, Zenon DEF SweepRuns, WorkspaceIdleGC, NoSession
<1>13. CASE RunSweepEnds
  BY <1>13, Zenon DEF RunSweepEnds, WorkspaceIdleGC, NoSession
<1>14. CASE SweepSession
  <2>1. PICK s \in wsGC.left :
          wsGC' = [wsGC EXCEPT !.pc = "inv", !.left = wsGC.left \ {s}, !.cur = s,
                     !.invs = {i \in Invs : SessionOf[i] = s /\ ws[i] # "none"}]
    BY <1>14, Zenon DEF SweepSession
  <2>2. QED
    BY <1>14, <2>1, Zenon DEF SweepSession
<1>15. CASE SweepInvocation
  <2>1. PICK i \in wsGC.invs :
          wsGC' = [wsGC EXCEPT !.invs = wsGC.invs \ {i}, !.inv = i,
                     !.pc = IF Reclaimable(i) THEN "remove" ELSE "inv"]
    BY <1>15, Zenon DEF SweepInvocation
  <2>2. QED
    BY <1>15, <2>1, Zenon DEF SweepInvocation
<1>16. CASE RemoveWorkspace
  BY <1>16, Zenon DEF RemoveWorkspace
<1>17. CASE RemoveSession
  BY <1>17, Zenon DEF RemoveSession
<1>18. CASE UNCHANGED workspaceVars
  BY <1>18, Zenon DEF workspaceVars
<1> HIDE DEF ExecWorkspaceAssumption, WorkspaceTypes, RunRecord, WsStates, RunGoto, Fault
<1>19. QED
  BY <1>1, <1>2, <1>3, <1>4, <1>5, <1>6, <1>7, <1>8, <1>9, <1>10, <1>11, <1>12, <1>13,
     <1>14, <1>15, <1>16, <1>17, <1>18, Zenon DEF WorkspaceNext, Running, WorkspaceCollect

\* Every step keeps the workspace of a run that has not been answered.
LEMMA WorkspaceKeptStep ==
  ASSUME ExecWorkspaceAssumption, WorkspaceInv, [WorkspaceNext]_(workspaceVars)
  PROVE  WorkspaceKept'
<1> USE DEF ExecWorkspaceAssumption, WorkspaceInv, WorkspaceTypes, RunRecord, WsStates,
            WorkspaceKept, LiveWorkspaceKept, RunGoto, Fault
<1>1. ASSUME NEW i \in Invs, Start(i) PROVE WorkspaceKept'
  BY <1>1 DEF Start
<1>2. ASSUME NEW i \in Invs, AllocateSession(i) PROVE WorkspaceKept'
  BY <1>2, SMTT(30) DEF AllocateSession
<1>3. ASSUME NEW i \in Invs, Allocate(i) PROVE WorkspaceKept'
  <2>1. /\ sessDirs' = sessDirs /\ expired' = expired /\ wsGC' = wsGC
        /\ \A j \in Invs : j # i => run'[j] = run[j] /\ ws'[j] = ws[j]
        /\ run'[i].pc \notin {"wait", "finalize", "respond"} /\ run[i].pc = "mkdir"
    BY <1>3 DEF Allocate
  <2>2. /\ run'[i].pc = "spawn" => ws'[i] # "none"
        /\ ws'[i] # "none" => SessionOf[i] \in sessDirs
    BY <1>3 DEF Allocate
  <2>3. QED
    BY <2>1, <2>2, SMTT(30)
<1>4. ASSUME NEW i \in Invs, SpawnScript(i) PROVE WorkspaceKept'
  <2>1. /\ sessDirs' = sessDirs /\ expired' = expired /\ wsGC' = wsGC /\ ws' = ws
        /\ \A j \in Invs : j # i => run'[j] = run[j]
        /\ run[i].pc = "spawn"
    BY <1>4 DEF SpawnScript
  <2>2. QED
    BY <2>1
<1>5. ASSUME NEW i \in Invs, KillGroup(i) PROVE WorkspaceKept'
  BY <1>5 DEF KillGroup
<1>6. ASSUME NEW i \in Invs, WaitScript(i) PROVE WorkspaceKept'
  BY <1>6 DEF WaitScript
<1>7. ASSUME NEW i \in Invs, Finalize(i) PROVE WorkspaceKept'
  BY <1>7 DEF Finalize
<1>8. ASSUME NEW i \in Invs, Respond(i) PROVE WorkspaceKept'
  BY <1>8 DEF Respond
<1>9. ASSUME NEW i \in Invs, ScriptEnds(i) PROVE WorkspaceKept'
  BY <1>9 DEF ScriptEnds
<1>10. ASSUME NEW i \in Invs, RetentionPasses(i) PROVE WorkspaceKept'
  BY <1>10 DEF RetentionPasses
<1>11. ASSUME NEW i \in Invs, NEW why \in {"deadline", "cancelled"}, ContextEnds(i, why)
       PROVE WorkspaceKept'
  BY <1>11 DEF ContextEnds
<1>12. CASE SweepRuns
  BY <1>12 DEF SweepRuns, WorkspaceIdleGC
<1>13. CASE RunSweepEnds
  BY <1>13 DEF RunSweepEnds, WorkspaceIdleGC
<1>14. CASE SweepSession
  BY <1>14 DEF SweepSession
<1>15. CASE SweepInvocation
  BY <1>15 DEF SweepInvocation, Reclaimable
<1>16. CASE RemoveWorkspace
  BY <1>16 DEF RemoveWorkspace
<1>17. CASE RemoveSession
  BY <1>17 DEF RemoveSession, Removable
<1>18. CASE UNCHANGED workspaceVars
  BY <1>18, SMTT(30) DEF workspaceVars
<1> HIDE DEF ExecWorkspaceAssumption, WorkspaceInv, WorkspaceTypes, RunRecord, WsStates,
            WorkspaceKept, LiveWorkspaceKept, RunGoto, Fault
<1>19. QED
  BY <1>1, <1>2, <1>3, <1>4, <1>5, <1>6, <1>7, <1>8, <1>9, <1>10, <1>11, <1>12, <1>13,
     <1>14, <1>15, <1>16, <1>17, <1>18, Zenon DEF WorkspaceNext, Running, WorkspaceCollect

\* Every step keeps what is known of a run's process.
LEMMA WorkspaceProcessStep ==
  ASSUME WorkspaceTypes, WorkspaceProcess, [WorkspaceNext]_(workspaceVars)
  PROVE  WorkspaceProcess'
<1> USE DEF WorkspaceTypes, RunRecord, WorkspaceProcess, RunGoto
<1>1. ASSUME NEW i \in Invs, Start(i) PROVE WorkspaceProcess'
  BY <1>1 DEF Start
<1>2. ASSUME NEW i \in Invs, AllocateSession(i) PROVE WorkspaceProcess'
  BY <1>2 DEF AllocateSession
<1>3. ASSUME NEW i \in Invs, Allocate(i) PROVE WorkspaceProcess'
  BY <1>3 DEF Allocate
<1>4. ASSUME NEW i \in Invs, SpawnScript(i) PROVE WorkspaceProcess'
  BY <1>4 DEF SpawnScript
<1>5. ASSUME NEW i \in Invs, KillGroup(i) PROVE WorkspaceProcess'
  BY <1>5 DEF KillGroup
<1>6. ASSUME NEW i \in Invs, WaitScript(i) PROVE WorkspaceProcess'
  BY <1>6 DEF WaitScript, ExitCode
<1>7. ASSUME NEW i \in Invs, Finalize(i) PROVE WorkspaceProcess'
  BY <1>7 DEF Finalize
<1>8. ASSUME NEW i \in Invs, Respond(i) PROVE WorkspaceProcess'
  BY <1>8 DEF Respond
<1>9. ASSUME NEW i \in Invs, ScriptEnds(i) PROVE WorkspaceProcess'
  BY <1>9 DEF ScriptEnds
<1>10. ASSUME NEW i \in Invs, RetentionPasses(i) PROVE WorkspaceProcess'
  BY <1>10, Zenon DEF RetentionPasses
<1>11. ASSUME NEW i \in Invs, NEW why \in {"deadline", "cancelled"}, ContextEnds(i, why)
       PROVE WorkspaceProcess'
  BY <1>11 DEF ContextEnds
<1>12. CASE WorkspaceCollect
  <2>1. run' = run
    BY <1>12, Zenon DEF WorkspaceCollect, SweepRuns, RunSweepEnds, SweepSession, SweepInvocation,
       RemoveWorkspace, RemoveSession
  <2>2. QED
    BY <2>1, Zenon DEF WorkspaceInv, WorkspaceProcess
<1>13. CASE UNCHANGED workspaceVars
  BY <1>13, Zenon DEF workspaceVars
<1> HIDE DEF WorkspaceTypes, RunRecord, WorkspaceProcess, RunGoto
<1>14. QED
  BY <1>1, <1>2, <1>3, <1>4, <1>5, <1>6, <1>7, <1>8, <1>9, <1>10, <1>11, <1>12, <1>13, Zenon
     DEF WorkspaceNext, Running

\* GC.RunOnce and Runner.Run: for every set of invocations and sessions, the
\* collector never takes the directory of a run that has not been answered, and
\* exit code 0 is about a script that ended by itself.
THEOREM RunsAreSound ==
  ASSUME ExecWorkspaceAssumption PROVE WorkspaceSpec => []RunsSound
<1>1. WorkspaceInv /\ [WorkspaceNext]_(workspaceVars) => WorkspaceInv'
  BY WorkspaceTypesStep, WorkspaceKeptStep, WorkspaceProcessStep, Zenon DEF WorkspaceInv
<1>2. WorkspaceInv => RunsSound
  BY Zenon DEF WorkspaceInv, WorkspaceTypes, RunRecord, WorkspaceKept, WorkspaceProcess,
         RunsSound, WorkspaceTypeOK, ZeroIsSuccess
<1>3. QED
  BY WorkspaceStarts, <1>1, <1>2, PTL DEF WorkspaceSpec

-----------------------------------------------------------------------------
(* Dependency installs: ExecInstall *)

WorkerRecord == [pc : {"idle", "check", "run", "exec", "done"} \cup WaitPCs,
                 skill : Skills \cup {NoOne}, phase : Phases, expired : BOOLEAN,
                 tried : BOOLEAN, python : {"none", "bare", "ready"},
                 answer : {"none", "ok", "error", "ran", "rejected"}]

InstallMaps ==
    /\ venv \in [Skills -> {"none", "bare", "ready"}]
    /\ skillLock \in [Skills -> Workers \cup {NoOne}]
    /\ \A w \in Workers :
        /\ worker[w].pc \in {"check", "run", "exec"} \cup WaitPCs => worker[w].skill \in Skills
        /\ worker[w].pc \in WaitPCs => worker[w].phase # "none"

InstallShapes ==
    /\ worker \in [Workers -> WorkerRecord]
    /\ sweep \in Seq(Prewarms)
    /\ prewarmed \subseteq Skills /\ failed \subseteq Skills /\ ready \in BOOLEAN

InstallTypes == InstallMaps /\ InstallShapes

\* Who runs uv holds the skill's mutex, and uv venv runs only where there is
\* no bin/python: an environment that is ready is never made again.
InstallHeld ==
    \A w \in Workers :
        /\ worker[w].pc \in {"venv", "pip"} =>
             worker[w].skill \in WithReqs /\ skillLock[worker[w].skill] = w
        /\ worker[w].pc = "venv" => venv[worker[w].skill] = "none"

\* A run that installed its dependencies finds them when it starts its script.
InstallTried ==
    \A w \in Workers :
        /\ worker[w].pc = "check" => ~worker[w].tried
        /\ worker[w].tried /\ worker[w].skill \in WithReqs =>
             /\ worker[w].pc = "run" => venv[worker[w].skill] = "ready"
             /\ worker[w].pc = "exec" => worker[w].python = "ready"

\* A skill to prewarm is still to be started, being installed, or settled.
InstallSettled ==
    \A s \in Prewarms :
        /\ worker[s].pc # "idle" => worker[s].skill = s
        /\ \/ \E i \in 1 .. Len(sweep) : sweep[i] = s
           \/ worker[s].pc \in WaitPCs
           \/ s \in prewarmed \cup failed

InstallInv ==
    /\ InstallTypes /\ InstallHeld /\ InstallTried /\ InstallSettled
    /\ HealthTruthful /\ ReadyAfterSweep

\* A step of worker w: no other worker moves.
StepOf(w) ==
    /\ worker' \in [Workers -> WorkerRecord]
    /\ \A v \in Workers : v # w => worker'[v] = worker[v]

\* The request or prewarm of w is the one it was.
SameRequest(w) ==
    /\ worker'[w].skill = worker[w].skill /\ worker'[w].phase = worker[w].phase
    /\ worker'[w].tried = worker[w].tried /\ worker'[w].python = worker[w].python

\* What the end of an install does, whether it succeeded or failed.
Ends(w, ok) ==
    /\ StepOf(w)
    /\ worker'[w].skill = worker[w].skill
    /\ worker'[w].pc \in {"run", "done"} /\ (worker'[w].pc = "run" => ok)
    /\ skillLock' = [skillLock EXCEPT ![worker[w].skill] = NoOne]
    /\ IF ok THEN /\ prewarmed' = prewarmed \cup {worker[w].skill}
                  /\ failed' = failed \ {worker[w].skill}
             ELSE /\ prewarmed' = prewarmed \ {worker[w].skill}
                  /\ failed' = failed \cup {worker[w].skill}

\* The kinds of steps: a request arrives, ...
Arrives(r) ==
    /\ StepOf(r) /\ UNCHANGED <<venv, skillLock, sweep, prewarmed, failed, ready>>
    /\ ~worker'[r].tried
    /\ \/ worker'[r].pc = "check" /\ worker'[r].skill \in Skills
       \/ worker'[r].pc = "lock" /\ worker'[r].skill \in Skills /\ worker'[r].phase = "explicit"
       \/ worker'[r].pc = "done"

\* ... moves on outside Installer.Install, ...
Serves(w) ==
    /\ StepOf(w) /\ UNCHANGED <<venv, skillLock, sweep, prewarmed, failed, ready>>
    /\ worker'[w].skill = worker[w].skill
    /\ \/ worker[w].pc \in WaitPCs /\ SameRequest(w) /\ worker'[w].pc = worker[w].pc
       \/ /\ worker[w].pc = "check" /\ worker'[w].tried = worker[w].tried
          /\ \/ worker'[w].pc = "run"
             \/ worker'[w].pc = "lock" /\ worker'[w].phase = "lazy"
       \/ /\ worker[w].pc = "run" /\ worker'[w].pc = "exec"
          /\ worker'[w].tried = worker[w].tried
          /\ worker'[w].python = venv[worker[w].skill]
       \/ worker[w].pc = "exec" /\ worker'[w].pc = "done"

\* ... takes the skill's mutex, ...
TakesLock(w) ==
    /\ worker[w].pc = "lock" /\ skillLock[worker[w].skill] = NoOne
    /\ UNCHANGED <<venv, sweep, ready>>
    /\ \/ worker[w].skill \notin WithReqs /\ Ends(w, TRUE)
       \/ /\ worker[w].skill \in WithReqs /\ StepOf(w) /\ SameRequest(w)
          /\ worker'[w].pc = IF venv[worker[w].skill] = "none" THEN "venv" ELSE "pip"
          /\ skillLock' = [skillLock EXCEPT ![worker[w].skill] = w]
          /\ UNCHANGED <<prewarmed, failed>>

\* ... comes back from uv venv ...
MakesVenv(w) ==
    /\ worker[w].pc = "venv" /\ UNCHANGED <<sweep, ready>>
    /\ \/ /\ venv' = [venv EXCEPT ![worker[w].skill] = "bare"]
          /\ StepOf(w) /\ SameRequest(w) /\ worker'[w].pc = "pip"
          /\ UNCHANGED <<skillLock, prewarmed, failed>>
       \/ /\ \E v \in {"none", "bare"} : venv' = [venv EXCEPT ![worker[w].skill] = v]
          /\ Ends(w, FALSE)

\* ... or from uv pip; ...
RunsPip(w) ==
    /\ worker[w].pc = "pip" /\ UNCHANGED <<sweep, ready>>
    /\ \/ venv' = [venv EXCEPT ![worker[w].skill] = "ready"] /\ Ends(w, TRUE)
       \/ venv' = venv /\ Ends(w, FALSE)

\* ... the sweep starts a goroutine or is over, and the service restarts.
StartsPrewarm ==
    /\ sweep # <<>> /\ sweep' = Tail(sweep)
    /\ StepOf(Head(sweep))
    /\ worker'[Head(sweep)].pc = "lock" /\ worker'[Head(sweep)].skill = Head(sweep)
    /\ worker'[Head(sweep)].phase = "prewarm"
    /\ UNCHANGED <<venv, skillLock, prewarmed, failed, ready>>

SaysReady ==
    /\ sweep = <<>> /\ \A s \in Prewarms : worker[s].pc \notin WaitPCs
    /\ ready' = TRUE
    /\ UNCHANGED <<venv, skillLock, worker, sweep, prewarmed, failed>>

Restarts ==
    /\ worker' \in [Workers -> WorkerRecord]
    /\ \A w \in Workers : worker'[w].pc \in {"idle", "done"}
    /\ \A s \in Prewarms : worker'[s].pc = "idle"
    /\ venv' \in [Skills -> {"none", "bare", "ready"}]
    /\ skillLock' = [s \in Skills |-> NoOne]
    /\ sweep' = PrewarmList
    /\ prewarmed' = {} /\ failed' = {} /\ ready' = FALSE

\* Requests and prewarm goroutines have different names.
LEMMA InstallNames ==
  ASSUME ExecInstallAssumption
  PROVE  /\ Requests \subseteq Workers /\ Prewarms \subseteq Workers
         /\ Prewarms \subseteq Skills /\ Requests \cap Prewarms = {}
         /\ PrewarmList \in Seq(Prewarms) /\ NoOne \notin Workers
         /\ \A s \in Prewarms : \E i \in 1 .. Len(PrewarmList) : PrewarmList[i] = s
  BY DEF ExecInstallAssumption, Workers, Prewarms

\* The initial state satisfies the invariant.
LEMMA InstallStarts == ExecInstallAssumption /\ InstallInit => InstallInv
<1> SUFFICES ASSUME ExecInstallAssumption, InstallInit PROVE InstallInv
  BY Zenon
<1> USE InstallNames DEF InstallInit, Idle, WaitPCs, Phases
<1>1. InstallTypes
  BY Zenon DEF InstallTypes, InstallShapes, InstallMaps, WorkerRecord
<1>2. InstallHeld /\ InstallTried /\ InstallSettled
  BY Zenon DEF InstallHeld, InstallTried, InstallSettled
<1>3. QED
  BY <1>1, <1>2, Zenon DEF InstallInv, HealthTruthful, ReadyAfterSweep

\* What Move does to the workers.
LEMMA Moved ==
  ASSUME worker \in [Workers -> WorkerRecord], NEW w \in Workers, NEW r \in WorkerRecord,
         Move(w, r)
  PROVE  StepOf(w) /\ worker'[w] = r
  BY Zenon DEF Move, StepOf

\* The worker that comes out of Installer.Install.
LEMMA AfterInstall ==
  ASSUME NEW w \in Workers, worker[w] \in WorkerRecord, NEW ok \in BOOLEAN
  PROVE  /\ After(w, ok) \in WorkerRecord
         /\ After(w, ok).skill = worker[w].skill
         /\ After(w, ok).pc \in {"run", "done"} /\ (After(w, ok).pc = "run" => ok)
<1> DEFINE p == IF worker[w].phase = "lazy" /\ ok THEN "run" ELSE "done"
           a == CASE worker[w].phase = "prewarm" -> "none"
                  [] worker[w].phase = "explicit" -> IF ok THEN "ok" ELSE "error"
                  [] OTHER -> IF ok THEN "none" ELSE "error"
<1>1. p \in {"run", "done"} /\ a \in {"none", "ok", "error"} /\ (p = "run" => ok)
  BY Zenon DEF WorkerRecord
<1>2. After(w, ok) = [worker[w] EXCEPT !.tried = TRUE, !.pc = p, !.answer = a]
  BY Zenon DEF After
<1> HIDE DEF p, a
<1>3. QED
  BY <1>1, <1>2, Zenon DEF WorkerRecord, WaitPCs

\* Installed and InstallFailed end an install.
LEMMA InstallEnds ==
  ASSUME InstallTypes, NEW w \in Workers
  PROVE  (Installed(w) => Ends(w, TRUE)) /\ (InstallFailed(w) => Ends(w, FALSE))
<1>1. worker \in [Workers -> WorkerRecord] /\ worker[w] \in WorkerRecord
  BY Zenon DEF InstallTypes, InstallShapes
<1>2. ASSUME Installed(w) PROVE Ends(w, TRUE)
  BY <1>1, <1>2, AfterInstall, Moved, Zenon DEF Installed, InstallUnlock, Ends
<1>3. ASSUME InstallFailed(w) PROVE Ends(w, FALSE)
  BY <1>1, <1>3, AfterInstall, Moved, Zenon DEF InstallFailed, StillListed, InstallUnlock, Ends
<1>4. QED
  BY <1>2, <1>3, Zenon

\* A worker that goes to its next step keeps everything else.
LEMMA WorkerGoes ==
  ASSUME InstallTypes, NEW w \in Workers,
         NEW p \in {"idle", "check", "run", "exec", "done"} \cup WaitPCs, InstallGoto(w, p)
  PROVE  StepOf(w) /\ SameRequest(w) /\ worker'[w].pc = p
<1>1. worker \in [Workers -> WorkerRecord] /\ worker[w] \in WorkerRecord
  BY Zenon DEF InstallTypes, InstallShapes
<1>2. [worker[w] EXCEPT !.pc = p] \in WorkerRecord
  BY <1>1, Zenon DEF WorkerRecord
<1>3. QED
  BY <1>1, <1>2, Moved DEF InstallGoto, WorkerRecord, SameRequest

\* A goroutine whose context ended is still a goroutine.
LEMMA ExpiredRecord ==
  ASSUME NEW r \in WorkerRecord
  PROVE  [r EXCEPT !.expired = TRUE] \in WorkerRecord
  BY Zenon DEF WorkerRecord

\* Every step is one of six kinds.
LEMMA InstallSteps ==
  ASSUME ExecInstallAssumption, InstallTypes, [InstallNext]_(installVars)
  PROVE  \/ \E r \in Requests : Arrives(r)
         \/ \E w \in Workers : Serves(w) \/ TakesLock(w) \/ MakesVenv(w) \/ RunsPip(w)
         \/ StartsPrewarm \/ SaysReady \/ Restarts \/ UNCHANGED installVars
<1> USE InstallNames
<1>a. worker \in [Workers -> WorkerRecord]
  BY Zenon DEF InstallTypes, InstallShapes
<1>b. \A w \in Workers : worker[w] \in WorkerRecord
  BY <1>a, Zenon
<1>1. ASSUME NEW r \in Requests, NEW s \in AskedSkills, NEW v \in BOOLEAN,
             handleRun(r, s, v) PROVE Arrives(r)
  <2>1. /\ s \in Skills => [Idle EXCEPT !.pc = "check", !.skill = s] \in WorkerRecord
        /\ [Idle EXCEPT !.pc = "done", !.answer = "rejected"] \in WorkerRecord
    BY Zenon DEF Idle, WorkerRecord, WaitPCs, Phases
  <2>2. \/ /\ StepOf(r) /\ s \in Skills
           /\ worker'[r] = [Idle EXCEPT !.pc = "check", !.skill = s]
        \/ /\ StepOf(r)
           /\ worker'[r] = [Idle EXCEPT !.pc = "done", !.answer = "rejected"]
    BY <1>a, <1>1, <2>1, Moved DEF handleRun
  <2>3. QED
    BY <1>1, <2>2, Zenon DEF handleRun, Idle, Arrives
<1>2. ASSUME NEW r \in Requests, NEW s \in AskedSkills, handleInstall(r, s)
      PROVE Arrives(r)
  <2>1. /\ s \in Skills => [Idle EXCEPT !.pc = "lock", !.skill = s, !.phase = "explicit"]
                              \in WorkerRecord
        /\ [Idle EXCEPT !.pc = "done", !.answer = "rejected"] \in WorkerRecord
    BY Zenon DEF Idle, WorkerRecord, WaitPCs, Phases
  <2>2. \/ /\ StepOf(r) /\ s \in Skills
           /\ worker'[r] = [Idle EXCEPT !.pc = "lock", !.skill = s, !.phase = "explicit"]
        \/ /\ StepOf(r)
           /\ worker'[r] = [Idle EXCEPT !.pc = "done", !.answer = "rejected"]
    BY <1>a, <1>2, <2>1, Moved DEF handleInstall
  <2>3. QED
    BY <1>2, <2>2, Zenon DEF handleInstall, Idle, Arrives
<1>3. ASSUME NEW w \in Workers, Expire(w) PROVE Serves(w)
  <2>1. [worker[w] EXCEPT !.expired = TRUE] \in WorkerRecord
    BY <1>b, ExpiredRecord, Zenon
  <2>2. StepOf(w) /\ worker'[w] = [worker[w] EXCEPT !.expired = TRUE]
    BY <1>a, <1>3, <2>1, Moved, Zenon DEF Expire
  <2>3. SameRequest(w) /\ worker'[w].pc = worker[w].pc
    BY <1>b, <2>2 DEF WorkerRecord, SameRequest
  <2>4. QED
    BY <1>3, <2>2, <2>3, Zenon DEF Expire, Serves, SameRequest
<1>4. ASSUME NEW w \in Workers, LazyCheck(w) PROVE Serves(w)
  <2>a. worker[w] \in WorkerRecord
    BY <1>b, Zenon
  <2>b. [worker[w] EXCEPT !.pc = "lock", !.phase = "lazy"] \in WorkerRecord
    BY <2>a, Zenon DEF WorkerRecord, WaitPCs, Phases
  <2>c. [worker[w] EXCEPT !.pc = "run"] \in WorkerRecord
    BY <2>a, Zenon DEF WorkerRecord
  <2>2. \/ StepOf(w) /\ worker'[w] = [worker[w] EXCEPT !.pc = "lock", !.phase = "lazy"]
        \/ StepOf(w) /\ worker'[w] = [worker[w] EXCEPT !.pc = "run"]
    BY <1>a, <1>4, <2>b, <2>c, Moved, SMTT(30) DEF LazyCheck
  <2>3. /\ worker'[w].skill = worker[w].skill /\ worker'[w].tried = worker[w].tried
        /\ worker'[w].pc = "run" \/ (worker'[w].pc = "lock" /\ worker'[w].phase = "lazy")
    BY <1>b, <2>2, Zenon DEF WorkerRecord
  <2>4. QED
    BY <1>4, <2>2, <2>3, Zenon DEF LazyCheck, Serves
<1>5. ASSUME NEW w \in Workers, SpawnUV(w) PROVE Serves(w)
  <2>1. venv[worker[w].skill] \in {"none", "bare", "ready"}
    BY <1>5, Zenon DEF SpawnUV, InstallTypes, InstallMaps
  <2>a. worker[w] \in WorkerRecord
    BY <1>b, Zenon
  <2>2. [worker[w] EXCEPT !.pc = "exec", !.python = venv[worker[w].skill]] \in WorkerRecord
    BY <2>a, <2>1, Zenon DEF WorkerRecord
  <2>3. /\ StepOf(w)
        /\ worker'[w] = [worker[w] EXCEPT !.pc = "exec", !.python = venv[worker[w].skill]]
    BY <1>a, <1>5, <2>2, Moved, Zenon DEF SpawnUV
  <2>4. /\ worker'[w].skill = worker[w].skill /\ worker'[w].tried = worker[w].tried
        /\ worker'[w].pc = "exec" /\ worker'[w].python = venv[worker[w].skill]
    BY <1>b, <2>3, SMTT(30) DEF WorkerRecord
  <2>5. QED
    BY <1>5, <2>3, <2>4, Zenon DEF SpawnUV, Serves
<1>6. ASSUME NEW w \in Workers, FinishRun(w) PROVE Serves(w)
  <2>a. worker[w] \in WorkerRecord
    BY <1>b, Zenon
  <2>1. [worker[w] EXCEPT !.pc = "done", !.answer = "ran"] \in WorkerRecord
    BY <2>a, Zenon DEF WorkerRecord
  <2>2. StepOf(w) /\ worker'[w] = [worker[w] EXCEPT !.pc = "done", !.answer = "ran"]
    BY <1>a, <1>6, <2>1, Moved, Zenon DEF FinishRun, Answer
  <2>3. worker'[w].skill = worker[w].skill /\ worker'[w].pc = "done"
    BY <1>b, <2>2, Zenon DEF WorkerRecord
  <2>4. QED
    BY <1>6, <2>2, <2>3, Zenon DEF FinishRun, Serves
<1>7. ASSUME NEW w \in Workers, TakeLock(w) PROVE TakesLock(w)
  BY <1>7, InstallEnds, WorkerGoes, Zenon DEF TakeLock, InstallLockFree, TakesLock, WaitPCs
<1>8. ASSUME NEW w \in Workers, MakeVenv(w) PROVE MakesVenv(w)
  BY <1>8, InstallEnds, WorkerGoes, Zenon DEF MakeVenv, MakesVenv, WaitPCs
<1>9. ASSUME NEW w \in Workers, PipInstall(w) PROVE RunsPip(w)
  BY <1>9, InstallEnds, Zenon DEF PipInstall, PipResult, RunsPip
<1>10. CASE Prewarm
  <2>1. Head(sweep) \in Prewarms
    BY <1>10, SMTT(30) DEF Prewarm, InstallTypes, InstallShapes
  <2>2. [Idle EXCEPT !.pc = "lock", !.skill = Head(sweep), !.phase = "prewarm"]
          \in WorkerRecord
    BY <2>1, Zenon DEF Idle, WorkerRecord, WaitPCs, Phases
  <2>3. /\ StepOf(Head(sweep))
        /\ worker'[Head(sweep)] =
             [Idle EXCEPT !.pc = "lock", !.skill = Head(sweep), !.phase = "prewarm"]
    BY <1>a, <1>10, <2>1, <2>2, Moved, Zenon DEF Prewarm
  <2>4. QED
    BY <1>10, <2>1, <2>3, Zenon DEF Prewarm, Idle, StartsPrewarm
<1>11. CASE Ready
  BY <1>11, Zenon DEF Ready, SweepOver, InFlight, SaysReady
<1>12. CASE Restart
  <2>1. Idle \in WorkerRecord
    BY Zenon DEF Idle, WorkerRecord, WaitPCs, Phases
  <2>2. ASSUME NEW w \in Workers
        PROVE [worker[w] EXCEPT !.pc = "done"] \in WorkerRecord
    BY <1>b, SMTT(30) DEF WorkerRecord
  <2>3. worker' = [w \in Workers |->
                     IF w \in Requests /\ worker[w].pc # "idle"
                     THEN [worker[w] EXCEPT !.pc = "done"] ELSE Idle]
    BY <1>12, Zenon DEF Restart
  <2>4. ASSUME NEW w \in Workers
        PROVE /\ worker'[w] \in WorkerRecord /\ worker'[w].pc \in {"idle", "done"}
              /\ w \in Prewarms => worker'[w].pc = "idle"
    <3>1. [worker[w] EXCEPT !.pc = "done"].pc = "done"
      BY <1>b, Zenon DEF WorkerRecord
    <3>2. QED
      BY <2>1, <2>2, <2>3, <3>1, Zenon DEF Idle
  <2>5. worker' \in [Workers -> WorkerRecord]
    BY <2>3, <2>4, Zenon
  <2>6. venv' \in [Skills -> {"none", "bare", "ready"}]
    BY <1>12, Zenon DEF Restart, InstallTypes, InstallMaps
  <2>7. QED
    BY <1>12, <2>4, <2>5, <2>6, Zenon DEF Restart, Restarts
<1>13. QED
  BY <1>1, <1>2, <1>3, <1>4, <1>5, <1>6, <1>7, <1>8, <1>9, <1>10, <1>11, <1>12, Zenon
     DEF InstallNext, InstallServe

\* Every step keeps the maps of skills.
LEMMA InstallMapsStep ==
  ASSUME ExecInstallAssumption, InstallTypes, [InstallNext]_(installVars)
  PROVE  InstallMaps'
<1>1. ASSUME NEW r \in Requests, Arrives(r) PROVE InstallMaps'
  BY <1>1, InstallNames, Zenon DEF Arrives, StepOf, InstallMaps, InstallTypes, WaitPCs,
     Phases
<1>2. ASSUME NEW w \in Workers, Serves(w) PROVE InstallMaps'
  BY <1>2, InstallNames, Zenon DEF Serves, StepOf, SameRequest, InstallMaps, InstallTypes,
     WaitPCs, Phases
<1>3. ASSUME NEW w \in Workers, TakesLock(w) PROVE InstallMaps'
  BY <1>3, InstallNames DEF TakesLock, StepOf, SameRequest, Ends, InstallMaps,
     InstallTypes, WaitPCs, Phases
<1>4. ASSUME NEW w \in Workers, MakesVenv(w) PROVE InstallMaps'
  <2>1. worker[w].skill \in Skills
    BY <1>4, Zenon DEF MakesVenv, InstallTypes, InstallMaps, WaitPCs
  <2>2. venv' \in [Skills -> {"none", "bare", "ready"}]
    BY <1>4, <2>1, Zenon DEF MakesVenv, InstallTypes, InstallMaps
  <2>3. skillLock' \in [Skills -> Workers \cup {NoOne}]
    BY <1>4, <2>1, Zenon DEF MakesVenv, Ends, InstallTypes, InstallMaps
  <2>4. QED
    BY <1>4, <2>1, <2>2, <2>3
       DEF MakesVenv, Ends, StepOf, SameRequest, InstallTypes, InstallMaps, WaitPCs
<1>5. ASSUME NEW w \in Workers, RunsPip(w) PROVE InstallMaps'
  <2>1. worker[w].skill \in Skills
    BY <1>5, Zenon DEF RunsPip, InstallTypes, InstallMaps, WaitPCs
  <2>2. venv' \in [Skills -> {"none", "bare", "ready"}]
    BY <1>5, <2>1, Zenon DEF RunsPip, InstallTypes, InstallMaps
  <2>3. skillLock' \in [Skills -> Workers \cup {NoOne}]
    BY <1>5, <2>1, Zenon DEF RunsPip, Ends, InstallTypes, InstallMaps
  <2>4. QED
    BY <1>5, <2>1, <2>2, <2>3
       DEF RunsPip, Ends, StepOf, SameRequest, InstallTypes, InstallMaps, WaitPCs
<1>6. CASE StartsPrewarm
  <2>1. Head(sweep) \in Prewarms
    BY <1>6 DEF StartsPrewarm, InstallTypes, InstallShapes
  <2>2. QED
    BY <1>6, <2>1, InstallNames, Zenon DEF StartsPrewarm, StepOf, InstallTypes, InstallMaps, WaitPCs
<1>7. CASE SaysReady
  BY <1>7, InstallNames, Zenon DEF SaysReady, StepOf, InstallMaps, InstallTypes, WaitPCs,
     Phases
<1>8. CASE Restarts
  BY <1>8, InstallNames, Zenon DEF Restarts, StepOf, InstallMaps, InstallTypes, WaitPCs,
     Phases
<1>9. CASE UNCHANGED installVars
  BY <1>9, Zenon DEF installVars, InstallMaps, InstallTypes, WaitPCs, Phases
<1>10. QED
  BY <1>1, <1>2, <1>3, <1>4, <1>5, <1>6, <1>7, <1>8, <1>9, InstallSteps, Zenon

\* Every step keeps the shapes of the variables.
LEMMA InstallShapesStep ==
  ASSUME ExecInstallAssumption, InstallTypes, [InstallNext]_(installVars)
  PROVE  InstallShapes'
<1>1. ASSUME NEW r \in Requests, Arrives(r) PROVE InstallShapes'
  BY <1>1, InstallNames, Zenon DEF Arrives, StepOf, InstallShapes, InstallMaps, InstallTypes,
     WaitPCs
<1>2. ASSUME NEW w \in Workers, Serves(w) PROVE InstallShapes'
  BY <1>2, InstallNames, Zenon DEF Serves, StepOf, SameRequest, InstallShapes, InstallMaps,
     InstallTypes, WaitPCs
<1>3. ASSUME NEW w \in Workers, TakesLock(w) PROVE InstallShapes'
  BY <1>3, InstallNames DEF TakesLock, StepOf, SameRequest, Ends, InstallShapes,
     InstallMaps, InstallTypes, WaitPCs
<1>4. ASSUME NEW w \in Workers, MakesVenv(w) PROVE InstallShapes'
  BY <1>4, InstallNames, SMTT(30) DEF MakesVenv, StepOf, SameRequest, Ends, InstallShapes,
     InstallMaps, InstallTypes, WaitPCs
<1>5. ASSUME NEW w \in Workers, RunsPip(w) PROVE InstallShapes'
  BY <1>5, InstallNames, SMTT(30) DEF RunsPip, StepOf, Ends, InstallShapes, InstallMaps,
     InstallTypes, WaitPCs
<1>6. CASE StartsPrewarm
  BY <1>6, InstallNames, SMTT(30) DEF StartsPrewarm, StepOf, InstallShapes, InstallMaps, InstallTypes,
     WaitPCs
<1>7. CASE SaysReady
  BY <1>7, InstallNames, Zenon DEF SaysReady, StepOf, InstallShapes, InstallMaps, InstallTypes,
     WaitPCs
<1>8. CASE Restarts
  BY <1>8, InstallNames, Zenon DEF Restarts, StepOf, InstallShapes, InstallMaps, InstallTypes,
     WaitPCs
<1>9. CASE UNCHANGED installVars
  BY <1>9, Zenon DEF installVars, InstallShapes, InstallMaps, InstallTypes, WaitPCs
<1>10. QED
  BY <1>1, <1>2, <1>3, <1>4, <1>5, <1>6, <1>7, <1>8, <1>9, InstallSteps, Zenon

\* Every step keeps the mutex with the one that runs uv.
LEMMA InstallHeldStep ==
  ASSUME ExecInstallAssumption, InstallInv, [InstallNext]_(installVars)
  PROVE  InstallHeld'
<1>1. ASSUME NEW r \in Requests, Arrives(r) PROVE InstallHeld'
  BY <1>1, InstallNames DEF Arrives, StepOf, InstallInv, InstallTypes, InstallMaps,
     WaitPCs, InstallHeld
<1>2. ASSUME NEW w \in Workers, Serves(w) PROVE InstallHeld'
  BY <1>2, InstallNames, SMTT(30) DEF Serves, StepOf, SameRequest, InstallInv, InstallTypes,
     InstallMaps, WaitPCs, InstallHeld
<1>3. ASSUME NEW w \in Workers, TakesLock(w) PROVE InstallHeld'
  BY <1>3, InstallNames, SMTT(30) DEF TakesLock, StepOf, SameRequest, Ends, InstallInv,
     InstallTypes, InstallMaps, WaitPCs, InstallHeld
<1>4. ASSUME NEW w \in Workers, MakesVenv(w) PROVE InstallHeld'
  BY <1>4, InstallNames DEF MakesVenv, StepOf, SameRequest, Ends, InstallInv,
     InstallTypes, InstallMaps, WaitPCs, InstallHeld
<1>5. ASSUME NEW w \in Workers, RunsPip(w) PROVE InstallHeld'
  <2>1. worker[w].skill \in Skills /\ skillLock[worker[w].skill] = w
    BY <1>5, Zenon DEF RunsPip, InstallInv, InstallTypes, InstallMaps, InstallHeld, WaitPCs
  <2>2. ASSUME NEW v \in Workers, worker'[v].pc \in {"venv", "pip"}
        PROVE  v # w /\ worker'[v] = worker[v] /\ worker[v].skill # worker[w].skill
    BY <1>5, <2>1, <2>2, SMTT(30) DEF RunsPip, Ends, StepOf, InstallInv, InstallHeld
  <2>3. /\ \A s \in Skills : s # worker[w].skill =>
             skillLock'[s] = skillLock[s] /\ venv'[s] = venv[s]
        /\ \A v \in Workers : worker[v].pc \in {"venv", "pip"} => worker[v].skill \in Skills
    BY <1>5, <2>1, Zenon DEF RunsPip, Ends, InstallInv, InstallTypes, InstallMaps, WaitPCs
  <2>4. QED
    BY <2>2, <2>3, SMTT(30) DEF InstallInv, InstallHeld
<1>6. CASE StartsPrewarm
  BY <1>6, InstallNames, SMTT(30) DEF StartsPrewarm, StepOf, InstallInv, InstallTypes, InstallMaps,
     WaitPCs, InstallHeld
<1>7. CASE SaysReady
  BY <1>7, InstallNames, Zenon DEF SaysReady, StepOf, InstallInv, InstallTypes, InstallMaps,
     WaitPCs, InstallHeld
<1>8. CASE Restarts
  BY <1>8, InstallNames, Zenon DEF Restarts, StepOf, InstallInv, InstallTypes, InstallMaps,
     WaitPCs, InstallHeld
<1>9. CASE UNCHANGED installVars
  BY <1>9, Zenon DEF installVars, InstallInv, InstallTypes, InstallMaps, WaitPCs, InstallHeld
<1>10. InstallTypes
  BY Zenon DEF InstallInv
<1>11. QED
  BY <1>10, <1>1, <1>2, <1>3, <1>4, <1>5, <1>6, <1>7, <1>8, <1>9, InstallSteps, Zenon

\* Every step keeps what a run installed for itself.
LEMMA InstallTriedStep ==
  ASSUME ExecInstallAssumption, InstallInv, [InstallNext]_(installVars)
  PROVE  InstallTried'
<1>1. ASSUME NEW r \in Requests, Arrives(r) PROVE InstallTried'
  BY <1>1, InstallNames, SMTT(30) DEF Arrives, StepOf, InstallInv, InstallTypes, InstallMaps,
     WaitPCs, InstallHeld, InstallTried
<1>2. ASSUME NEW w \in Workers, Serves(w) PROVE InstallTried'
  BY <1>2, InstallNames, SMTT(30) DEF Serves, StepOf, SameRequest, InstallInv, InstallTypes,
     InstallMaps, WaitPCs, InstallHeld, InstallTried
<1>3. ASSUME NEW w \in Workers, TakesLock(w) PROVE InstallTried'
  BY <1>3, InstallNames, SMTT(30) DEF TakesLock, StepOf, SameRequest, Ends, InstallInv,
     InstallTypes, InstallMaps, WaitPCs, InstallHeld, InstallTried
<1>4. ASSUME NEW w \in Workers, MakesVenv(w) PROVE InstallTried'
  BY <1>4, InstallNames, SMTT(30) DEF MakesVenv, StepOf, SameRequest, Ends, InstallInv,
     InstallTypes, InstallMaps, WaitPCs, InstallHeld, InstallTried
<1>5. ASSUME NEW w \in Workers, RunsPip(w) PROVE InstallTried'
  BY <1>5, InstallNames, SMTT(30) DEF RunsPip, StepOf, Ends, InstallInv, InstallTypes,
     InstallMaps, WaitPCs, InstallHeld, InstallTried
<1>6. CASE StartsPrewarm
  <2>1. UNCHANGED venv /\ \A w \in Workers : w # Head(sweep) => worker'[w] = worker[w]
    BY <1>6, Zenon DEF StartsPrewarm, StepOf
  <2>2. worker'[Head(sweep)].pc = "lock"
    BY <1>6, Zenon DEF StartsPrewarm
  <2>3. ASSUME NEW w \in Workers, w # Head(sweep)
        PROVE  /\ worker'[w].pc = "check" => ~worker'[w].tried
               /\ worker'[w].tried /\ worker'[w].skill \in WithReqs =>
                    /\ worker'[w].pc = "run" => venv'[worker'[w].skill] = "ready"
                    /\ worker'[w].pc = "exec" => worker'[w].python = "ready"
    BY <2>1, <2>3, Zenon DEF InstallInv, InstallTried
  <2>4. "lock" # "check" /\ "lock" # "run" /\ "lock" # "exec"
    BY Zenon
  <2>5. QED
    BY <2>2, <2>3, <2>4, Zenon DEF InstallTried
<1>7. CASE SaysReady
  BY <1>7, InstallNames, Zenon DEF SaysReady, StepOf, InstallInv, InstallTypes, InstallMaps,
     WaitPCs, InstallHeld, InstallTried
<1>8. CASE Restarts
  BY <1>8, InstallNames, Zenon DEF Restarts, StepOf, InstallInv, InstallTypes, InstallMaps,
     WaitPCs, InstallHeld, InstallTried
<1>9. CASE UNCHANGED installVars
  BY <1>9, Zenon DEF installVars, InstallInv, InstallTypes, InstallMaps, WaitPCs, InstallHeld,
     InstallTried
<1>10. InstallTypes
  BY Zenon DEF InstallInv
<1>11. QED
  BY <1>10, <1>1, <1>2, <1>3, <1>4, <1>5, <1>6, <1>7, <1>8, <1>9, InstallSteps, Zenon

\* Every step keeps account of the skills to prewarm.
LEMMA InstallSettledStep ==
  ASSUME ExecInstallAssumption, InstallInv, [InstallNext]_(installVars)
  PROVE  InstallSettled'
<1>1. ASSUME NEW r \in Requests, Arrives(r) PROVE InstallSettled'
  BY <1>1, InstallNames, Zenon DEF Arrives, StepOf, InstallInv, InstallTypes, InstallMaps,
     WaitPCs, InstallSettled
<1>2. ASSUME NEW w \in Workers, Serves(w) PROVE InstallSettled'
  BY <1>2, InstallNames, SMTT(30) DEF Serves, StepOf, SameRequest, InstallInv, InstallTypes,
     InstallMaps, WaitPCs, InstallSettled
<1>3. ASSUME NEW w \in Workers, TakesLock(w) PROVE InstallSettled'
  BY <1>3, InstallNames, SMTT(30) DEF TakesLock, StepOf, SameRequest, Ends, InstallInv,
     InstallTypes, InstallMaps, WaitPCs, InstallSettled
<1>4. ASSUME NEW w \in Workers, MakesVenv(w) PROVE InstallSettled'
  BY <1>4, InstallNames, SMTT(30) DEF MakesVenv, StepOf, SameRequest, Ends, InstallInv,
     InstallTypes, InstallMaps, WaitPCs, InstallSettled
<1>5. ASSUME NEW w \in Workers, RunsPip(w) PROVE InstallSettled'
  BY <1>5, InstallNames, SMTT(30) DEF RunsPip, StepOf, Ends, InstallInv, InstallTypes,
     InstallMaps, WaitPCs, InstallSettled
<1>6. CASE StartsPrewarm
  <2>1. /\ Head(sweep) \in Prewarms
        /\ \A s \in Prewarms : (\E i \in 1 .. Len(sweep) : sweep[i] = s) =>
             s = Head(sweep) \/ \E i \in 1 .. Len(Tail(sweep)) : Tail(sweep)[i] = s
    <3>1. sweep \in Seq(Prewarms) /\ sweep # <<>>
      BY <1>6, Zenon DEF StartsPrewarm, InstallInv, InstallTypes, InstallShapes
    <3>2. ASSUME NEW i \in 1 .. Len(sweep), i # 1
          PROVE i - 1 \in 1 .. Len(Tail(sweep)) /\ Tail(sweep)[i - 1] = sweep[i]
      BY <3>1, <3>2, SMTT(30)
    <3>3. QED
      BY <3>1, <3>2, SMTT(30)
  <2>2. QED
    BY <1>6, <2>1, InstallNames, Zenon DEF StartsPrewarm, StepOf, InstallInv, InstallSettled, WaitPCs
<1>7. CASE SaysReady
  BY <1>7, InstallNames, Zenon DEF SaysReady, StepOf, InstallInv, InstallTypes, InstallMaps,
     WaitPCs, InstallSettled
<1>8. CASE Restarts
  BY <1>8, InstallNames, Zenon DEF Restarts, StepOf, InstallInv, InstallTypes, InstallMaps,
     WaitPCs, InstallSettled
<1>9. CASE UNCHANGED installVars
  BY <1>9, Zenon DEF installVars, InstallInv, InstallTypes, InstallMaps, WaitPCs, InstallSettled
<1>10. InstallTypes
  BY Zenon DEF InstallInv
<1>11. QED
  BY <1>10, <1>1, <1>2, <1>3, <1>4, <1>5, <1>6, <1>7, <1>8, <1>9, InstallSteps, Zenon

\* Every step keeps GET /v1/health truthful.
LEMMA InstallHealthStep ==
  ASSUME ExecInstallAssumption, InstallInv, [InstallNext]_(installVars)
  PROVE  HealthTruthful'
<1>1. ASSUME NEW r \in Requests, Arrives(r) PROVE HealthTruthful'
  BY <1>1, InstallNames, Zenon DEF Arrives, StepOf, InstallInv, InstallTypes, InstallMaps,
     WaitPCs, InstallHeld, HealthTruthful
<1>2. ASSUME NEW w \in Workers, Serves(w) PROVE HealthTruthful'
  BY <1>2, InstallNames, Zenon DEF Serves, StepOf, SameRequest, InstallInv, InstallTypes,
     InstallMaps, WaitPCs, InstallHeld, HealthTruthful
<1>3. ASSUME NEW w \in Workers, TakesLock(w) PROVE HealthTruthful'
  BY <1>3, InstallNames, SMTT(30) DEF TakesLock, StepOf, SameRequest, Ends, InstallInv,
     InstallTypes, InstallMaps, WaitPCs, InstallHeld, HealthTruthful
<1>4. ASSUME NEW w \in Workers, MakesVenv(w) PROVE HealthTruthful'
  <2>1. worker[w].skill \in Skills /\ worker[w].skill \in WithReqs
    BY <1>4, Zenon DEF MakesVenv, InstallInv, InstallTypes, InstallMaps, InstallHeld, WaitPCs
  <2>2. prewarmed \subseteq Skills /\ venv \in [Skills -> {"none", "bare", "ready"}]
    BY Zenon DEF InstallInv, InstallTypes, InstallMaps, InstallShapes
  <2>3. QED
    BY <1>4, <2>1, <2>2, SMTT(30) DEF MakesVenv, Ends, InstallInv, InstallHeld, HealthTruthful
<1>5. ASSUME NEW w \in Workers, RunsPip(w) PROVE HealthTruthful'
  <2>1. worker[w].skill \in Skills /\ worker[w].skill \in WithReqs
    BY <1>5, Zenon DEF RunsPip, InstallInv, InstallTypes, InstallMaps, InstallHeld, WaitPCs
  <2>2. prewarmed \subseteq Skills /\ venv \in [Skills -> {"none", "bare", "ready"}]
    BY Zenon DEF InstallInv, InstallTypes, InstallMaps, InstallShapes
  <2>3. QED
    BY <1>5, <2>1, <2>2, SMTT(30) DEF RunsPip, Ends, InstallInv, InstallHeld, HealthTruthful
<1>6. CASE StartsPrewarm
  BY <1>6, InstallNames, Zenon DEF StartsPrewarm, StepOf, InstallInv, InstallTypes, InstallMaps,
     WaitPCs, InstallHeld, HealthTruthful
<1>7. CASE SaysReady
  BY <1>7, InstallNames, Zenon DEF SaysReady, StepOf, InstallInv, InstallTypes, InstallMaps,
     WaitPCs, InstallHeld, HealthTruthful
<1>8. CASE Restarts
  BY <1>8, InstallNames, SMTT(30) DEF Restarts, StepOf, InstallInv, InstallTypes, InstallMaps,
     WaitPCs, InstallHeld, HealthTruthful
<1>9. CASE UNCHANGED installVars
  BY <1>9, Zenon DEF installVars, InstallInv, InstallTypes, InstallMaps, WaitPCs, InstallHeld,
     HealthTruthful
<1>10. InstallTypes
  BY Zenon DEF InstallInv
<1>11. QED
  BY <1>10, <1>1, <1>2, <1>3, <1>4, <1>5, <1>6, <1>7, <1>8, <1>9, InstallSteps, Zenon

\* Every step keeps ready from being said too early.
LEMMA InstallReadyStep ==
  ASSUME ExecInstallAssumption, InstallInv, [InstallNext]_(installVars)
  PROVE  ReadyAfterSweep'
<1>1. ASSUME NEW r \in Requests, Arrives(r) PROVE ReadyAfterSweep'
  BY <1>1, InstallNames, Zenon DEF Arrives, StepOf, InstallInv, InstallTypes, InstallMaps,
     WaitPCs, InstallSettled, ReadyAfterSweep
<1>2. ASSUME NEW w \in Workers, Serves(w) PROVE ReadyAfterSweep'
  BY <1>2, InstallNames, Zenon DEF Serves, StepOf, SameRequest, InstallInv, InstallTypes,
     InstallMaps, WaitPCs, InstallSettled, ReadyAfterSweep
<1>3. ASSUME NEW w \in Workers, TakesLock(w) PROVE ReadyAfterSweep'
  BY <1>3, InstallNames, Zenon DEF TakesLock, StepOf, SameRequest, Ends, InstallInv,
     InstallTypes, InstallMaps, WaitPCs, InstallSettled, ReadyAfterSweep
<1>4. ASSUME NEW w \in Workers, MakesVenv(w) PROVE ReadyAfterSweep'
  BY <1>4, InstallNames, SMTT(30) DEF MakesVenv, StepOf, SameRequest, Ends, InstallInv,
     InstallTypes, InstallMaps, WaitPCs, InstallSettled, ReadyAfterSweep
<1>5. ASSUME NEW w \in Workers, RunsPip(w) PROVE ReadyAfterSweep'
  BY <1>5, InstallNames, SMTT(30) DEF RunsPip, StepOf, Ends, InstallInv, InstallTypes,
     InstallMaps, WaitPCs, InstallSettled, ReadyAfterSweep
<1>6. CASE StartsPrewarm
  BY <1>6, InstallNames, Zenon DEF StartsPrewarm, StepOf, InstallInv, InstallTypes, InstallMaps,
     WaitPCs, InstallSettled, ReadyAfterSweep
<1>7. CASE SaysReady
  BY <1>7, InstallNames, SMTT(30) DEF SaysReady, StepOf, InstallInv, InstallTypes, InstallMaps,
     WaitPCs, InstallSettled, ReadyAfterSweep
<1>8. CASE Restarts
  BY <1>8, InstallNames, Zenon DEF Restarts, StepOf, InstallInv, InstallTypes, InstallMaps,
     WaitPCs, InstallSettled, ReadyAfterSweep
<1>9. CASE UNCHANGED installVars
  BY <1>9, Zenon DEF installVars, InstallInv, InstallTypes, InstallMaps, WaitPCs, InstallSettled,
     ReadyAfterSweep
<1>10. InstallTypes
  BY Zenon DEF InstallInv
<1>11. QED
  BY <1>10, <1>1, <1>2, <1>3, <1>4, <1>5, <1>6, <1>7, <1>8, <1>9, InstallSteps, Zenon

\* Installer.Install, Runner.Run, Prewarm and Health: for every configuration of
\* skills and every number of requests and restarts, uv runs once at a time per
\* skill and the service tells the truth about what is installed.
THEOREM InstallsAreSound ==
  ASSUME ExecInstallAssumption PROVE InstallSpec => []InstallsSound
<1>1. InstallInv /\ [InstallNext]_(installVars) => InstallInv'
  BY InstallMapsStep, InstallShapesStep, InstallHeldStep, InstallTriedStep, InstallSettledStep, InstallHealthStep,
     InstallReadyStep, Zenon DEF InstallInv, InstallTypes
<1>2. InstallInv => InstallsSound
  BY InstallNames, Zenon DEF InstallInv, InstallTypes, InstallShapes, InstallMaps, InstallHeld,
     InstallTried, WorkerRecord, InstallsSound,
         InstallTypeOK, OneInstaller, LazyRunInstalled
<1>3. QED
  BY InstallStarts, <1>1, <1>2, PTL DEF InstallSpec

-----------------------------------------------------------------------------
(* The capped output *)

OutputInv ==
    /\ written \in Seq({"a", "L", "c", "x"})
    /\ OutputTypeOK /\ TruncatedExact

\* The smaller of two numbers.
LEMMA MinOfTwo ==
  ASSUME NEW a \in Nat, NEW b \in Nat
  PROVE  Min({a, b}) = IF a <= b THEN a ELSE b
  BY DEF Min

\* The largest of a set of numbers, when one of them bounds the others.
LEMMA MaxIs ==
  ASSUME NEW S \in SUBSET Nat, NEW m \in S, \A y \in S : y <= m
  PROVE  Max(S) = m
<1>1. \E x \in S : \A y \in S : x >= y
  BY Zenon
<1>2. Max(S) \in S /\ \A y \in S : Max(S) >= y
  BY <1>1, Zenon DEF Max
<1>3. \A x \in S : (\A y \in S : x >= y) => x = m
  OBVIOUS
<1>4. QED
  BY <1>2, <1>3, Zenon

\* A chunk is a sequence of bytes.
LEMMA ChunkBytes ==
  ASSUME CappedOutputAssumption, NEW p \in Chunks
  PROVE  p \in Seq({"a", "L", "c", "x"}) /\ Len(p) > 0
<1>1. PICK m \in 0 .. 3 : p \in [1 .. m -> Bytes]
  BY DEF Chunks
<1>2. p \in Seq({"a", "L", "c", "x"})
  <2>1. p \in [1 .. m -> {"a", "L", "c", "x"}]
    BY <1>1, Zenon DEF CappedOutputAssumption
  <2>2. QED
    BY <2>1
<1>3. QED
  BY <1>2 DEF Chunks

\* However a write falls on the cap, the buffer stays the first Cap bytes of
\* the output and the flag says whether there were more.
LEMMA OutputStep ==
  ASSUME CappedOutputAssumption, OutputInv, [OutputNext]_(outputVars)
  PROVE  OutputInv'
<1>1. ASSUME NEW p \in Chunks, Write(p) PROVE OutputInv'
  <2>1. p \in Seq({"a", "L", "c", "x"}) /\ Len(p) > 0 /\ Cap \in Nat
    BY ChunkBytes, Zenon DEF CappedOutputAssumption
  <2>a. written \in Seq({"a", "L", "c", "x"}) /\ Len(written) \in Nat
    BY DEF OutputInv
  <2>2. /\ written \in Seq({"a", "L", "c", "x"}) /\ written' = written \o p
        /\ buf = SubSeq(written, 1, IF Cap <= Len(written) THEN Cap ELSE Len(written))
    BY <1>1, <2>a, <2>1, MinOfTwo, Zenon DEF OutputInv, OutputTypeOK, Write
  <2>3. written' \in Seq({"a", "L", "c", "x"}) /\ Len(written') = Len(written) + Len(p)
    BY <2>1, <2>2
  <2>4. Len(buf) = IF Cap <= Len(written) THEN Cap ELSE Len(written)
    BY <2>1, <2>2
  <2>5. TruncatedExact'
    <3>1. Len(written) > Cap \/ Over(p) <=> Len(written') > Cap
      BY <2>1, <2>a, <2>3, <2>4 DEF Over, Room
    <3>2. QED
      BY <1>1, <3>1, Zenon DEF Write, TruncatedExact, OutputInv
  <2>6. buf' = SubSeq(written', 1, IF Cap <= Len(written') THEN Cap ELSE Len(written'))
    <3>1. CASE Cap <= Len(written)
      <4>1. buf' = buf
        BY <1>1, <2>1, <2>4, <3>1 DEF Write, Room
      <4>2. QED
        BY <2>1, <2>2, <2>3, <3>1, <4>1, SMTT(30)
    <3>2. CASE Cap > Len(written)
      <4>1. buf = written
        BY <2>1, <2>2, <3>2
      <4>2. buf' = written \o SubSeq(p, 1, IF Len(p) <= Cap - Len(written)
                                             THEN Len(p) ELSE Cap - Len(written))
        <5>1. /\ Len(p) \in Nat /\ Room \in Nat /\ Room = Cap - Len(written)
              /\ ~ (Room <= 0)
          BY <2>1, <2>a, <2>4, <3>2 DEF Room
        <5>2. Min({Len(p), Room}) = IF Len(p) <= Room THEN Len(p) ELSE Room
          BY <5>1, MinOfTwo, Zenon
        <5>3. QED
          BY <1>1, <4>1, <5>1, <5>2, Zenon DEF Write
      <4>3. CASE Len(p) <= Cap - Len(written)
        <5>1. SubSeq(p, 1, Len(p)) = p
          BY <2>1
        <5>2. buf' = written' /\ Cap >= Len(written')
          BY <2>1, <2>a, <2>2, <2>3, <4>2, <4>3, <5>1, SMTT(30)
        <5>3. SubSeq(written', 1, Len(written')) = written'
          BY <2>3
        <5>4. QED
          BY <2>1, <2>3, <5>2, <5>3
      <4>4. CASE Len(p) > Cap - Len(written)
        <5>1. PICK k \in Nat : k = Cap - Len(written) /\ k < Len(p)
          BY <2>1, <2>a, <3>2, <4>4, SMTT(30)
        <5>2. Cap <= Len(written') /\ buf' = written \o SubSeq(p, 1, k)
          BY <2>1, <2>a, <2>3, <4>2, <5>1, SMTT(30)
        <5>3. SubSeq(written \o p, 1, Len(written) + k) = written \o SubSeq(p, 1, k)
          BY <2>1, <2>a, <5>1, SMTT(30)
        <5>4. Len(written) + k = Cap
          BY <2>1, <2>a, <5>1
        <5>5. QED
          BY <2>1, <2>2, <2>3, <5>2, <5>3, <5>4, Zenon
      <4>5. QED
        BY <2>1, <2>a, <4>3, <4>4
    <3>3. QED
      BY <2>1, <2>2, <3>1, <3>2, SMTT(30)
  <2>7. OutputTypeOK'
    BY <2>1, <2>3, <2>6, MinOfTwo, SMTT(30) DEF OutputTypeOK
  <2>8. QED
    BY <2>3, <2>5, <2>7, Zenon DEF OutputInv
<1>2. CASE UNCHANGED outputVars
  BY <1>2, Zenon DEF outputVars, OutputInv, OutputTypeOK, TruncatedExact
<1>3. QED
  BY <1>1, <1>2, Zenon DEF OutputNext

\* What Valid says of a sequence, by position.
LEMMA ValidAt ==
  ASSUME NEW t \in Seq({"a", "L", "c", "x"})
  PROVE  Valid(t) <=>
           \A i \in 1 .. Len(t) :
             \/ t[i] = "a"
             \/ t[i] = "L" /\ i < Len(t) /\ t[i + 1] = "c"
             \/ t[i] = "c" /\ i > 1 /\ t[i - 1] = "L"
<1>1. DOMAIN t = 1 .. Len(t)
  OBVIOUS
<1>2. QED
  BY <1>1, Zenon DEF Valid

\* Cutting valid text breaks at most the last character of what is left, and
\* then String drops exactly the one byte of it.
LEMMA CutText ==
  ASSUME NEW t \in Seq({"a", "L", "c", "x"}), Valid(t),
         NEW n \in 2 .. Len(t), NEW b, b = SubSeq(t, 1, n)
  PROVE  Valid(Trimmed(b)) /\ Len(b) - Len(Trimmed(b)) <= 1
<1>1. b \in Seq({"a", "L", "c", "x"}) /\ Len(b) = n /\ \A i \in 1 .. n : b[i] = t[i]
  OBVIOUS
<1>2. CASE Valid(b)
  BY <1>1, <1>2 DEF Trimmed
<1>3. CASE ~ Valid(b)
  <2>a. \A i \in 1 .. Len(t) :
            \/ t[i] = "a"
            \/ t[i] = "L" /\ i < Len(t) /\ t[i + 1] = "c"
            \/ t[i] = "c" /\ i > 1 /\ t[i - 1] = "L"
    BY ValidAt, Zenon
  <2>b. PICK i \in 1 .. n :
            ~ \/ b[i] = "a"
              \/ b[i] = "L" /\ i < Len(b) /\ b[i + 1] = "c"
              \/ b[i] = "c" /\ i > 1 /\ b[i - 1] = "L"
    BY <1>1, <1>3, ValidAt, Zenon
  <2>1. t[n] = "L"
    <3>1. CASE i = n
      BY <1>1, <2>a, <2>b, <3>1
    <3>2. CASE i # n
      BY <1>1, <2>a, <2>b, <3>2
    <3>3. QED
      BY <3>1, <3>2, Zenon
  <2>2. n - 1 \in 1 .. Len(t) /\ t[n - 1] # "L"
    BY <2>1, <2>a
  <2> DEFINE m == n - 1
             c == SubSeq(b, 1, m)
             good == {k \in 1 .. Len(b) : Valid(SubSeq(b, 1, k))}
  <2>3. c \in Seq({"a", "L", "c", "x"}) /\ Len(c) = m /\ \A k \in 1 .. m : c[k] = t[k]
    BY <1>1
  <2>4. Valid(c)
    <3>1. ASSUME NEW j \in 1 .. m
          PROVE  \/ c[j] = "a"
                 \/ c[j] = "L" /\ j < m /\ c[j + 1] = "c"
                 \/ c[j] = "c" /\ j > 1 /\ c[j - 1] = "L"
      <4>1. /\ c[j] = t[j] /\ j \in 1 .. Len(t)
            /\ j < m => c[j + 1] = t[j + 1]
            /\ j > 1 => c[j - 1] = t[j - 1]
        <5>1. /\ j \in Nat /\ j \in 1 .. Len(t) /\ (j < m => j + 1 \in 1 .. m)
              /\ j > 1 => j - 1 \in 1 .. m
          BY <1>1
        <5>2. QED
          BY <2>3, <5>1, Zenon
      <4>2. j = m => t[j] # "L"
        BY <2>2, Zenon
      <4>3. j = m \/ j < m
        OBVIOUS
      <4>4. QED
        BY <2>a, <4>1, <4>2, <4>3, Zenon
    <3>2. QED
      <4> HIDE DEF c, m
      <4>1. c \in Seq({"a", "L", "c", "x"}) /\ Len(c) = m
        BY <2>3, Zenon
      <4>2. QED
        BY <3>1, <4>1, ValidAt, Zenon
  <2>5. SubSeq(b, 1, n) = b
    BY <1>1
  <2>6. m \in good /\ good \subseteq Nat /\ \A y \in good : y <= m
    <3>1. m \in 1 .. Len(b) /\ n \notin good
      <4>1. m \in 1 .. Len(b)
        BY <1>1
      <4>2. n \notin good
        BY <1>3, <2>5, Zenon
      <4>3. QED
        BY <4>1, <4>2, Zenon
    <3>2. \A y \in 1 .. Len(b) : y # n => y <= m
      BY <1>1
    <3>3. QED
      BY <2>4, <3>1, <3>2
  <2>7. Max(good) = m
    BY <2>6, MaxIs, Zenon
  <2>8. Trimmed(b) = c
    BY <1>3, <2>6, <2>7, Zenon DEF Trimmed
  <2>9. Len(b) - Len(c) <= 1
    BY <1>1, <2>3
  <2>10. QED
    BY <2>4, <2>8, <2>9, Zenon
<1>4. QED
  BY <1>2, <1>3, Zenon

\* Valid output is handed over in whole characters.
LEMMA OutputWhole ==
  ASSUME CappedOutputAssumption, OutputInv
  PROVE  WholeCharacters
<1> SUFFICES ASSUME Valid(written), Len(buf) >= 2
             PROVE  Valid(Text) /\ Len(buf) - Len(Text) <= 1
  BY Zenon DEF WholeCharacters
<1> DEFINE n == IF Cap <= Len(written) THEN Cap ELSE Len(written)
<1>1. written \in Seq({"a", "L", "c", "x"}) /\ Cap \in Nat /\ buf = SubSeq(written, 1, n)
  BY MinOfTwo, SMTT(30) DEF OutputInv, OutputTypeOK, CappedOutputAssumption
<1>2. n \in 2 .. Len(written)
  BY <1>1
<1>3. QED
  BY <1>1, <1>2, CutText, Zenon DEF Text

\* For every cap and every way the output is cut into writes: the buffer is its
\* first Cap bytes, the flag is exact, and valid text is not broken at the cut.
THEOREM OutputIsExact ==
  ASSUME CappedOutputAssumption
  PROVE  OutputSpec => []OutputExact
<1>1. OutputInit => OutputInv
  BY MinOfTwo DEF OutputInit, OutputInv, OutputTypeOK, TruncatedExact, CappedOutputAssumption
<1>2. OutputInv /\ [OutputNext]_(outputVars) => OutputInv'
  BY OutputStep, Zenon
<1>3. OutputInv => OutputExact
  BY OutputWhole, Zenon DEF OutputInv, OutputExact
<1>4. QED
  BY <1>1, <1>2, <1>3, PTL DEF OutputSpec

-----------------------------------------------------------------------------
(* The manager of the servers *)

StarterLabels == {"idle", "spawn", "initialize", "list", "register", "append", "connect", "done"}
StarterRecord == [pc : StarterLabels, seen : Seq(ServerTools), count : 0 .. NumTools]
HealthRecord == [connected : BOOLEAN, count : 0 .. NumTools,
                 error : {"none", "spawn", "initialize", "tools/list"}]

ManagerTypes ==
    /\ phase \in {"starting", "running", "closing", "closed"}
    /\ starter \in [Servers -> StarterRecord]
    /\ proc \in [Servers -> {"none", "alive", "exited"}]
    /\ clients \subseteq Enabled
    /\ health \in [Servers -> HealthRecord] /\ published \in [Servers -> HealthRecord]

\* An order lists a tool once, and only tools that their server has registered.
Lists(q, starts) ==
    /\ q \in Seq(ServerTools) /\ IsInjective(q)
    /\ \A i \in DOMAIN q : q[i][2] <= starts[q[i][1]].count

\* This holds of the order in the registry and of every order read before
\* another goroutine replaced it.
ManagerOrders ==
    Lists(order, starter) /\ \A s \in Servers : Lists(starter[s].seen, starter)

\* How far a start has come says what it leaves behind.
ManagerStarts ==
    \A s \in Servers :
        /\ starter[s].pc = "idle" <=> s \notin Enabled
        /\ starter[s].pc \in {"idle", "spawn"} => proc[s] # "alive"
        /\ starter[s].pc = "append" => starter[s].count < NumTools
        /\ starter[s].count > 0 =>
             starter[s].pc \in {"register", "append", "connect"} \/ s \in clients
        /\ s \in clients => starter[s].pc = "done"
        /\ starter[s].pc = "done" =>
             s \in clients \/ (health[s].error # "none" /\ proc[s] # "alive")

ManagerShown ==
    /\ \A s \in Servers : published[s].connected \/ health[s].connected => s \in clients
    /\ phase # "starting" => \A s \in Enabled : starter[s].pc = "done"
    /\ NoOrphanProcess

ManagerInv == ManagerTypes /\ ManagerOrders /\ ManagerStarts /\ ManagerShown

\* A start moves on.
LEMMA StarterGoes ==
  ASSUME NEW f \in [Servers -> StarterRecord], NEW s \in Servers, NEW p \in StarterLabels
  PROVE  [f EXCEPT ![s].pc = p] \in [Servers -> StarterRecord]
  BY Zenon DEF StarterRecord

\* A failed start shows in the health map.
LEMMA HealthFails ==
  ASSUME NEW f \in [Servers -> HealthRecord], NEW s \in Servers,
         NEW why \in {"spawn", "initialize", "tools/list"}
  PROVE  [f EXCEPT ![s].connected = FALSE, ![s].error = why] \in [Servers -> HealthRecord]
<1>1. [f EXCEPT ![s].connected = FALSE] \in [Servers -> HealthRecord]
  BY Zenon DEF HealthRecord
<1>2. [[f EXCEPT ![s].connected = FALSE] EXCEPT ![s].error = why] \in [Servers -> HealthRecord]
  BY <1>1, Zenon DEF HealthRecord
<1>3. QED
  BY <1>2, Zenon

\* What publishHealth computes is a health map.
LEMMA RefreshedTypes ==
  ASSUME ManagerTypes
  PROVE  /\ Refreshed \in [Servers -> HealthRecord]
         /\ \A s \in Servers : Refreshed[s].connected => health[s].connected \/ s \in clients
         /\ \A s \in Servers : Refreshed[s].error = health[s].error
<1>1. ASSUME NEW s \in Servers
      PROVE  /\ [health[s] EXCEPT !.connected = (proc[s] = "alive")] \in HealthRecord
             /\ [health[s] EXCEPT !.connected = (proc[s] = "alive")].error = health[s].error
  <2>1. health[s] \in HealthRecord
    BY Zenon DEF ManagerTypes
  <2>2. QED
    BY <2>1, Zenon DEF HealthRecord
<1>2. \A s \in Servers : health[s] \in HealthRecord
  BY Zenon DEF ManagerTypes
<1>3. QED
  BY <1>1, <1>2, Zenon DEF Refreshed

\* A step of startOne, as what it does to its own server: it starts or closes
\* the process, fails, registers a tool, or connects.
StarterStep(s, pc) ==
    /\ starter'[s].pc = pc /\ starter'[s].seen = starter[s].seen
    /\ starter'[s].count = starter[s].count
    /\ \A t \in Servers : t # s => starter'[t] = starter[t]

HealthFailed(s) ==
    /\ health'[s].connected = FALSE /\ health'[s].error # "none"
    /\ \A t \in Servers : t # s => health'[t] = health[t]

ProcStep(s, to) == proc'[s] = to /\ \A t \in Servers : t # s => proc'[t] = proc[t]

Spawns(s) ==
    /\ starter[s].pc = "spawn" /\ ProcStep(s, "alive") /\ StarterStep(s, "initialize")
    /\ UNCHANGED <<phase, clients, health, order, published>>
Fails(s) ==
    /\ \/ starter[s].pc = "spawn" /\ UNCHANGED proc
       \/ starter[s].pc \in {"initialize", "list"} /\ ProcStep(s, "exited")
    /\ StarterStep(s, "done") /\ HealthFailed(s)
    /\ UNCHANGED <<phase, clients, order, published>>
GoesOn(s) ==
    /\ \/ starter[s].pc = "initialize" /\ StarterStep(s, "list")
       \/ starter[s].pc = "list" /\ StarterStep(s, "register")
       \/ starter[s].pc = "register" /\ StarterStep(s, "connect")
    /\ UNCHANGED <<phase, proc, clients, health, order, published>>
Reads(s) ==
    /\ starter[s].pc = "register" /\ starter[s].count < NumTools
    /\ starter'[s].pc = "append" /\ starter'[s].seen = order
    /\ starter'[s].count = starter[s].count
    /\ \A t \in Servers : t # s => starter'[t] = starter[t]
    /\ UNCHANGED <<phase, proc, clients, health, order, published>>
Appends(s) ==
    /\ starter[s].pc = "append" /\ starter'[s].pc = "register"
    /\ order' = Append(starter[s].seen, NextTool(s))
    /\ starter'[s].seen = starter[s].seen /\ starter'[s].count = starter[s].count + 1
    /\ \A t \in Servers : t # s => starter'[t] = starter[t]
    /\ UNCHANGED <<phase, proc, clients, health, published>>
Connects(s) ==
    /\ starter[s].pc = "connect" /\ StarterStep(s, "done") /\ clients' = clients \cup {s}
    /\ health'[s].connected = TRUE /\ \A t \in Servers : t # s => health'[t] = health[t]
    /\ UNCHANGED <<phase, proc, order, published>>
Publishes ==
    /\ \/ phase = "starting" /\ StartsOver /\ phase' = "running"
       \/ phase = "running" /\ phase' = "running"
    /\ health' = Refreshed /\ published' \in {published, Refreshed}
    /\ UNCHANGED <<starter, proc, clients, order>>
Exits(s) ==
    /\ proc[s] = "alive" /\ ProcStep(s, "exited")
    /\ UNCHANGED <<phase, starter, clients, health, order, published>>

\* Every step of the manager is of one of these kinds and keeps the shapes.
LEMMA ManagerSteps ==
  ASSUME MCPManagerAssumption, ManagerTypes, ManagerStarts, ManagerOrders, [ManagerNext]_(managerVars)
  PROVE  /\ \/ \E s \in Servers : \/ Spawns(s) \/ Fails(s) \/ GoesOn(s) \/ Reads(s) \/ Appends(s)
                                  \/ Connects(s) \/ Exits(s)
            \/ Publishes \/ Close \/ CloseClients \/ UNCHANGED managerVars
         /\ ManagerTypes'
<1> DEFINE Kind == \/ \E s \in Servers : \/ Spawns(s) \/ Fails(s) \/ GoesOn(s) \/ Reads(s)
                                         \/ Appends(s) \/ Connects(s) \/ Exits(s)
                   \/ Publishes \/ Close \/ CloseClients \/ UNCHANGED managerVars
           Goal == Kind /\ ManagerTypes'
<1>a. /\ starter \in [Servers -> StarterRecord] /\ health \in [Servers -> HealthRecord]
      /\ proc \in [Servers -> {"none", "alive", "exited"}]
  BY Zenon DEF ManagerTypes
<1>b. ASSUME NEW s \in Servers, NEW p \in StarterLabels, StarterTo(s, p)
      PROVE  starter' \in [Servers -> StarterRecord] /\ StarterStep(s, p)
  <2>1. starter' \in [Servers -> StarterRecord]
    BY <1>a, <1>b, StarterGoes, Zenon DEF StarterTo
  <2>2. StarterStep(s, p)
    BY <1>a, <1>b, Zenon DEF StarterTo, StarterStep, StarterRecord
  <2>3. QED
    BY <2>1, <2>2, Zenon
<1>c. ASSUME NEW s \in Servers, NEW why \in {"spawn", "initialize", "tools/list"},
             setFailure(s, why)
      PROVE  /\ health' \in [Servers -> HealthRecord] /\ HealthFailed(s)
             /\ StarterTo(s, "done")
  <2>1. health' = [health EXCEPT ![s].connected = FALSE, ![s].error = why] /\ StarterTo(s, "done")
    BY <1>c, Zenon DEF setFailure
  <2>2. health' \in [Servers -> HealthRecord]
    BY <1>a, <2>1, HealthFails, Zenon
  <2>3. HealthFailed(s)
    BY <1>a, <2>1, Zenon DEF HealthFailed, HealthRecord
  <2>4. QED
    BY <2>1, <2>2, <2>3, Zenon
<1>d. {"initialize", "list", "register", "append", "connect", "done"} \subseteq StarterLabels
  BY Zenon DEF StarterLabels
<1>e. ASSUME NEW s \in Servers, NEW to \in {"alive", "exited"}, proc' = [proc EXCEPT ![s] = to]
      PROVE  proc' \in [Servers -> {"none", "alive", "exited"}] /\ ProcStep(s, to)
  BY <1>a, <1>e, Zenon DEF ProcStep
<1>1. ASSUME NEW s \in Servers, NewClient(s) PROVE Goal
  <2>1. CASE proc' = [proc EXCEPT ![s] = "alive"] /\ StarterTo(s, "initialize") /\ UNCHANGED health
    BY <1>1, <1>b, <1>d, <1>e, <2>1, Zenon DEF NewClient, Spawns, ManagerTypes
  <2>2. CASE setFailure(s, "spawn") /\ UNCHANGED proc
    <3>1. HealthFailed(s) /\ health' \in [Servers -> HealthRecord] /\ StarterStep(s, "done")
            /\ starter' \in [Servers -> StarterRecord]
      BY <1>b, <1>c, <1>d, <2>2, Zenon
    <3>2. QED
      BY <1>1, <2>2, <3>1, Zenon DEF NewClient, Fails, ManagerTypes
  <2>3. QED
    BY <1>1, <2>1, <2>2, Zenon DEF NewClient
<1>2. ASSUME NEW s \in Servers, Initialize(s) PROVE Goal
  <2>1. CASE StarterTo(s, "list") /\ UNCHANGED <<proc, health>>
    BY <1>2, <1>b, <1>d, <2>1, Zenon DEF Initialize, GoesOn, ManagerTypes
  <2>2. CASE proc' = CloseFailed(s) /\ setFailure(s, "initialize")
    <3>1. HealthFailed(s) /\ health' \in [Servers -> HealthRecord] /\ StarterStep(s, "done")
            /\ starter' \in [Servers -> StarterRecord]
      BY <1>b, <1>c, <1>d, <2>2, Zenon
    <3>2. proc' \in [Servers -> {"none", "alive", "exited"}] /\ ProcStep(s, "exited")
      BY <1>e, <2>2, Zenon DEF CloseFailed
    <3>3. QED
      BY <1>2, <2>2, <3>1, <3>2, Zenon DEF Initialize, Fails, ManagerTypes
  <2>3. QED
    BY <1>2, <2>1, <2>2, Zenon DEF Initialize
<1>3. ASSUME NEW s \in Servers, ListTools(s) PROVE Goal
  <2>1. CASE StarterTo(s, "register") /\ UNCHANGED <<proc, health>>
    BY <1>3, <1>b, <1>d, <2>1, Zenon DEF ListTools, GoesOn, ManagerTypes
  <2>2. CASE proc' = CloseFailed(s) /\ setFailure(s, "tools/list")
    <3>1. HealthFailed(s) /\ health' \in [Servers -> HealthRecord] /\ StarterStep(s, "done")
            /\ starter' \in [Servers -> StarterRecord]
      BY <1>b, <1>c, <1>d, <2>2, Zenon
    <3>2. proc' \in [Servers -> {"none", "alive", "exited"}] /\ ProcStep(s, "exited")
      BY <1>e, <2>2, Zenon DEF CloseFailed
    <3>3. QED
      BY <1>3, <2>2, <3>1, <3>2, Zenon DEF ListTools, Fails, ManagerTypes
  <2>3. QED
    BY <1>3, <2>1, <2>2, Zenon DEF ListTools
<1>4. ASSUME NEW s \in Servers, RegisterMCP(s) PROVE Goal
  <2>1. CASE starter[s].count < NumTools
    <3>1. starter' = [starter EXCEPT ![s].pc = "append", ![s].seen = order]
      BY <1>4, <2>1, Zenon DEF RegisterMCP
    <3>2. starter' \in [Servers -> StarterRecord]
      <4>1. [starter EXCEPT ![s].pc = "append"] \in [Servers -> StarterRecord]
        BY <1>a, <1>d, StarterGoes, Zenon
      <4>2. [[starter EXCEPT ![s].pc = "append"] EXCEPT ![s].seen = order]
              \in [Servers -> StarterRecord]
        BY <4>1, Zenon DEF StarterRecord, ManagerOrders, Lists
      <4>3. QED
        BY <3>1, <4>2, Zenon
    <3>3. /\ starter'[s].pc = "append" /\ starter'[s].seen = order
          /\ starter'[s].count = starter[s].count
          /\ \A t \in Servers : t # s => starter'[t] = starter[t]
      BY <1>a, <3>1, Zenon DEF StarterRecord
    <3>4. QED
      BY <1>4, <2>1, <3>2, <3>3, Zenon DEF RegisterMCP, Reads, ManagerTypes
  <2>2. CASE ~ (starter[s].count < NumTools)
    <3>1. StarterTo(s, "connect")
      BY <1>4, <2>2, Zenon DEF RegisterMCP, StarterTo
    <3>2. QED
      BY <1>4, <1>b, <1>d, <3>1, Zenon DEF RegisterMCP, GoesOn, ManagerTypes
  <2>3. QED
    BY <2>1, <2>2, Zenon
<1>5. ASSUME NEW s \in Servers, Register(s) PROVE Goal
  <2>1. /\ starter' = [starter EXCEPT ![s].pc = "register", ![s].count = @ + 1]
        /\ starter[s].count \in 0 .. NumTools /\ starter[s].count < NumTools
    BY <1>5, <1>a, Zenon DEF Register, ManagerStarts, StarterRecord
  <2>2. starter[s].count + 1 \in 0 .. NumTools
    BY <2>1 DEF MCPManagerAssumption
  <2>3. starter' \in [Servers -> StarterRecord]
    <3>1. [starter EXCEPT ![s].pc = "register"] \in [Servers -> StarterRecord]
      BY <1>a, <1>d, StarterGoes, Zenon
    <3>2. [[starter EXCEPT ![s].pc = "register"] EXCEPT ![s].count = starter[s].count + 1]
            \in [Servers -> StarterRecord]
      BY <2>2, <3>1, Zenon DEF StarterRecord
    <3>3. starter' = [[starter EXCEPT ![s].pc = "register"] EXCEPT ![s].count = starter[s].count + 1]
      BY <1>a, <2>1, Zenon DEF StarterRecord
    <3>4. QED
      BY <3>2, <3>3, Zenon
  <2>4. /\ starter'[s].pc = "register" /\ starter'[s].seen = starter[s].seen
        /\ starter'[s].count = starter[s].count + 1
        /\ \A t \in Servers : t # s => starter'[t] = starter[t]
    BY <1>a, <2>1, Zenon DEF StarterRecord
  <2>5. QED
    BY <1>5, <2>3, <2>4, Zenon DEF Register, Appends, ManagerTypes
<1>6. ASSUME NEW s \in Servers, Connect(s) PROVE Goal
  <2>1. StarterStep(s, "done") /\ starter' \in [Servers -> StarterRecord]
    BY <1>6, <1>b, <1>d, Zenon DEF Connect
  <2>2. [connected |-> TRUE, count |-> starter[s].count, error |-> "none"] \in HealthRecord
    BY <1>a, Zenon DEF HealthRecord, StarterRecord
  <2>3. /\ health' \in [Servers -> HealthRecord] /\ health'[s].connected = TRUE
        /\ \A t \in Servers : t # s => health'[t] = health[t]
    BY <1>6, <1>a, <2>2, Zenon DEF Connect
  <2>4. s \in Enabled
    BY <1>6, Zenon DEF Connect, ManagerStarts
  <2>5. QED
    BY <1>6, <2>1, <2>3, <2>4, Zenon DEF Connect, Connects, ManagerTypes
<1>7. ASSUME EndStart \/ \E ok \in BOOLEAN : Heartbeat(ok) PROVE Goal
  BY <1>7, RefreshedTypes, Zenon DEF EndStart, Heartbeat, publishHealth, Publishes, ManagerTypes
<1>8. ASSUME NEW s \in Servers, ServerExits(s) PROVE Goal
  BY <1>8, <1>e, Zenon DEF ServerExits, Exits, ManagerTypes
<1>9. CASE Close
  BY <1>9, Zenon DEF Close, ManagerTypes
<1>10. CASE CloseClients
  BY <1>10, <1>a, Zenon DEF CloseClients, ManagerTypes
<1>11. CASE UNCHANGED managerVars
  BY <1>11, Zenon DEF managerVars, ManagerTypes
<1>12. QED
  BY <1>1, <1>2, <1>3, <1>4, <1>5, <1>6, <1>7, <1>8, <1>9, <1>10, <1>11, Zenon
     DEF ManagerNext, StartOne

\* An order stays one while the servers register more tools ...
LEMMA ListsKept ==
  ASSUME NEW a \in [Servers -> StarterRecord], NEW b \in [Servers -> StarterRecord], NEW q,
         Lists(q, a), \A s \in Servers : b[s].count >= a[s].count
  PROVE  Lists(q, b)
<1>1. ASSUME NEW i \in DOMAIN q PROVE q[i][2] <= b[q[i][1]].count
  <2>1. q[i] \in ServerTools
    BY SMTT(30) DEF Lists
  <2>2. q[i][1] \in Servers /\ q[i][2] \in Nat
    BY <2>1, SMTT(30) DEF ServerTools
  <2>3. a[q[i][1]].count \in Int /\ b[q[i][1]].count \in Int
    BY <2>2, SMTT(30) DEF StarterRecord
  <2>4. q[i][2] <= a[q[i][1]].count
    BY Zenon DEF Lists
  <2>5. QED
    BY <2>2, <2>3, <2>4, SMTT(30)
<1>2. QED
  BY <1>1, Zenon DEF Lists

\* ... and when the next tool of one of them is added.
LEMMA ListsNext ==
  ASSUME MCPManagerAssumption,
         NEW a \in [Servers -> StarterRecord], NEW b \in [Servers -> StarterRecord],
         NEW q, Lists(q, a), NEW s \in Servers, a[s].count < NumTools,
         b[s].count = a[s].count + 1, \A t \in Servers : t # s => b[t] = a[t]
  PROVE  Lists(Append(q, <<s, a[s].count + 1>>), b)
<1> DEFINE n == a[s].count
           x == <<s, n + 1>>
           r == Append(q, x)
<1>0. n \in 0 .. NumTools /\ NumTools \in Nat
  BY Zenon DEF StarterRecord, MCPManagerAssumption
<1>1. x \in ServerTools
  BY <1>0, SMTT(30) DEF ServerTools
<1>2. q \in Seq(ServerTools)
  BY Zenon DEF Lists
<1>3. /\ r \in Seq(ServerTools) /\ DOMAIN r = 1 .. Len(q) + 1 /\ r[Len(q) + 1] = x
      /\ \A i \in 1 .. Len(q) : r[i] = q[i]
  BY <1>1, <1>2, SMTT(30)
<1>4. DOMAIN q = 1 .. Len(q) /\ Len(q) \in Nat
  BY <1>2, SMTT(30)
<1>5. \A t \in Servers : b[t].count >= a[t].count
  <2>1. \A t \in Servers : a[t].count \in Int
    BY SMTT(30) DEF StarterRecord
  <2>2. QED
    BY <2>1, SMTT(30)
<1>6. Lists(q, b)
  BY <1>5, ListsKept, Zenon
<1>7. ASSUME NEW i \in 1 .. Len(q) PROVE q[i] # x
  <2>1. q[i][2] <= a[q[i][1]].count
    BY <1>4, Zenon DEF Lists
  <2>2. x[1] = s /\ x[2] = n + 1
    BY Zenon
  <2>3. ~ (n + 1 <= n)
    BY <1>0, SMTT(30)
  <2> HIDE DEF x
  <2>4. QED
    BY <2>1, <2>2, <2>3, Zenon
<1>8. IsInjective(r)
  <2> SUFFICES ASSUME NEW i \in DOMAIN r, NEW j \in DOMAIN r, r[i] = r[j] PROVE i = j
    BY Zenon DEF IsInjective
  <2> HIDE DEF r, x
  <2>1. CASE i \in 1 .. Len(q) /\ j \in 1 .. Len(q)
    BY <1>3, <1>4, <2>1, Zenon DEF Lists, IsInjective
  <2>2. CASE i = Len(q) + 1 /\ j \in 1 .. Len(q)
    BY <1>3, <1>7, <2>2, Zenon
  <2>3. CASE j = Len(q) + 1 /\ i \in 1 .. Len(q)
    BY <1>3, <1>7, <2>3, Zenon
  <2>4. QED
    BY <1>3, <1>4, <2>1, <2>2, <2>3, SMTT(30)
<1>9. ASSUME NEW i \in DOMAIN r PROVE r[i][2] <= b[r[i][1]].count
  <2>1. CASE i \in 1 .. Len(q)
    BY <1>3, <1>4, <1>6, <2>1, Zenon DEF Lists
  <2>2. CASE i = Len(q) + 1
    <3>1. r[i] = x /\ x[1] = s /\ x[2] = n + 1
      BY <1>3, <2>2, Zenon
    <3>2. n + 1 <= b[s].count
      BY <1>0, SMTT(30)
    <3> HIDE DEF r, x
    <3>3. QED
      BY <3>1, <3>2, Zenon
  <2>3. QED
    BY <1>3, <1>4, <2>1, <2>2, SMTT(30)
<1>10. QED
  BY <1>3, <1>8, <1>9, Zenon DEF Lists

\* Every step keeps orders of what is registered, the stale ones included.
LEMMA ManagerOrdersStep ==
  ASSUME MCPManagerAssumption, ManagerInv, [ManagerNext]_(managerVars)
  PROVE  ManagerOrders'
<1>a. /\ starter \in [Servers -> StarterRecord] /\ starter' \in [Servers -> StarterRecord]
      /\ ManagerOrders /\ \A s \in Servers : starter[s].count \in Int
  <2>1. ManagerTypes /\ ManagerOrders
    BY Zenon DEF ManagerInv
  <2>2. ManagerTypes'
    BY ManagerSteps, Zenon DEF ManagerInv
  <2>3. starter \in [Servers -> StarterRecord] /\ starter' \in [Servers -> StarterRecord]
    BY <2>1, <2>2, Zenon DEF ManagerTypes
  <2>4. \A s \in Servers : starter[s].count \in Int
    BY <2>3 DEF StarterRecord
  <2>5. QED
    BY <2>1, <2>3, <2>4, Zenon
<1>b. ASSUME order' = order, \A s \in Servers : starter'[s].count >= starter[s].count,
             \A s \in Servers : starter'[s].seen \in {starter[s].seen, order}
      PROVE  ManagerOrders'
  <2>1. Lists(order, starter')
    BY <1>a, <1>b, ListsKept, Zenon DEF ManagerOrders
  <2>2. \A s \in Servers : Lists(starter[s].seen, starter')
    BY <1>a, <1>b, ListsKept, Zenon DEF ManagerOrders
  <2>3. QED
    BY <1>b, <2>1, <2>2, Zenon DEF ManagerOrders
<1>1. ASSUME NEW s \in Servers, Spawns(s) \/ Fails(s) \/ GoesOn(s) \/ Connects(s) \/ Exits(s)
      PROVE  ManagerOrders'
  <2>1. order' = order /\ \A t \in Servers : starter'[t].count = starter[t].count
                                              /\ starter'[t].seen = starter[t].seen
    BY <1>1, Zenon DEF Spawns, Fails, GoesOn, Connects, Exits, StarterStep
  <2>2. QED
    BY <1>a, <1>b, <2>1, SMTT(30)
<1>2. ASSUME NEW s \in Servers, Reads(s) PROVE ManagerOrders'
  <2>1. order' = order /\ \A t \in Servers : starter'[t].count = starter[t].count
                                              /\ starter'[t].seen \in {starter[t].seen, order}
    BY <1>2, Zenon DEF Reads
  <2>2. QED
    BY <1>a, <1>b, <2>1, SMTT(30)
<1>3. ASSUME NEW s \in Servers, Appends(s) PROVE ManagerOrders'
  <2>1. /\ starter[s].count < NumTools /\ starter'[s].count = starter[s].count + 1
        /\ \A t \in Servers : t # s => starter'[t] = starter[t]
        /\ order' = Append(starter[s].seen, <<s, starter[s].count + 1>>)
        /\ \A t \in Servers : starter'[t].seen = starter[t].seen
    BY <1>3, Zenon DEF Appends, NextTool, ManagerInv, ManagerStarts
  <2>2. Lists(starter[s].seen, starter)
    BY <1>a, Zenon DEF ManagerOrders
  <2>3. Lists(Append(starter[s].seen, <<s, starter[s].count + 1>>), starter')
    BY <1>a, <2>1, <2>2, ListsNext, Zenon
  <2>4. \A t \in Servers : starter'[t].count >= starter[t].count
    BY <1>a, <2>1, SMTT(30)
  <2>5. \A t \in Servers : Lists(starter[t].seen, starter')
    BY <1>a, <2>4, ListsKept, Zenon DEF ManagerOrders
  <2>6. QED
    BY <2>1, <2>3, <2>5, Zenon DEF ManagerOrders
<1>4. CASE Publishes \/ Close \/ CloseClients \/ UNCHANGED managerVars
  <2>1. order' = order /\ starter' = starter
    BY <1>4, Zenon DEF Publishes, Close, CloseClients, managerVars
  <2>2. QED
    BY <1>a, <1>b, <2>1, SMTT(30)
<1>5. QED
  BY <1>1, <1>2, <1>3, <1>4, ManagerSteps, Zenon DEF ManagerInv

\* Every step keeps what a start has left behind in line with its progress.
LEMMA ManagerStartsStep ==
  ASSUME MCPManagerAssumption, ManagerInv, [ManagerNext]_(managerVars)
  PROVE  ManagerStarts'
<1>a. ManagerStarts /\ clients \subseteq Servers /\ (phase # "starting" => StartsOver)
        /\ \A s \in Servers : starter[s].count \in 0 .. NumTools
  BY Zenon DEF ManagerInv, ManagerShown, StartsOver, ManagerTypes, MCPManagerAssumption,
         StarterRecord
<1>b. \A s \in Servers : Refreshed[s].error = health[s].error
  BY RefreshedTypes, Zenon DEF ManagerInv
<1> USE DEF ManagerStarts
<1>1. ASSUME NEW s \in Servers, Spawns(s) PROVE ManagerStarts'
  BY <1>1, <1>a, Zenon DEF Spawns, StarterStep, ProcStep
<1>2. ASSUME NEW s \in Servers, Fails(s) PROVE ManagerStarts'
  BY <1>2, <1>a, SMTT(30) DEF Fails, StarterStep, ProcStep, HealthFailed
<1>3. ASSUME NEW s \in Servers, GoesOn(s) PROVE ManagerStarts'
  BY <1>3, <1>a, Zenon DEF GoesOn, StarterStep
<1>4. ASSUME NEW s \in Servers, Reads(s) PROVE ManagerStarts'
  BY <1>4, <1>a, Zenon DEF Reads
<1>5. ASSUME NEW s \in Servers, Appends(s) PROVE ManagerStarts'
  BY <1>5, <1>a, Zenon DEF Appends
<1>6. ASSUME NEW s \in Servers, Connects(s) PROVE ManagerStarts'
  BY <1>6, <1>a, SMTT(30) DEF Connects, StarterStep
<1>7. ASSUME NEW s \in Servers, Exits(s) PROVE ManagerStarts'
  BY <1>7, <1>a, Zenon DEF Exits, ProcStep
<1>8. CASE Publishes
  BY <1>8, <1>a, <1>b, Zenon DEF Publishes
<1>9. CASE Close
  BY <1>9, <1>a, Zenon DEF Close
<1>10. CASE CloseClients
  BY <1>10, <1>a, Zenon DEF CloseClients
<1>11. CASE UNCHANGED managerVars
  BY <1>11, <1>a, Zenon DEF managerVars
<1>12. QED
  BY <1>1, <1>2, <1>3, <1>4, <1>5, <1>6, <1>7, <1>8, <1>9, <1>10, <1>11, ManagerSteps, Zenon
     DEF ManagerInv

\* Every step keeps the health map, the snapshot and the processes in line with
\* the clients.
LEMMA ManagerShownStep ==
  ASSUME MCPManagerAssumption, ManagerInv, [ManagerNext]_(managerVars)
  PROVE  ManagerShown'
<1>a. ManagerShown /\ ManagerStarts /\ Enabled \subseteq Servers
        /\ proc \in [Servers -> {"none", "alive", "exited"}]
  BY Zenon DEF ManagerInv, ManagerTypes, MCPManagerAssumption
<1>b. \A s \in Servers : Refreshed[s].connected => health[s].connected \/ s \in clients
  BY RefreshedTypes, Zenon DEF ManagerInv
<1> USE DEF ManagerShown, NoOrphanProcess
<1>1. ASSUME NEW s \in Servers, Spawns(s) PROVE ManagerShown'
  BY <1>1, <1>a, Zenon DEF Spawns, StarterStep, ProcStep, ManagerStarts
<1>2. ASSUME NEW s \in Servers, Fails(s) PROVE ManagerShown'
  BY <1>2, <1>a, Zenon DEF Fails, StarterStep, ProcStep, HealthFailed
<1>3. ASSUME NEW s \in Servers, GoesOn(s) PROVE ManagerShown'
  BY <1>3, <1>a, Zenon DEF GoesOn, StarterStep, ManagerStarts
<1>4. ASSUME NEW s \in Servers, Reads(s) PROVE ManagerShown'
  BY <1>4, <1>a, Zenon DEF Reads, ManagerStarts
<1>5. ASSUME NEW s \in Servers, Appends(s) PROVE ManagerShown'
  BY <1>5, <1>a, Zenon DEF Appends, ManagerStarts
<1>6. ASSUME NEW s \in Servers, Connects(s) PROVE ManagerShown'
  BY <1>6, <1>a, Zenon DEF Connects, StarterStep
<1>7. ASSUME NEW s \in Servers, Exits(s) PROVE ManagerShown'
  BY <1>7, <1>a, Zenon DEF Exits, ProcStep
<1>8. CASE Publishes
  BY <1>8, <1>a, <1>b, Zenon DEF Publishes, StartsOver
<1>9. CASE Close
  BY <1>9, <1>a, Zenon DEF Close
<1>10. CASE CloseClients
  BY <1>10, <1>a, Zenon DEF CloseClients, ManagerStarts
<1>11. CASE UNCHANGED managerVars
  BY <1>11, <1>a, Zenon DEF managerVars
<1>12. QED
  BY <1>1, <1>2, <1>3, <1>4, <1>5, <1>6, <1>7, <1>8, <1>9, <1>10, <1>11, ManagerSteps, Zenon
     DEF ManagerInv

\* However many servers start at once, fail or exit: the registry lists tools of
\* started servers only and each once, no subprocess outlives the manager, and
\* the snapshot calls no server connected before its handshake (manager.go).
THEOREM ServersAreSound ==
  ASSUME MCPManagerAssumption
  PROVE  ManagerSpec => []ServersSound
<1>1. ManagerInit => ManagerInv
  <2> SUFFICES ASSUME ManagerInit PROVE ManagerInv
    BY Zenon
  <2>1. \A s \in Servers : /\ starter[s].pc = (IF s \in Enabled THEN "spawn" ELSE "idle")
                           /\ starter[s].seen = <<>> /\ starter[s].count = 0
    BY Zenon DEF ManagerInit, Starts
  <2>2. NoHealth \in HealthRecord
    BY SMTT(30) DEF NoHealth, HealthRecord, MCPManagerAssumption
  <2>3. ManagerTypes
    <3>1. starter \in [Servers -> StarterRecord]
      BY SMTT(30) DEF ManagerInit, Starts, StarterRecord, StarterLabels, MCPManagerAssumption
    <3>2. QED
      BY <2>2, <3>1, Zenon DEF ManagerInit, ManagerTypes
  <2>4. Lists(<<>>, starter)
    BY SMTT(30) DEF Lists, IsInjective
  <2>5. ManagerOrders
    BY <2>1, <2>4, Zenon DEF ManagerInit, ManagerOrders
  <2>6. ManagerStarts
    BY <2>1, SMTT(30) DEF ManagerInit, ManagerStarts
  <2>7. ManagerShown
    BY Zenon DEF ManagerInit, ManagerShown, NoOrphanProcess, NoHealth
  <2>8. QED
    BY <2>3, <2>5, <2>6, <2>7, Zenon DEF ManagerInv
<1>2. ManagerInv /\ [ManagerNext]_(managerVars) => ManagerInv'
  BY ManagerSteps, ManagerOrdersStep, ManagerStartsStep, ManagerShownStep, Zenon DEF ManagerInv
<1>3. ManagerInv => ServersSound
  <2> SUFFICES ASSUME ManagerInv PROVE ServersSound
    BY Zenon
  <2>1. ManagerTypeOK
    BY Zenon DEF ManagerInv, ManagerTypes, ManagerOrders, Lists, StarterRecord, StarterLabels, HealthRecord,
           ManagerTypeOK
  <2>2. OnlyStartedTools
    <3> SUFFICES ASSUME NEW s \in Servers, NEW i \in DOMAIN order, order[i][1] = s
                 PROVE  /\ s \in Enabled
                        /\ starter[s].pc \in {"register", "append", "connect"} \/ s \in clients
      BY Zenon DEF OnlyStartedTools
    <3>1. order[i] \in ServerTools /\ order[i][2] <= starter[s].count
      BY SMTT(30) DEF ManagerInv, ManagerOrders, Lists
    <3>2. order[i][2] > 0 /\ starter[s].count \in Int /\ order[i][2] \in Int
      BY <3>1, SMTT(30) DEF ServerTools, ManagerInv, ManagerTypes, StarterRecord
    <3>3. starter[s].count > 0
      BY <3>1, <3>2, SMTT(30)
    <3>4. QED
      BY <3>3, Zenon DEF ManagerInv, ManagerStarts
  <2>3. NoOrphanProcess /\ SnapshotFaithful
    BY Zenon DEF ManagerInv, ManagerShown, ManagerStarts, ManagerTypes, SnapshotFaithful,
           MCPManagerAssumption
  <2>4. QED
    BY <2>1, <2>2, <2>3, Zenon DEF ServersSound
<1>4. QED
  BY <1>1, <1>2, <1>3, PTL DEF ManagerSpec
=============================================================================
