---------------------------- MODULE ExecWorkspace ----------------------------
(***************************************************************************)
(* The per-invocation workspaces of POST /v1/run (internal/exec/           *)
(* workspace.go, runner.go and gc.go): a run makes /workspace/<session>/   *)
(* <invocation>, spawns its script, writes .metadata.json and answers,     *)
(* while a sweep removes the workspaces whose retention has passed.        *)
(*                                                                         *)
(* Time appears as two events: a run's deadline fires, and the retention   *)
(* of an ended workspace passes.  Retention is at least a minute, so it    *)
(* does not pass between a run's last two steps.                           *)
(***************************************************************************)
EXTENDS Naturals, FiniteSets

CONSTANTS
    Invs,       \* invocations: calls of Runner.Run
    RunSessions, \* sanitized session ids
    SessionOf,  \* the session of an invocation
    MaxFaults   \* bound: writes that find the tmpfs full

\* What the constants satisfy.
ExecWorkspaceAssumption == SessionOf \in [Invs -> RunSessions] /\ MaxFaults \in Nat

VARIABLES
    sessDirs,   \* the session directories that exist
    ws,         \* invocation -> its directory
    run,        \* invocation -> its Runner.Run
    expired,    \* the invocations whose retention has passed
    wsGC,       \* GC.RunOnce
    faults

workspaceVars == <<sessDirs, ws, run, expired, wsGC, faults>>

NoSession == "none"

\* A workspace is "open" until its metadata is written, "ended" after, and
\* "torn" when the metadata could not be written.
WsStates == {"none", "open", "ended", "torn"}
IdleRun == [pc |-> "idle", ctx |-> "live", proc |-> "none", exit |-> "none"]
WorkspaceIdleGC == [pc |-> "idle", left |-> {}, cur |-> NoSession, invs |-> {}, inv |-> NoSession,
           old |-> {}]

\* Types; and whatever exists in a session directory keeps it in being.
WorkspaceTypeOK ==
    /\ sessDirs \subseteq RunSessions
    /\ ws \in [Invs -> WsStates]
    /\ \A i \in Invs :
        /\ run[i].pc \in {"idle", "session", "mkdir", "spawn", "wait", "finalize",
                          "respond", "done", "refused", "full"}
        /\ run[i].proc \in {"none", "alive", "exited", "failed", "killed"}
        /\ run[i].ctx \in {"live", "deadline", "cancelled"}
        /\ run[i].exit \in {"none", "zero", "nonzero", "minusone"}
    /\ wsGC.pc \in {"idle", "session", "inv", "remove"}
    /\ \A i \in Invs : ws[i] # "none" => SessionOf[i] \in sessDirs

WorkspaceInit ==
    /\ sessDirs = {}
    /\ ws = [i \in Invs |-> "none"]
    /\ run = [i \in Invs |-> IdleRun]
    /\ expired = {}
    /\ wsGC = WorkspaceIdleGC
    /\ faults = 0

RunGoto(i, pc) == run' = [run EXCEPT ![i].pc = pc]
Fault == faults < MaxFaults /\ faults' = faults + 1

-----------------------------------------------------------------------------
(* Runner.Run *)

Start(i) ==
    /\ run[i].pc = "idle"
    /\ RunGoto(i, "session")
    /\ UNCHANGED <<sessDirs, ws, expired, wsGC, faults>>

\* Allocate calls MkdirAll, which first makes the session's directory ...
AllocateSession(i) ==
    /\ run[i].pc = "session"
    /\ \/ /\ sessDirs' = sessDirs \cup {SessionOf[i]}
          /\ RunGoto(i, "mkdir")
          /\ UNCHANGED faults
       \/ /\ Fault
          /\ RunGoto(i, "full")
          /\ UNCHANGED sessDirs
    /\ UNCHANGED <<ws, expired, wsGC>>

\* ... and then the invocation's, which fails if that has gone meanwhile.
Allocate(i) ==
    /\ run[i].pc = "mkdir"
    /\ \/ /\ SessionOf[i] \in sessDirs
          /\ ws' = [ws EXCEPT ![i] = "open"]
          /\ RunGoto(i, "spawn")
          /\ UNCHANGED faults
       \/ /\ SessionOf[i] \notin sessDirs
          /\ RunGoto(i, "refused")
          /\ UNCHANGED <<ws, faults>>
       \/ /\ Fault
          /\ RunGoto(i, "full")
          /\ UNCHANGED ws
    /\ UNCHANGED <<sessDirs, expired, wsGC>>

\* spawn: .stdout, .stderr and the process; failing to make any of them is
\* reported in the envelope.
SpawnScript(i) ==
    /\ run[i].pc = "spawn"
    /\ \/ /\ run' = [run EXCEPT ![i].pc = "wait", ![i].proc = "alive"]
          /\ UNCHANGED faults
       \/ /\ Fault
          /\ run' = [run EXCEPT ![i].pc = "finalize", ![i].exit = "minusone"]
    /\ UNCHANGED <<sessDirs, ws, expired, wsGC>>

\* The script ends by itself, with status 0 or another.
ScriptEnds(i) ==
    /\ run[i].proc = "alive"
    /\ \E p \in {"exited", "failed"} : run' = [run EXCEPT ![i].proc = p]
    /\ UNCHANGED <<sessDirs, ws, expired, wsGC, faults>>

\* The run's context ends: its deadline passed, or the client went away.
ContextEnds(i, why) ==
    /\ run[i].pc = "wait" /\ run[i].ctx = "live"
    /\ run' = [run EXCEPT ![i].ctx = why]
    /\ UNCHANGED <<sessDirs, ws, expired, wsGC, faults>>

\* The goroutine that watches the context kills the process group.
KillGroup_OnCancel(i) ==
    /\ run[i].ctx = "cancelled" /\ run[i].proc = "alive"
    /\ run' = [run EXCEPT ![i].proc = "killed"]
    /\ UNCHANGED <<sessDirs, ws, expired, wsGC, faults>>
KillGroup(i) ==
    /\ run[i].ctx # "live" /\ run[i].proc = "alive"
    /\ run' = [run EXCEPT ![i].proc = "killed"]
    /\ UNCHANGED <<sessDirs, ws, expired, wsGC, faults>>

\* cmd.Wait has returned; the deadline outranks the process's own status,
\* and a process ended by a signal has status -1.
ExitCode_NoKill(r) ==
    IF r.proc = "failed" THEN "nonzero" ELSE "zero"
ExitCode(r) ==
    CASE r.ctx = "deadline" \/ r.proc = "killed" -> "minusone"
      [] r.proc = "exited" -> "zero"
      [] r.proc = "failed" -> "nonzero"

WaitScript(i) ==
    /\ run[i].pc = "wait" /\ run[i].proc # "alive"
    /\ run' = [run EXCEPT ![i].pc = "finalize", ![i].exit = ExitCode(run[i])]
    /\ UNCHANGED <<sessDirs, ws, expired, wsGC, faults>>

\* Finalize writes .metadata.json; its error is dropped.
Finalize(i) ==
    /\ run[i].pc = "finalize"
    /\ \/ /\ ws' = [ws EXCEPT ![i] = "ended"]
          /\ UNCHANGED faults
       \/ /\ Fault
          /\ ws' = [ws EXCEPT ![i] = "torn"]
    /\ RunGoto(i, "respond")
    /\ UNCHANGED <<sessDirs, expired, wsGC>>

\* detectOutputs lists the directory, and the envelope is sent.
Respond(i) ==
    /\ run[i].pc = "respond"
    /\ RunGoto(i, "done")
    /\ UNCHANGED <<sessDirs, ws, expired, wsGC, faults>>

RetentionPasses(i) ==
    /\ run[i].pc = "done" /\ i \notin expired
    /\ expired' = expired \cup {i}
    /\ UNCHANGED <<sessDirs, ws, run, wsGC, faults>>

-----------------------------------------------------------------------------
(* GC.RunOnce: one clock reading, then one directory at a time *)

SweepRuns ==
    /\ wsGC.pc = "idle"
    /\ wsGC' = [WorkspaceIdleGC EXCEPT !.pc = "session", !.left = sessDirs, !.old = expired]
    /\ UNCHANGED <<sessDirs, ws, run, expired, faults>>

RunSweepEnds ==
    /\ wsGC.pc = "session" /\ wsGC.left = {}
    /\ wsGC' = WorkspaceIdleGC
    /\ UNCHANGED <<sessDirs, ws, run, expired, faults>>

SweepSession ==
    /\ wsGC.pc = "session"
    /\ \E s \in wsGC.left :
        wsGC' = [wsGC EXCEPT !.pc = "inv", !.left = wsGC.left \ {s}, !.cur = s,
                         !.invs = {i \in Invs : SessionOf[i] = s /\ ws[i] # "none"}]
    /\ UNCHANGED <<sessDirs, ws, run, expired, faults>>

\* Metadata that reads well, of an invocation that ended long enough ago.
Reclaimable_NoMeta(i) == ws[i] # "none"
Reclaimable_Inverted(i) == ws[i] = "torn" /\ i \in wsGC.old
Reclaimable(i) == ws[i] = "ended" /\ i \in wsGC.old

SweepInvocation ==
    /\ wsGC.pc = "inv"
    /\ \E i \in wsGC.invs :
        wsGC' = [wsGC EXCEPT !.invs = wsGC.invs \ {i}, !.inv = i,
                         !.pc = IF Reclaimable(i) THEN "remove" ELSE "inv"]
    /\ UNCHANGED <<sessDirs, ws, run, expired, faults>>

RemoveWorkspace ==
    /\ wsGC.pc = "remove"
    /\ ws' = [ws EXCEPT ![wsGC.inv] = "none"]
    /\ wsGC' = [wsGC EXCEPT !.pc = "inv"]
    /\ UNCHANGED <<sessDirs, run, expired, faults>>

\* os.Remove of the session directory fails when something is in it.
Removable_Any(s) == TRUE
Removable(s) == \A i \in Invs : SessionOf[i] = s => ws[i] = "none"

RemoveSession ==
    /\ wsGC.pc = "inv" /\ wsGC.invs = {}
    /\ sessDirs' = IF Removable(wsGC.cur) THEN sessDirs \ {wsGC.cur} ELSE sessDirs
    /\ wsGC' = [wsGC EXCEPT !.pc = "session"]
    /\ UNCHANGED <<ws, run, expired, faults>>

-----------------------------------------------------------------------------
Running(i) ==
    \/ AllocateSession(i) \/ Allocate(i) \/ SpawnScript(i) \/ KillGroup(i) \/ WaitScript(i)
    \/ Finalize(i) \/ Respond(i)

WorkspaceCollect == SweepRuns \/ RunSweepEnds \/ SweepSession \/ SweepInvocation \/ RemoveWorkspace \/ RemoveSession

WorkspaceNext ==
    \/ \E i \in Invs : Start(i) \/ Running(i) \/ ScriptEnds(i) \/ RetentionPasses(i)
                        \/ \E why \in {"deadline", "cancelled"} : ContextEnds(i, why)
    \/ WorkspaceCollect

WorkspaceSpec == WorkspaceInit /\ [][WorkspaceNext]_workspaceVars

-----------------------------------------------------------------------------
(* Properties *)

\* A sweep that runs beside an invocation never takes its directory: from
\* Allocate to the answer (which lists it) the workspace is there.
LiveWorkspaceKept ==
    \A i \in Invs :
        run[i].pc \in {"spawn", "wait", "finalize", "respond"} => ws[i] # "none"

\* An envelope with exit code 0 is about a script that ended by itself with
\* status 0: neither a kill nor a spawn that failed looks like success.
ZeroIsSuccess ==
    \A i \in Invs : run[i].exit = "zero" => run[i].proc = "exited" /\ run[i].ctx # "deadline"

\* Every run is answered, whatever its script does: the deadline kills it.
RunEnds == \A i \in Invs : run[i].pc = "session" ~> run[i].pc \in {"done", "refused", "full"}

\* A workspace whose metadata was written is reclaimed in the end.
EndedReclaimed == \A i \in Invs : ws[i] = "ended" ~> ws[i] = "none"

\* The collector never takes the directory of a script run that has not been
\* answered (gc.go, RunOnce), and exit code 0 is never the code of a script that
\* was killed or did not start (runner.go, spawn).
RunsSound == WorkspaceTypeOK /\ LiveWorkspaceKept /\ ZeroIsSuccess
=============================================================================
