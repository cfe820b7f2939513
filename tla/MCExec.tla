------------------------------- MODULE MCExec -------------------------------
(***************************************************************************)
(* The exec service for TLC: the session sandboxes of /v1/bash             *)
(* (ExecSandbox), the installs of skill dependencies (ExecInstall), the    *)
(* workspaces of /v1/run (ExecWorkspace) and what of a process's output    *)
(* reaches the envelope (CappedOutput).                                    *)
(*                                                                         *)
(* They share no state, so their interleavings say nothing that each does  *)
(* not say alone: a behaviour chooses one of them, and the others stay in  *)
(* their initial state.                                                    *)
(***************************************************************************)
EXTENDS ExecSandbox, ExecInstall, ExecWorkspace, CappedOutput

VARIABLE part   \* the part that runs

\* Two skills with requirements, both prewarmed one after the other, and one
\* that the policy denies; two runs of one session.
MCPrewarmList == <<"skill1", "skill2">>
MCSessionOf == [i \in Invs |-> "s"]

ASSUME ExecInstallAssumption /\ ExecWorkspaceAssumption /\ CappedOutputAssumption

MCInit ==
    /\ part \in {"sandbox", "install", "workspace", "output"}
    /\ Init /\ InstallInit /\ WorkspaceInit /\ OutputInit

SandboxStep == part = "sandbox" /\ Next /\ UNCHANGED <<part, installVars, workspaceVars, outputVars>>
InstallStep == part = "install" /\ InstallNext /\ UNCHANGED <<part, vars, workspaceVars, outputVars>>
WorkspaceStep == part = "workspace" /\ WorkspaceNext /\ UNCHANGED <<part, vars, installVars, outputVars>>
OutputStep == part = "output" /\ OutputNext /\ UNCHANGED <<part, vars, installVars, workspaceVars>>

MCNext == SandboxStep \/ InstallStep \/ WorkspaceStep \/ OutputStep

\* Goroutines run, the tickers of the two collectors keep sweeping, a command
\* and a script end or are killed at their deadline, a uv process ends (its
\* context has one too), and time passes.
MCFairness ==
    /\ WF_vars(part = "sandbox" /\ Collect)
    /\ \A c \in Calls : WF_vars(Serve(c))
    /\ \A s \in Sessions : WF_vars(Age(s))
    /\ WF_installVars(part = "install" /\ Prewarm) /\ WF_installVars(Ready)
    /\ \A w \in Workers : WF_installVars(InstallServe(w))
    /\ WF_workspaceVars(part = "workspace" /\ WorkspaceCollect)
    /\ \A i \in Invs : /\ WF_workspaceVars(Running(i))
                               /\ WF_workspaceVars(ContextEnds(i, "deadline"))
                               /\ WF_workspaceVars(RetentionPasses(i))

MCSpec ==
    /\ MCInit /\ [][MCNext]_<<part, vars, installVars, workspaceVars, outputVars>>
    /\ MCFairness

-----------------------------------------------------------------------------
\* Every command, run and install request is answered, and the service becomes
\* ready after every start, although they wait for each other's mutexes, uv
\* fails and scripts run into their deadline (bash.go; runner.go; install.go).
ExecAnswers ==
    /\ Answered /\ InstallAnswered /\ RunEnds
    /\ part = "install" => BecomesReady

\* An idle sandbox, even one whose marker a command removed, and a workspace
\* with metadata are reclaimed in the end (sandbox.go and gc.go, RunOnce).
LeftoversReclaimed == IdleReclaimed /\ EndedReclaimed
=============================================================================
