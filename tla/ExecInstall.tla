----------------------------- MODULE ExecInstall -----------------------------
(***************************************************************************)
(* Dependency installs of the exec service (internal/exec/install.go,      *)
(* runner.go, server.go, health.go, cmd/exec/main.go): one uv virtual      *)
(* environment per skill, made by the boot-time prewarm sweep, by          *)
(* POST /v1/install or lazily by the first POST /v1/run that needs it.     *)
(*                                                                         *)
(* The cache directory outlives the process, so a restart keeps venv and   *)
(* loses everything else.  A venv is "none", "bare" (bin/python exists but *)
(* its requirements are not all installed) or "ready".                     *)
(***************************************************************************)
EXTENDS Naturals, Sequences, FiniteSets

CONSTANTS
    Skills,             \* what ScanSkills found
    WithReqs,           \* the skills with a scripts/requirements.txt
    PrewarmList,        \* the skills marked x-microagent.prewarm, in order
    Denied,             \* the skills Policy refuses
    Requests,           \* HTTP requests to /v1/run and /v1/install
    PrewarmConcurrency, \* EXEC_PREWARM_CONCURRENCY
    MaxRestarts,        \* bound: restarts of the service
    NoOne               \* the holder of a free lock

\* What a configuration of the service satisfies.
ExecInstallAssumption ==
    /\ WithReqs \subseteq Skills /\ Denied \subseteq Skills
    /\ PrewarmList \in Seq(Skills)
    /\ PrewarmConcurrency \in Nat \ {0}
    /\ Requests \cap Skills = {} /\ NoOne \notin Requests \cup Skills

VARIABLES
    venv,       \* skill -> state of <cache>/<skill>/venv
    skillLock,  \* skill -> the worker inside Installer.Install, or NoOne
    worker,     \* goroutine -> what it is doing
    sweep,      \* the suffix of PrewarmList that Prewarm has yet to start
    prewarmed,  \* Health.prewarmed
    failed,     \* Health.failed
    ready,      \* Health.ready
    restarts

installVars == <<venv, skillLock, worker, sweep, prewarmed, failed, ready, restarts>>

\* A prewarm goroutine is named by its skill.
Prewarms == {PrewarmList[i] : i \in DOMAIN PrewarmList}
Workers == Requests \cup Prewarms

Phases == {"prewarm", "lazy", "explicit", "none"}
WaitPCs == {"lock", "venv", "pip"}
Idle == [pc |-> "idle", skill |-> NoOne, phase |-> "none", expired |-> FALSE,
         tried |-> FALSE, python |-> "none", answer |-> "none"]

\* Types; who waits for a mutex or runs uv does so in some phase.
InstallTypeOK ==
    /\ venv \in [Skills -> {"none", "bare", "ready"}]
    /\ skillLock \in [Skills -> Workers \cup {NoOne}]
    /\ \A w \in Workers :
        /\ worker[w].pc \in {"idle", "check", "run", "exec", "done"} \cup WaitPCs
        /\ worker[w].phase \in Phases
        /\ worker[w].pc \in WaitPCs => worker[w].phase # "none"
    /\ prewarmed \subseteq Skills /\ failed \subseteq Skills
    /\ ready \in BOOLEAN

InstallInit ==
    /\ venv = [s \in Skills |-> "none"]
    /\ skillLock = [s \in Skills |-> NoOne]
    /\ worker = [w \in Workers |-> Idle]
    /\ sweep = PrewarmList
    /\ prewarmed = {} /\ failed = {} /\ ready = FALSE
    /\ restarts = 0

Move(w, r) == worker' = [worker EXCEPT ![w] = r]
InstallGoto(w, pc) == Move(w, [worker[w] EXCEPT !.pc = pc])
Answer(w, a) == Move(w, [worker[w] EXCEPT !.pc = "done", !.answer = a])

-----------------------------------------------------------------------------
(* Requests *)

\* handleRun: an unknown skill, a denied one and an invalid script are
\* refused before anything else happens.
Policy(s) == s \notin Denied

handleRun(r, s, validScript) ==
    /\ worker[r].pc = "idle"
    /\ Move(r, IF s \in Skills /\ Policy(s) /\ validScript
               THEN [Idle EXCEPT !.pc = "check", !.skill = s]
               ELSE [Idle EXCEPT !.pc = "done", !.answer = "rejected"])
    /\ UNCHANGED <<venv, skillLock, sweep, prewarmed, failed, ready, restarts>>

handleInstall(r, s) ==
    /\ worker[r].pc = "idle"
    /\ Move(r, IF s \in Skills
               THEN [Idle EXCEPT !.pc = "lock", !.skill = s, !.phase = "explicit"]
               ELSE [Idle EXCEPT !.pc = "done", !.answer = "rejected"])
    /\ UNCHANGED <<venv, skillLock, sweep, prewarmed, failed, ready, restarts>>

\* The request's client gives up or a context's deadline passes.  Neither
\* the wait for the skill's mutex nor the stat of bin/python looks at it.
Expire(w) ==
    /\ worker[w].pc \in WaitPCs
    /\ ~worker[w].expired
    /\ Move(w, [worker[w] EXCEPT !.expired = TRUE])
    /\ UNCHANGED <<venv, skillLock, sweep, prewarmed, failed, ready, restarts>>

\* VenvPython: bin/python exists.
VenvPython(s) == venv[s] # "none"

NeedsInstall(s) == s \in WithReqs /\ ~VenvPython(s)

LazyCheck(r) ==
    /\ worker[r].pc = "check"
    /\ Move(r, IF NeedsInstall(worker[r].skill)
               THEN [worker[r] EXCEPT !.pc = "lock", !.phase = "lazy"]
               ELSE [worker[r] EXCEPT !.pc = "run"])
    /\ UNCHANGED <<venv, skillLock, sweep, prewarmed, failed, ready, restarts>>

\* spawn: the interpreter is chosen by looking at the cache once more.
SpawnUV(r) ==
    /\ worker[r].pc = "run"
    /\ Move(r, [worker[r] EXCEPT !.pc = "exec", !.python = venv[worker[r].skill]])
    /\ UNCHANGED <<venv, skillLock, sweep, prewarmed, failed, ready, restarts>>

FinishRun(r) ==
    /\ worker[r].pc = "exec"
    /\ Answer(r, "ran")
    /\ UNCHANGED <<venv, skillLock, sweep, prewarmed, failed, ready, restarts>>

-----------------------------------------------------------------------------
(* Installer.Install *)

InstallLockFree_Always(s) == TRUE
InstallLockFree(s) == skillLock[s] = NoOne

InstallUnlock_Never(s) == skillLock
InstallUnlock(s) == [skillLock EXCEPT ![s] = NoOne]

After_Anyway(w, ok) ==
    [worker[w] EXCEPT !.tried = TRUE,
        !.pc = IF worker[w].phase = "lazy" THEN "run" ELSE "done"]

\* A prewarm goroutine just ends, an explicit install is answered, and a
\* run goes on to its script or returns the failed install's envelope.
After(w, ok) ==
    [worker[w] EXCEPT
        !.tried = TRUE,
        !.pc = IF worker[w].phase = "lazy" /\ ok THEN "run" ELSE "done",
        !.answer = CASE worker[w].phase = "prewarm" -> "none"
                     [] worker[w].phase = "explicit" -> IF ok THEN "ok" ELSE "error"
                     [] OTHER -> IF ok THEN "none" ELSE "error"]

\* Health.Installed, and the deferred unlock of Install.
Installed(w) ==
    LET s == worker[w].skill IN
    /\ prewarmed' = prewarmed \cup {s}
    /\ failed' = failed \ {s}
    /\ skillLock' = InstallUnlock(s)
    /\ Move(w, After(w, TRUE))

\* Health.InstallFailed through finishFailed, and the deferred unlock.
StillListed_Yes(s) == prewarmed
StillListed(s) == prewarmed \ {s}

InstallFailed(w) ==
    LET s == worker[w].skill IN
    /\ failed' = failed \cup {s}
    /\ prewarmed' = StillListed(s)
    /\ skillLock' = InstallUnlock(s)
    /\ Move(w, After(w, FALSE))

\* Taking the skill's mutex and looking for requirements.txt.
TakeLock(w) ==
    LET s == worker[w].skill IN
    /\ worker[w].pc = "lock"
    /\ InstallLockFree(s)
    /\ \/ /\ s \notin WithReqs
          /\ Installed(w)
       \/ /\ s \in WithReqs
          /\ skillLock' = [skillLock EXCEPT ![s] = w]
          /\ InstallGoto(w, IF venv[s] = "none" THEN "venv" ELSE "pip")
          /\ UNCHANGED <<prewarmed, failed>>
    /\ UNCHANGED <<venv, sweep, ready, restarts>>

\* uv venv, when bin/python is missing; a failing uv may have made it.
MakeVenv(w) ==
    LET s == worker[w].skill IN
    /\ worker[w].pc = "venv"
    /\ \/ /\ ~worker[w].expired
          /\ venv' = [venv EXCEPT ![s] = "bare"]
          /\ InstallGoto(w, "pip")
          /\ UNCHANGED <<skillLock, prewarmed, failed>>
       \/ /\ \E v \in {"none", "bare"} : venv' = [venv EXCEPT ![s] = v]
          /\ InstallFailed(w)
    /\ UNCHANGED <<sweep, ready, restarts>>

\* uv pip install -r requirements.txt; a failing one leaves what was there.
PipResult(s) == "ready"

PipInstall(w) ==
    LET s == worker[w].skill IN
    /\ worker[w].pc = "pip"
    /\ \/ /\ ~worker[w].expired
          /\ venv' = [venv EXCEPT ![s] = PipResult(s)]
          /\ Installed(w)
       \/ /\ venv' = venv
          /\ InstallFailed(w)
    /\ UNCHANGED <<sweep, ready, restarts>>

-----------------------------------------------------------------------------
(* Boot *)

\* The prewarm goroutines that hold a place in Prewarm's semaphore.
InFlight_Leaked == {s \in Prewarms : worker[s].pc # "idle"}
InFlight == {s \in Prewarms : worker[s].pc \in WaitPCs}

MayStart == Cardinality(InFlight) < PrewarmConcurrency

Prewarm ==
    /\ sweep # <<>>
    /\ MayStart
    /\ Move(Head(sweep), [Idle EXCEPT !.pc = "lock", !.skill = Head(sweep),
                                      !.phase = "prewarm"])
    /\ sweep' = Tail(sweep)
    /\ UNCHANGED <<venv, skillLock, prewarmed, failed, ready, restarts>>

\* wg.Wait, then Health.Ready.
SweepOver_AllStarted == sweep = <<>>
SweepOver == sweep = <<>> /\ InFlight = {}

Ready ==
    /\ ~ready
    /\ SweepOver
    /\ ready' = TRUE
    /\ UNCHANGED <<venv, skillLock, worker, sweep, prewarmed, failed, restarts>>

\* The process is killed and started again; uv may have got as far as
\* bin/python when it died with its parent.
Restart ==
    /\ restarts < MaxRestarts
    /\ restarts' = restarts + 1
    /\ skillLock' = [s \in Skills |-> NoOne]
    /\ worker' = [w \in Workers |->
                    IF w \in Requests /\ worker[w].pc # "idle"
                    THEN [worker[w] EXCEPT !.pc = "done"] ELSE Idle]
    /\ sweep' = PrewarmList
    /\ prewarmed' = {} /\ failed' = {} /\ ready' = FALSE
    /\ \E s \in SUBSET {worker[w].skill : w \in {v \in Workers : worker[v].pc = "venv"}} :
        venv' = [k \in Skills |-> IF k \in s THEN "bare" ELSE venv[k]]

-----------------------------------------------------------------------------
AskedSkills == Skills \cup {"unknown"}

InstallServe(w) ==
    \/ LazyCheck(w) \/ SpawnUV(w) \/ FinishRun(w)
    \/ TakeLock(w) \/ MakeVenv(w) \/ PipInstall(w)

InstallNext ==
    \/ \E r \in Requests, s \in AskedSkills :
        \/ \E v \in BOOLEAN : handleRun(r, s, v)
        \/ handleInstall(r, s)
    \/ \E w \in Workers : Expire(w) \/ InstallServe(w)
    \/ Prewarm \/ Ready \/ Restart

InstallSpec == InstallInit /\ [][InstallNext]_installVars

-----------------------------------------------------------------------------
(* Properties *)

\* Never two uv processes of one skill: whoever runs uv venv or uv pip is
\* the one that holds the skill's mutex.
OneInstaller ==
    \A w \in Workers : worker[w].pc \in {"venv", "pip"} => skillLock[worker[w].skill] = w

\* What GET /v1/health says is true of the cache: a skill listed as
\* prewarmed has its requirements installed (if it has any), whichever
\* installs of it failed before, and is not listed as failed too.
HealthTruthful ==
    /\ prewarmed \cap failed = {}
    /\ \A s \in prewarmed \cap WithReqs : venv[s] = "ready"

\* The service says "ok" only when every prewarm attempt has ended one way
\* or the other.
ReadyAfterSweep == ready => Prewarms \subseteq prewarmed \cup failed

\* A run that had to install its dependencies runs its script with them.
LazyRunInstalled ==
    \A r \in Requests :
        worker[r].pc = "exec" /\ worker[r].tried /\ worker[r].skill \in WithReqs
            => worker[r].python = "ready"

\* The service becomes ready after every start, however the installs of the
\* prewarm sweep fail or time out (cmd/exec/main.go, install.go, Prewarm).
BecomesReady == []<>ready

\* Every request is answered, however installs fail or time out, and although
\* it may wait for the skill's mutex behind other installs (install.go, lockFor).
InstallAnswered == \A r \in Requests : worker[r].pc # "idle" ~> worker[r].pc = "done"

\* Whoever runs uv for a skill holds its mutex, and a run that had to install
\* its dependencies has them (install.go, Install; runner.go, Run).  GET
\* /v1/health lists as prewarmed only skills that have their requirements,
\* whichever installs failed, and says ready only when every prewarm has ended
\* (health.go; install.go, Prewarm).
InstallsSound ==
    InstallTypeOK /\ OneInstaller /\ LazyRunInstalled /\ HealthTruthful /\ ReadyAfterSweep
=============================================================================
