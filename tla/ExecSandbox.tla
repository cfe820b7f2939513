----------------------------- MODULE ExecSandbox -----------------------------
(***************************************************************************)
(* The session sandboxes of POST /v1/bash (internal/exec/bash.go and       *)
(* sandbox.go): commands of one session run one at a time in /sandbox/     *)
(* <session>, which a sweep removes when its .last_access marker (or,      *)
(* without one, the directory itself) has not been touched for long.       *)
(*                                                                         *)
(* Time appears as one event, Age: what has not been touched since becomes *)
(* "old", past the retention.  A command is over within EXEC_MAX_TIMEOUT_S *)
(* (2 minutes) of its touch, well before the retention (60 minutes).       *)
(***************************************************************************)
EXTENDS Naturals, FiniteSets

CONSTANTS
    Calls,      \* POST /v1/bash requests
    Sessions,   \* session ids
    NoCall      \* the holder of a free mutex

ASSUME ExecSandboxAssumption == NoCall \notin Calls

VARIABLES
    marker,     \* session -> .last_access: "none", "new" or "old"
    dir,        \* session -> the directory: "none", or its mtime "new", "old"
    lock,       \* session -> the call that holds its mutex
    call,       \* call -> its BashRunner.Run
    gc          \* SandboxGC.RunOnce

vars == <<marker, dir, lock, call, gc>>

Ages == {"none", "new", "old"}
IdleGC == [pc |-> "idle", left |-> {}, cur |-> NoCall, aged |-> {}]

\* The steps of a call from its touch of the marker to its last one.
Active == {"spawn", "wait", "touch"}

\* Types; a marker exists only inside its directory.
TypeOK ==
    /\ marker \in [Sessions -> Ages] /\ dir \in [Sessions -> Ages]
    /\ \A s \in Sessions : dir[s] = "none" => marker[s] = "none"
    /\ \A c \in Calls :
        /\ call[c].pc \in {"idle", "lock", "mkdir", "marker", "done"} \cup Active
        /\ call[c].answer \in {"none", "ran", "minusone", "error"}
    /\ lock \in [Sessions -> Calls \cup {NoCall}]
    /\ gc.pc \in {"idle", "check", "remove"}

Init ==
    /\ marker = [s \in Sessions |-> "none"]
    /\ dir = [s \in Sessions |-> "none"]
    /\ lock = [s \in Sessions |-> NoCall]
    /\ call = [c \in Calls |-> [pc |-> "idle", session |-> NoCall, answer |-> "none"]]
    /\ gc = IdleGC

Goto(c, pc) == call' = [call EXCEPT ![c].pc = pc]

\* The return of Run, with its deferred unlock.
Unlock_Never(s) == lock
Unlock(s) == [lock EXCEPT ![s] = NoCall]

Return(c, a) ==
    /\ call' = [call EXCEPT ![c].pc = "done", ![c].answer = a]
    /\ lock' = Unlock(call[c].session)

-----------------------------------------------------------------------------
(* BashRunner.Run *)

\* A request without a command or a session, or under a network policy that
\* denies, is refused before it touches anything.
handleBash(c, s) ==
    /\ call[c].pc = "idle"
    /\ call' = [call EXCEPT ![c].pc = "lock", ![c].session = s]
    /\ UNCHANGED <<marker, dir, lock, gc>>

LockFree_Always(s) == TRUE
LockFree(s) == lock[s] = NoCall

Lock(c) ==
    LET s == call[c].session IN
    /\ call[c].pc = "lock"
    /\ LockFree(s)
    /\ lock' = [lock EXCEPT ![s] = c]
    /\ Goto(c, "mkdir")
    /\ UNCHANGED <<marker, dir, gc>>

\* SandboxFor: MkdirAll, which a full tmpfs refuses, then touchLastAccess.
MkdirAll(c) ==
    LET s == call[c].session IN
    /\ call[c].pc = "mkdir"
    /\ \/ /\ dir' = [dir EXCEPT ![s] = IF @ = "none" THEN "new" ELSE @]
          /\ Goto(c, "marker")
          /\ UNCHANGED lock
       \/ dir[s] = "none" /\ Return(c, "error") /\ UNCHANGED dir
    /\ UNCHANGED <<marker, gc>>

\* touchLastAccess sets the times of the marker, or makes it (which also
\* changes the directory); making it fails when the directory is gone or the
\* tmpfs is full.
Touched_IfAbsent(s) == IF marker[s] = "none" THEN "new" ELSE marker[s]
Touched(s) == "new"

Touch(s) ==
    /\ dir[s] # "none"
    /\ marker' = [marker EXCEPT ![s] = Touched(s)]
    /\ dir' = [dir EXCEPT ![s] = IF marker[s] = "none" THEN "new" ELSE @]

TouchFirst(c) ==
    LET s == call[c].session IN
    /\ call[c].pc = "marker"
    /\ \/ Touch(s) /\ Goto(c, "spawn") /\ UNCHANGED lock
       \/ marker[s] = "none" /\ Return(c, "error") /\ UNCHANGED <<marker, dir>>
    /\ UNCHANGED gc

\* spawn creates .stdout and .stderr and starts the command; without the
\* directory, or when one of the three fails, it returns exit code -1 and Run
\* goes on.
Spawn(c) ==
    LET s == call[c].session IN
    /\ call[c].pc = "spawn"
    /\ \/ dir[s] # "none" /\ Goto(c, "wait")
       \/ call' = [call EXCEPT ![c].pc = "touch", ![c].answer = "minusone"]
    /\ dir' = [dir EXCEPT ![s] = IF @ = "none" THEN "none" ELSE "new"]
    /\ UNCHANGED <<marker, lock, gc>>

\* The command may remove the marker among its files.
Command(c) ==
    LET s == call[c].session IN
    /\ call[c].pc = "wait"
    /\ marker[s] # "none"
    /\ marker' = [marker EXCEPT ![s] = "none"]
    /\ dir' = [dir EXCEPT ![s] = "new"]
    /\ UNCHANGED <<lock, call, gc>>

\* cmd.Wait returns: the command ended or its group was killed.
Wait(c) ==
    /\ call[c].pc = "wait"
    /\ \E a \in {"ran", "minusone"} :
        call' = [call EXCEPT ![c].pc = "touch", ![c].answer = a]
    /\ UNCHANGED <<marker, dir, lock, gc>>

\* The second touch, whose error is dropped, and the answer.
TouchLast(c) ==
    LET s == call[c].session IN
    /\ call[c].pc = "touch"
    /\ Touch(s) \/ (marker[s] = "none" /\ UNCHANGED <<marker, dir>>)
    /\ Return(c, call[c].answer)
    /\ UNCHANGED gc

Serve(c) == Lock(c) \/ MkdirAll(c) \/ TouchFirst(c) \/ Spawn(c) \/ Wait(c) \/ TouchLast(c)

-----------------------------------------------------------------------------
(* The passing of the retention, and SandboxGC.RunOnce *)

Older(a) == IF a = "new" THEN "old" ELSE a

Age(s) ==
    /\ dir[s] = "new" \/ marker[s] = "new"
    /\ \A c \in Calls : call[c].session = s => call[c].pc \notin Active \cup {"marker"}
    /\ marker' = [marker EXCEPT ![s] = Older(@)]
    /\ dir' = [dir EXCEPT ![s] = Older(@)]
    /\ UNCHANGED <<lock, call, gc>>

\* sessionAge against the retention: the marker's time if there is one.
sessionAge_Unread(s) == IF marker[s] # "none" THEN "new" ELSE dir[s]
sessionAge(s) == IF marker[s] # "none" THEN marker[s] ELSE dir[s]

\* RunOnce reads the clock once, so what ages during a sweep is left to the
\* next one.
Sweep ==
    /\ gc.pc = "idle"
    /\ gc' = [IdleGC EXCEPT !.pc = "check",
                            !.left = {s \in Sessions : dir[s] # "none"},
                            !.aged = {s \in Sessions : sessionAge(s) = "old"}]
    /\ UNCHANGED <<marker, dir, lock, call>>

CheckAge ==
    /\ gc.pc = "check"
    /\ \E s \in gc.left :
        gc' = [gc EXCEPT !.left = @ \ {s}, !.cur = s,
                         !.pc = IF s \in gc.aged /\ sessionAge(s) = "old"
                                THEN "remove" ELSE "check"]
    /\ UNCHANGED <<marker, dir, lock, call>>

RemoveAll ==
    /\ gc.pc = "remove"
    /\ dir' = [dir EXCEPT ![gc.cur] = "none"]
    /\ marker' = [marker EXCEPT ![gc.cur] = "none"]
    /\ gc' = [gc EXCEPT !.pc = "check"]
    /\ UNCHANGED <<lock, call>>

SweepEnds ==
    /\ gc.pc = "check" /\ gc.left = {}
    /\ gc' = IdleGC
    /\ UNCHANGED <<marker, dir, lock, call>>

Collect == Sweep \/ CheckAge \/ RemoveAll \/ SweepEnds

-----------------------------------------------------------------------------
Next ==
    \/ \E c \in Calls, s \in Sessions : handleBash(c, s)
    \/ \E c \in Calls : Serve(c) \/ Command(c)
    \/ \E s \in Sessions : Age(s)
    \/ Collect

Spec == Init /\ [][Next]_vars

-----------------------------------------------------------------------------
(* Properties *)

\* Commands of one session never overlap: between the lock and the answer
\* a session has one call.
OneCommandPerSession ==
    \A c, d \in Calls :
        /\ call[c].pc \in {"mkdir", "marker"} \cup Active
        /\ call[d].pc \in {"mkdir", "marker"} \cup Active
        /\ call[c].session = call[d].session
        => c = d

\* A sandbox is never judged old while a command runs in it: the touch that
\* precedes the command is enough to make the sweep leave it alone.
JudgedIdle ==
    [][gc.pc = "check" /\ gc'.pc = "remove" =>
        \A c \in Calls : call[c].session = gc'.cur => call[c].pc \notin Active]_vars

\* Every call is answered.
Answered == \A c \in Calls : call[c].pc = "lock" ~> call[c].pc = "done"

\* A sandbox nobody uses any more is reclaimed, even when a command removed
\* its marker.
IdleReclaimed == \A s \in Sessions : []<>(dir[s] = "none")

\* Commands of one session never overlap (bash.go, Run), and no sweep judges a
\* sandbox idle while one runs in it (sandbox.go, RunOnce).
SandboxSound == [](TypeOK /\ OneCommandPerSession) /\ JudgedIdle
=============================================================================
