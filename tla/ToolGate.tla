------------------------------ MODULE ToolGate ------------------------------
(***************************************************************************)
(* Which tools a turn of the main agent may use (cmd/main-agent/main.go,   *)
(* internal/tools, internal/skills, internal/sessionskill): the tools that *)
(* are always there, those the session's active skill allows, the gate in  *)
(* front of every call, and how reading a skill activates it.              *)
(*                                                                         *)
(* The active skill of a session is a key in Valkey that expires; the      *)
(* skills are read from disk when the agent starts.  The agent serves one  *)
(* turn at a time.                                                         *)
(***************************************************************************)
EXTENDS Naturals, FiniteSets

CONSTANTS
    Sessions,    \* session ids
    Skills,      \* names of skills
    OtherTools,  \* tools that are neither read_skill nor bound to a session
    Registered,  \* the tools in Registry.tools
    Listed,      \* the tools in Registry.order
    Allowed,     \* skill -> its allowed-tools
    MaxIter,     \* bound: iterations of a turn (TOOL_LOOP_MAX_ITER)
    MaxTurns,    \* bound: turns
    MaxGateFaults   \* bound: Valkey commands that fail

ReadSkill == "read_skill"
Bash == "bash"  \* and run_skill_script: the tools bound to a session
Tools == {ReadSkill, Bash} \cup OtherTools

\* What a configuration satisfies.
ToolGateAssumption ==
    /\ Listed \subseteq Registered /\ Registered \subseteq Tools
    /\ Allowed \in [Skills -> SUBSET Tools]
    /\ {MaxIter, MaxTurns, MaxGateFaults} \subseteq Nat

None == "none"
Malformed == "malformed"

VARIABLES
    store,     \* skills.Store: the skills read at the last start
    stored,    \* session -> session:<id>:active-skill, or None
    turn,      \* the turn being served
    ran,       \* the last call that reached a tool
    turns, gateFaults

gateVars == <<store, stored, turn, ran, turns, gateFaults>>

NoTurn == [pc |-> "idle", session |-> None, active |-> None, iter |-> 0,
           offered |-> {}, visible |-> {}]
NothingRan == [tool |-> None, session |-> None, sid |-> None, offered |-> {}]

\* Types; the iterations keep to their bound.
GateTypeOK ==
    /\ store \subseteq Skills
    /\ stored \in [Sessions -> Skills \cup {None}]
    /\ turn.pc \in {"idle", "prepare", "calls"}
    /\ turn.session \in Sessions \cup {None}
    /\ turn.active \in Skills \cup {None}
    /\ turn.iter \in 0 .. MaxIter
    /\ turn.offered \subseteq Tools /\ turn.visible \subseteq Tools
    /\ turns \in 0 .. MaxTurns /\ gateFaults \in 0 .. MaxGateFaults

GateInit ==
    /\ store \in SUBSET Skills
    /\ stored = [s \in Sessions |-> None]
    /\ turn = NoTurn
    /\ ran = NothingRan
    /\ turns = 0 /\ gateFaults = 0

-----------------------------------------------------------------------------

\* resolveActiveSkill keeps a stored name only when the skill is still there.
Known_Any(name) == name # None
Known(name) == name \in store

\* A turn starts: resolveActiveSkill.  A failed read means no active skill; a
\* stale name is cleared, unless the DEL fails too.
StartTurn(s) ==
    /\ turn.pc = "idle" /\ turns < MaxTurns
    /\ turns' = turns + 1
    /\ LET begin(name) == turn' = [NoTurn EXCEPT !.pc = "prepare", !.session = s,
                                                 !.active = name]
       IN \/ /\ Known(stored[s]) \/ stored[s] = None
             /\ begin(stored[s])
             /\ UNCHANGED <<stored, gateFaults>>
          \/ /\ ~Known(stored[s]) /\ stored[s] # None
             /\ begin(None)
             /\ \/ stored' = [stored EXCEPT ![s] = None] /\ UNCHANGED gateFaults
                \/ /\ gateFaults < MaxGateFaults /\ gateFaults' = gateFaults + 1
                   /\ stored' \in {stored, [stored EXCEPT ![s] = None]}
          \/ /\ gateFaults < MaxGateFaults /\ gateFaults' = gateFaults + 1
             /\ begin(None)
             /\ UNCHANGED stored
    /\ UNCHANGED <<store, ran>>

\* The base toolset: what the registry lists once the MCP servers started.
BaseTools == Listed
allowedOf(name) == IF name = None THEN {} ELSE Allowed[name]

\* SchemasFor: what the model is offered.
SchemasFor(name) == Listed \cap (BaseTools \cup allowedOf(name))

\* visibleSet: what the gate lets through.
visibleSet_All(name) == Registered \cup allowedOf(name)
visibleSet(name) == Registered \cap (BaseTools \cup allowedOf(name))

\* The loop's bound.
HasIteration_OneMore == turn.iter <= MaxIter
HasIteration == turn.iter < MaxIter

\* An iteration: both sets from the active skill, then the model is asked.
Iterate ==
    /\ turn.pc = "prepare" /\ HasIteration
    /\ turn' = [turn EXCEPT !.pc = "calls", !.offered = SchemasFor(turn.active),
                            !.visible = visibleSet(turn.active)]
    /\ UNCHANGED <<store, stored, ran, turns, gateFaults>>

\* injectSessionID: the turn's session replaces what the model wrote; arguments
\* that are not an object stay as they are.
injectSessionID_IfAbsent(sid) == IF sid = None THEN turn.session ELSE sid
injectSessionID(sid) == IF sid = Malformed THEN Malformed ELSE turn.session

\* The model calls a tool that is not read_skill: invokeOrGate.  A tool bound to
\* a session refuses malformed arguments.
CallTool(t, sid) ==
    LET arg == IF t = Bash THEN injectSessionID(sid) ELSE None
    IN /\ turn.pc = "calls" /\ t # ReadSkill
       /\ IF t \in turn.visible /\ ~(t = Bash /\ arg = Malformed)
          THEN ran' = [tool |-> t, session |-> turn.session, sid |-> arg,
                       offered |-> turn.offered]
          ELSE UNCHANGED ran
       /\ UNCHANGED <<store, stored, turn, turns, gateFaults>>

\* Reading the skill that is active already changes nothing.
Activates(name) == name \in store /\ name # turn.active

\* The model reads a skill: a successful read makes it the active skill, in the
\* turn and, unless the write fails, in Valkey (a SET that fails may still have
\* been carried out).
CallReadSkill(name) ==
    /\ turn.pc = "calls"
    /\ \/ /\ ReadSkill \in turn.visible /\ Activates(name)
          /\ turn' = [turn EXCEPT !.active = name]
          /\ \/ stored' = [stored EXCEPT ![turn.session] = name] /\ UNCHANGED gateFaults
             \/ /\ gateFaults < MaxGateFaults /\ gateFaults' = gateFaults + 1
                /\ stored' \in {stored, [stored EXCEPT ![turn.session] = name]}
       \/ /\ ~(ReadSkill \in turn.visible /\ Activates(name))
          /\ UNCHANGED <<turn, stored, gateFaults>>
    /\ ran' = IF ReadSkill \in turn.visible
              THEN [tool |-> ReadSkill, session |-> turn.session, sid |-> None,
                    offered |-> turn.offered]
              ELSE ran
    /\ UNCHANGED <<store, turns>>

\* All calls of the reply are done: the next iteration, if any is left.
NextIteration ==
    /\ turn.pc = "calls"
    /\ turn' = [turn EXCEPT !.pc = "prepare", !.iter = @ + 1]
    /\ UNCHANGED <<store, stored, ran, turns, gateFaults>>

\* The model answers without calls, an error ends the loop, or the bound does.
EndTurn ==
    /\ turn.pc = "calls" \/ (turn.pc = "prepare" /\ turn.iter = MaxIter)
    /\ turn' = NoTurn
    /\ ran' = NothingRan
    /\ UNCHANGED <<store, stored, turns, gateFaults>>

\* The key expires after 24 hours without a write.
ExpireKey(s) ==
    /\ stored[s] # None
    /\ stored' = [stored EXCEPT ![s] = None]
    /\ UNCHANGED <<store, turn, ran, turns, gateFaults>>

\* The agent restarts, perhaps in the middle of a turn, and reads the skills from
\* disk again.
Restart ==
    /\ store' \in SUBSET Skills
    /\ turn' = NoTurn
    /\ ran' = NothingRan
    /\ UNCHANGED <<stored, turns, gateFaults>>

GateNext ==
    \/ \E s \in Sessions : StartTurn(s) \/ ExpireKey(s)
    \/ Iterate \/ NextIteration \/ EndTurn \/ Restart
    \/ \E t \in Tools, sid \in Sessions \cup {None, Malformed} : CallTool(t, sid)
    \/ \E name \in Skills : CallReadSkill(name)

GateSpec == GateInit /\ [][GateNext]_gateVars

-----------------------------------------------------------------------------
(* Properties *)

\* A tool runs only if the model was offered it in the same iteration, across
\* skills that are activated in mid-turn, expire or vanish from disk (main.go,
\* visibleSet, invokeOrGate; tool.go, SchemasFor).
RanWasOffered == ran.tool # None => ran.tool \in ran.offered

\* A tool bound to a session always runs with the session of the turn, whatever
\* session the model wrote into the arguments (main.go, injectSessionID).
OwnSession == ran.tool = Bash => ran.sid = turn.session

\* The skill a turn works under is one the agent has, though the name came from
\* a key written by an earlier agent with other skills (main.go,
\* resolveActiveSkill and the activation after read_skill).
ActiveIsLoaded == turn.active # None => turn.active \in store

\* The gate in front of every call: what runs was offered, with the session of
\* the turn, and under a skill the agent has (cmd/main-agent/main.go).
GateSound == GateTypeOK /\ RanWasOffered /\ OwnSession /\ ActiveIsLoaded
=============================================================================
