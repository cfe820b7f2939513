------------------------------ MODULE MCPClient ------------------------------
(***************************************************************************)
(* The JSON-RPC client of one MCP server (internal/mcp/client.go, tool.go):*)
(* tool invocations write requests to the subprocess's stdin and wait for  *)
(* the read loop to hand them the response with their id, for their        *)
(* deadline, or for the end of the read loop.                              *)
(*                                                                         *)
(* Initialize and ListTools are calls like the others, made one after the  *)
(* other before any tool is registered (MCPManager).  The server is        *)
(* external: it may answer in any order, twice, or not at all, and exit.   *)
(***************************************************************************)
EXTENDS Naturals, Sequences, FiniteSets

CONSTANTS
    Calls,      \* invocations of the server's tools
    MaxServerFaults,  \* bound: exits of the server and failures of the read loop
    Stalls,     \* TRUE: the server may stop reading its stdin for good
    NoCall      \* the holder of a free mutex

ASSUME MCPClientAssumption ==
    /\ IsFiniteSet(Calls) /\ NoCall \notin Calls
    /\ MaxServerFaults \in Nat /\ Stalls \in BOOLEAN

VARIABLES
    server,     \* "up", "stalled" or "exited"
    inbox,      \* the ids the server has read and may answer
    outbox,     \* the ids of the responses in its stdout, in order
    pending,    \* Client.pending: the ids that have a channel
    chan,       \* the ids whose channel holds a response
    nextID,     \* Client.nextID
    closed,     \* Client.closed
    doneCh,     \* Client.doneCh is closed
    loop,       \* the read loop: "reading", "closing" or "ended"
    callMu,     \* the holder of callMu
    call,       \* invocation -> its Invoke
    serverFaults

vars == <<server, inbox, outbox, pending, chan, nextID, closed, doneCh, loop,
          callMu, call, serverFaults>>

IDs == 1 .. Cardinality(Calls)
Results == {"none", "reply", "timeout", "closed", "badargs", "writeerr", "disconnected"}
\* Between taking callMu and returning.
Inside == {"store", "write", "wait"}

\* Types; and an id waits for its response in one place only.
TypeOK ==
    /\ server \in {"up", "stalled", "exited"}
    /\ inbox \subseteq IDs /\ outbox \in Seq(IDs)
    /\ pending \subseteq IDs /\ chan \subseteq IDs /\ pending \cap chan = {}
    /\ nextID \in 0 .. Cardinality(Calls)
    /\ loop \in {"reading", "closing", "ended"}
    /\ callMu \in Calls \cup {NoCall}
    /\ \A c \in Calls :
        /\ call[c].pc \in {"idle", "mu", "done"} \cup Inside
        /\ call[c].result \in Results

Init ==
    /\ server = "up" /\ inbox = {} /\ outbox = <<>>
    /\ pending = {} /\ chan = {} /\ nextID = 0
    /\ closed = FALSE /\ doneCh = FALSE /\ loop = "reading"
    /\ callMu = NoCall
    /\ call = [c \in Calls |-> [pc |-> "idle", id |-> 0, expired |-> FALSE,
                                result |-> "none", got |-> 0]]
    /\ serverFaults = 0

serverVars == <<server, inbox, outbox>>
loopVars == <<closed, doneCh, loop>>

-----------------------------------------------------------------------------
(* mcpTool.Invoke, Client.CallTool and Client.call *)

\* Client.CallTool returns, with the deferred unlock of callMu.
Return(c, r) ==
    /\ call' = [call EXCEPT ![c].pc = "done", ![c].result = r]
    /\ callMu' = NoCall

\* Invoke looks at Disconnected before anything else.
Invoke(c) ==
    /\ call[c].pc = "idle"
    /\ call' = [call EXCEPT ![c].pc = IF closed THEN "done" ELSE "mu",
                            ![c].result = IF closed THEN "disconnected" ELSE "none"]
    /\ UNCHANGED <<serverVars, pending, chan, nextID, loopVars, callMu, serverFaults>>

MuFree_Always == TRUE
MuFree == callMu = NoCall

\* Under the mutex: the closed check, and the arguments are parsed.
LockCall(c) ==
    /\ call[c].pc = "mu" /\ MuFree
    /\ \/ closed /\ Return(c, "closed")
       \/ ~closed /\ Return(c, "badargs")
       \/ ~closed /\ callMu' = c /\ call' = [call EXCEPT ![c].pc = "store"]
    /\ UNCHANGED <<serverVars, pending, chan, nextID, loopVars, serverFaults>>

\* call: the closed check, a fresh id, and its channel in pending.
FreshID_Same == IF nextID = 0 THEN 1 ELSE nextID
FreshID == nextID + 1

StoreCall(c) ==
    /\ call[c].pc = "store"
    /\ IF closed
       THEN Return(c, "closed") /\ UNCHANGED <<pending, nextID>>
       ELSE /\ nextID' = FreshID
            /\ pending' = pending \cup {FreshID}
            /\ call' = [call EXCEPT ![c].pc = "write", ![c].id = FreshID]
            /\ UNCHANGED callMu
    /\ UNCHANGED <<serverVars, chan, loopVars, serverFaults>>

\* The write to stdin: it blocks while the server does not read, and fails
\* when the server is gone.
WriteRequest(c) ==
    /\ call[c].pc = "write"
    /\ \/ /\ server = "up"
          /\ inbox' = inbox \cup {call[c].id}
          /\ call' = [call EXCEPT ![c].pc = "wait"]
          /\ UNCHANGED <<pending, callMu>>
       \/ /\ server = "exited"
          /\ pending' = pending \ {call[c].id}
          /\ Return(c, "writeerr")
          /\ UNCHANGED inbox
    /\ UNCHANGED <<server, outbox, chan, nextID, loopVars, serverFaults>>

\* The select: any of its ready cases may be taken.
AwaitReply(c) ==
    /\ call[c].pc = "wait" /\ call[c].id \in chan
    /\ call' = [call EXCEPT ![c].pc = "done", ![c].result = "reply", ![c].got = call[c].id]
    /\ callMu' = NoCall
    /\ chan' = chan \ {call[c].id}
    /\ UNCHANGED <<serverVars, pending, nextID, loopVars, serverFaults>>

TimesOut(c) == call[c].expired

AwaitTimeout(c) ==
    /\ call[c].pc = "wait" /\ TimesOut(c)
    /\ pending' = pending \ {call[c].id}
    /\ Return(c, "timeout")
    /\ UNCHANGED <<serverVars, chan, nextID, loopVars, serverFaults>>

Wakes_Never == FALSE
Wakes == doneCh

AwaitDone(c) ==
    /\ call[c].pc = "wait" /\ Wakes
    /\ Return(c, "closed")
    /\ UNCHANGED <<serverVars, pending, chan, nextID, loopVars, serverFaults>>

\* The deadline of callCtx, which runs from before the id is taken.
Deadline(c) ==
    /\ call[c].pc \in {"write", "wait"} /\ ~call[c].expired
    /\ call' = [call EXCEPT ![c].expired = TRUE]
    /\ UNCHANGED <<serverVars, pending, chan, nextID, loopVars, callMu, serverFaults>>

-----------------------------------------------------------------------------
(* Client.readLoop *)

Unclaimed(id) == pending \ {id}

\* A response finds its channel by LoadAndDelete; without one it is an
\* orphan and is dropped.
ReadResponse ==
    /\ loop = "reading" /\ outbox # <<>>
    /\ LET id == Head(outbox) IN
        /\ pending' = Unclaimed(id)
        /\ chan' = IF id \in pending THEN chan \cup {id} ELSE chan
    /\ outbox' = Tail(outbox)
    /\ UNCHANGED <<server, inbox, nextID, loopVars, callMu, call, serverFaults>>

\* End of file, or a line the scanner cannot read: closed is set, pending is
\* emptied, and the deferred close(doneCh) wakes the waiters.
LoopEnds ==
    /\ loop = "reading"
    /\ \/ server = "exited" /\ outbox = <<>> /\ UNCHANGED serverFaults
       \/ serverFaults < MaxServerFaults /\ serverFaults' = serverFaults + 1
    /\ loop' = "closing" /\ closed' = TRUE
    /\ UNCHANGED <<serverVars, pending, chan, nextID, doneCh, callMu, call>>

LoopDone ==
    /\ loop = "closing"
    /\ loop' = "ended" /\ doneCh' = TRUE
    /\ pending' = {}
    /\ UNCHANGED <<serverVars, chan, nextID, closed, callMu, call, serverFaults>>

-----------------------------------------------------------------------------
(* The server *)

ServerReplies(id) ==
    /\ server = "up" /\ id \in inbox
    /\ outbox' = Append(outbox, id)
    /\ \/ inbox' = inbox \ {id} /\ UNCHANGED serverFaults
       \/ serverFaults < MaxServerFaults /\ serverFaults' = serverFaults + 1 /\ UNCHANGED inbox
    /\ UNCHANGED <<server, pending, chan, nextID, loopVars, callMu, call>>

Exit ==
    /\ server # "exited" /\ serverFaults < MaxServerFaults
    /\ server' = "exited" /\ serverFaults' = serverFaults + 1
    /\ UNCHANGED <<inbox, outbox, pending, chan, nextID, loopVars, callMu, call>>

Stall ==
    /\ Stalls /\ server = "up"
    /\ server' = "stalled"
    /\ UNCHANGED <<inbox, outbox, pending, chan, nextID, loopVars, callMu, call, serverFaults>>

-----------------------------------------------------------------------------
Serve(c) ==
    \/ LockCall(c) \/ StoreCall(c) \/ WriteRequest(c)
    \/ AwaitReply(c) \/ AwaitTimeout(c) \/ AwaitDone(c)

Next ==
    \/ \E c \in Calls : Invoke(c) \/ Serve(c) \/ Deadline(c)
    \/ ReadResponse \/ LoopEnds \/ LoopDone
    \/ \E id \in IDs : ServerReplies(id)
    \/ Exit \/ Stall

Spec == Init /\ [][Next]_vars

\* Goroutines run, and end of file is noticed.  Nothing is assumed of the
\* server, nor that deadlines pass.
Fairness ==
    /\ \A c \in Calls : WF_vars(Serve(c))
    /\ WF_vars(ReadResponse) /\ WF_vars(LoopDone)
    /\ WF_vars(LoopEnds /\ server = "exited")

-----------------------------------------------------------------------------
(* Properties *)

\* An invocation that returns a response returns the one to its own request,
\* whatever answers to earlier, abandoned requests arrive late or twice.
OwnReply ==
    \A c, d \in Calls :
        call[c].result = "reply" /\ c # d => call[c].got # call[d].id

\* The server is given one tools/call at a time: two invocations are never
\* both between callMu and their return.
OneAtATime ==
    \A c, d \in Calls : call[c].pc \in Inside /\ call[d].pc \in Inside => c = d

\* A server is called by one invocation at a time, whose response is its own and
\* waits in one place only (client.go, CallTool, call and readLoop).
CallsSound == TypeOK /\ OneAtATime /\ OwnReply

\* An invocation that waits within its deadline for a server that may answer.
Patient(c) == call[c].pc = "wait" /\ ~call[c].expired /\ loop # "ended"

\* Every invocation returns unless the server stops reading its stdin: when
\* none of them waits patiently, the one at work is woken by its response, its
\* deadline or the end of the read loop, and frees callMu for the others
\* (client.go, call and readLoop).
CallReturns ==
    \A c \in Calls :
        []<>(\/ call[c].pc \in {"idle", "done"}
             \/ server = "stalled"
             \/ \E d \in Calls : Patient(d))
=============================================================================
