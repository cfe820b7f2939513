----------------------------- MODULE LogStream -----------------------------
(***************************************************************************)
(* The path of a log line (internal/logstream/handler.go and the tail of   *)
(* internal/gateway/logs.go): a service writes the line to stdout and      *)
(* offers it to a bounded queue, a goroutine drains the queue into the     *)
(* stream log:<service>, which Valkey trims, and a dashboard's tail reads  *)
(* the stream with XREAD BLOCK and hands the entries to one writer.        *)
(*                                                                         *)
(* Lines are numbered in the order in which they reach the stream.         *)
(***************************************************************************)
EXTENDS Naturals, Sequences, FiniteSets

CONSTANTS
    QueueSize,  \* Options.QueueSize
    MaxLen,     \* XADD MAXLEN
    EventsCap,  \* capacity of the channel between reader and writer (32)
    Count,      \* XREAD COUNT (32)
    MaxLines,   \* bound: how many lines the service logs
    MaxFaults   \* bound: how many Valkey commands fail

ASSUME LogStreamAssumption ==
    /\ {QueueSize, MaxLen, EventsCap, Count} \subseteq Nat \ {0}
    /\ {MaxLines, MaxFaults} \subseteq Nat

VARIABLES
    stdout,    \* how many lines were written to stdout
    unsent,    \* how many of them could not be rendered as JSON
    queue,     \* Publisher.queue: how many lines wait
    drain,     \* the drain goroutine: "idle" or "xadd"
    drops,     \* Publisher.drops
    warned,    \* the sum of the counts in the warnings on stderr
    last,      \* id of the newest entry of the stream
    first,     \* id of the oldest entry the stream still has
    tail,      \* the tail's reader goroutine
    events,    \* the channel between reader and writer
    shown,     \* the entries the writer took, in order
    client,    \* "absent", "open" or "gone"
    faults     \* commands that failed so far

pubVars == <<stdout, unsent, queue, drain, drops, warned>>
streamVars == <<last, first>>
tailVars == <<tail, events, shown, client>>
vars == <<pubVars, streamVars, tailVars, faults>>

\* "$": the reader has not seen an entry yet.
Newest == 0

\* Types; the queue and the channel keep to their capacity.
TypeOK ==
    /\ stdout \in 0 .. MaxLines /\ unsent \in 0 .. stdout
    /\ queue \in 0 .. QueueSize
    /\ drain \in {"idle", "xadd"}
    /\ drops \in Nat /\ warned \in Nat
    /\ last \in 0 .. MaxLines /\ first \in 1 .. last + 1
    /\ tail.pc \in {"off", "next", "blocked", "push", "stopped"}
    /\ tail.lastID \in 0 .. last /\ tail.from \in 0 .. last
    /\ tail.batch \in Seq(1 .. last) /\ Len(tail.batch) <= Count
    /\ events \in Seq(1 .. last) /\ Len(events) <= EventsCap
    /\ shown \in Seq(1 .. last)
    /\ client \in {"absent", "open", "gone"}
    /\ faults \in 0 .. MaxFaults

Init ==
    /\ stdout = 0 /\ unsent = 0 /\ queue = 0 /\ drain = "idle"
    /\ drops = 0 /\ warned = 0
    /\ last = 0 /\ first = 1
    /\ tail = [pc |-> "off", lastID |-> Newest, from |-> 0, batch |-> <<>>]
    /\ events = <<>> /\ shown = <<>> /\ client = "absent"
    /\ faults = 0

-----------------------------------------------------------------------------
(* The service. *)

\* write: a line enters the queue if there is room.
Room_OneMore == queue <= QueueSize
Room == queue < QueueSize

\* Handle: stdout first; a record that does not render is not offered.
Handle ==
    /\ stdout < MaxLines
    /\ stdout' = stdout + 1
    /\ \/ Room /\ queue' = queue + 1 /\ UNCHANGED <<unsent, drops>>
       \/ ~Room /\ drops' = drops + 1 /\ UNCHANGED <<unsent, queue>>
       \/ unsent' = unsent + 1 /\ UNCHANGED <<queue, drops>>
    /\ UNCHANGED <<drain, warned, streamVars, tailVars, faults>>

\* drain: take a line off the queue.
DrainTake ==
    /\ drain = "idle" /\ queue > 0
    /\ queue' = queue - 1
    /\ drain' = "xadd"
    /\ UNCHANGED <<stdout, unsent, drops, warned, streamVars, tailVars, faults>>

\* XADD MAXLEN ~.  Valkey trims the oldest entries when it likes, never below
\* the cap.
XAdd ==
    /\ last' = last + 1
    /\ first' \in first .. (IF last' > MaxLen THEN last' - MaxLen + 1 ELSE 1) \cup {first}

\* drain: the line is in the stream.
DrainAdd ==
    /\ drain = "xadd"
    /\ drain' = "idle"
    /\ XAdd
    /\ UNCHANGED <<stdout, unsent, queue, drops, warned, tailVars, faults>>

\* What a failed XADD adds to the drop counter.
FailedAdd_Ignored == 0
FailedAdd == 1

\* drain: the XADD fails, or was carried out and its answer is lost; the line
\* is not retried.
DrainFails ==
    /\ drain = "xadd" /\ faults < MaxFaults
    /\ faults' = faults + 1
    /\ drain' = "idle"
    /\ drops' = drops + FailedAdd
    /\ XAdd \/ UNCHANGED streamVars
    /\ UNCHANGED <<stdout, unsent, queue, warned, tailVars>>

\* warnLoop: a tick swaps the counter for zero and warns.
Due_Several == drops > 1
Due == drops > 0

WarnLoop ==
    /\ Due
    /\ warned' = warned + drops
    /\ drops' = 0
    /\ UNCHANGED <<stdout, unsent, queue, drain, streamVars, tailVars, faults>>

-----------------------------------------------------------------------------
(* The tail. *)

\* handleLogTail: headers, then a reader per stream.
Open ==
    /\ client = "absent"
    /\ client' = "open"
    /\ tail' = [tail EXCEPT !.pc = "next"]
    /\ UNCHANGED <<events, shown, pubVars, streamVars, faults>>

\* tailStream: issue XREAD.  The server resolves "$" to the newest entry now.
StartOf(lastID) == IF lastID = Newest THEN last ELSE lastID

XRead ==
    /\ tail.pc = "next" /\ client = "open"
    /\ tail' = [tail EXCEPT !.pc = "blocked", !.from = StartOf(tail.lastID)]
    /\ UNCHANGED <<events, shown, client, pubVars, streamVars, faults>>

\* The entries an XREAD from an id returns: at most Count, the oldest first.
After(from) ==
    LET low == IF from + 1 > first THEN from + 1 ELSE first
        high == IF low + Count - 1 < last THEN low + Count - 1 ELSE last
    IN [i \in 1 .. (IF high >= low THEN high - low + 1 ELSE 0) |-> low + i - 1]

\* XREAD returns entries.
ReadEntries ==
    /\ tail.pc = "blocked" /\ After(tail.from) # <<>>
    /\ tail' = [tail EXCEPT !.pc = "push", !.batch = After(tail.from)]
    /\ UNCHANGED <<events, shown, client, pubVars, streamVars, faults>>

\* XREAD times out after 5 s, or fails: around the loop with the same id.
ReadNothing ==
    /\ tail.pc = "blocked"
    /\ \/ After(tail.from) = <<>> /\ UNCHANGED faults
       \/ faults < MaxFaults /\ faults' = faults + 1
    /\ tail' = [tail EXCEPT !.pc = "next"]
    /\ UNCHANGED <<events, shown, client, pubVars, streamVars>>

\* The id the next XREAD starts from, after message m of the batch.
Seen_Before(m) == m - 1
Seen_Next(m) == IF m < last THEN m + 1 ELSE m
Seen(m) == m

\* Push the next message; the channel blocks the reader when it is full.
Push ==
    /\ tail.pc = "push"
    /\ \/ /\ tail.batch # <<>> /\ Len(events) < EventsCap
          /\ events' = Append(events, Head(tail.batch))
          /\ tail' = [tail EXCEPT !.lastID = Seen(Head(tail.batch)),
                                  !.batch = Tail(tail.batch)]
       \/ /\ tail.batch = <<>>
          /\ tail' = [tail EXCEPT !.pc = "next"]
          /\ UNCHANGED events
    /\ UNCHANGED <<shown, client, pubVars, streamVars, faults>>

\* The writer takes one event; the filters only choose which it writes out.
Show ==
    /\ client = "open" /\ events # <<>>
    /\ events' = Tail(events)
    /\ shown' = Append(shown, Head(events))
    /\ UNCHANGED <<tail, client, pubVars, streamVars, faults>>

\* The client goes away: the request's context is cancelled, the writer leaves.
Leave ==
    /\ client = "open"
    /\ client' = "gone"
    /\ UNCHANGED <<tail, events, shown, pubVars, streamVars, faults>>

\* The reader notices a cancelled context before and in XREAD, and while it
\* waits for room in the channel.
Notices_NotPushing == tail.pc \in {"next", "blocked"}
Notices == tail.pc \in {"next", "blocked", "push"}

Stop ==
    /\ client = "gone" /\ Notices
    /\ tail' = [tail EXCEPT !.pc = "stopped", !.batch = <<>>]
    /\ UNCHANGED <<events, shown, client, pubVars, streamVars, faults>>

Next ==
    \/ Handle \/ DrainTake \/ DrainAdd \/ DrainFails \/ WarnLoop
    \/ Open \/ XRead \/ ReadEntries \/ ReadNothing \/ Push \/ Show \/ Leave \/ Stop

Spec == Init /\ [][Next]_vars

\* The goroutines keep running, the ticker ticks and commands return.
Fairness ==
    /\ WF_vars(DrainTake) /\ WF_vars(DrainAdd \/ DrainFails) /\ WF_vars(WarnLoop)
    /\ WF_vars(XRead) /\ WF_vars(ReadEntries) /\ WF_vars(ReadNothing)
    /\ WF_vars(Push) /\ WF_vars(Show) /\ WF_vars(Stop)

-----------------------------------------------------------------------------
(* Properties *)

\* No line on stdout vanishes: it is not rendered, on its way, in the stream's
\* history, in the drop counter, or in a warning that was printed; and a line is
\* counted twice only if a command failed (handler.go, write, drain, warnLoop).
EveryLineCounted ==
    LET counted == unsent + queue + (IF drain = "xadd" THEN 1 ELSE 0) + last + drops + warned
    IN stdout <= counted /\ counted <= stdout + faults

\* Every drop is reported on stderr in the end (handler.go, warnLoop).
DropsReported == \A n \in 1 .. MaxLines : (drops >= n) ~> (drops = 0)

\* The writer gets entries in the order of the stream and none twice, however
\* XREADs time out, fail and are repeated (logs.go, tailStream).
ShownInOrder ==
    \A i, j \in DOMAIN shown : i < j => shown[i] < shown[j]

\* From the first entry on, the tail misses none: two consecutive entries of
\* what was shown are neighbours in the stream, unless Valkey trimmed what was
\* between them (logs.go, tailStream).
NoGapAfterFirst ==
    \A i \in 1 .. Len(shown) - 1 : shown[i + 1] = shown[i] + 1 \/ shown[i + 1] - 1 < first

\* When the client has gone, the reader goroutine stops (logs.go, tailStream).
TailStops == (client = "gone") ~> (tail.pc = "stopped")
=============================================================================
