---------------------------- MODULE ConsumeStream ----------------------------
(***************************************************************************)
(* internal/messaging/consume.go and the parts of client.go it calls: the  *)
(* consumer-group read loop every service of the system runs.              *)
(*                                                                         *)
(* The stream keeps every entry.  An entry is <<id, kind>>: a "good"       *)
(* message, a "bad" one whose handler returns an error, or "junk" that     *)
(* DecodeFromStream rejects.  Valkey (XREADGROUP, XACK, XINFO) is modelled *)
(* from its use.  The process may crash and be restarted, calls to Valkey  *)
(* may fail, and an operator may destroy the group or flush the database;  *)
(* each of these happens at most as often as its bound says.               *)
(***************************************************************************)
EXTENDS Integers, Sequences, FiniteSets, Functions

CONSTANTS MaxMessages, ReadCount, BackoffCap,
          MaxReadFaults, MaxCrashes, MaxDrops, MaxFlushes

\* What the constants satisfy.
ConsumeAssumption ==
    /\ {MaxMessages, ReadCount, BackoffCap} \subseteq Nat \ {0}
    /\ {MaxReadFaults, MaxCrashes, MaxDrops, MaxFlushes} \subseteq Nat

VARIABLES
    stream,     \* the entries of the stream, oldest first
    sent,       \* how many messages were ever published
    group,      \* [exists, last, pel]: last-delivered position and the PEL
    pc,         \* "down", "loop", "handle" or "ack"
    batch,      \* entries returned by ReadGroup and not yet acknowledged
    backoff, streak,
    stats,      \* [handled, errors]: ConsumeStats of this process
    baseline,   \* lastHandledBaseline
    calls,      \* history: the ids the handler was invoked for
    lost,       \* history: ids dropped by a crash or a flush
    used        \* [faults, crashes, drops, flushes] spent so far

consumeVars == <<stream, sent, group, pc, batch, backoff, streak, stats, baseline,
          calls, lost, used>>
local == <<pc, batch, backoff, streak, stats, baseline>>
history == <<calls, lost>>

Kinds == {"good", "bad", "junk"}
IdsOf(entries) == {e[1] : e \in Range(entries)}
Decodable(e) == e[2] # "junk"
Unread == SubSeq(stream, group.last + 1, Len(stream))

Spend(what) ==
    /\ used[what] < [faults |-> MaxReadFaults, crashes |-> MaxCrashes,
                     drops |-> MaxDrops, flushes |-> MaxFlushes][what]
    /\ used' = [used EXCEPT ![what] = @ + 1]

NoGroup == [exists |-> FALSE, last |-> 0, pel |-> {}]

\* EnsureGroup: XGROUP CREATE MKSTREAM at "0"; BUSYGROUP is not an error.
EnsureGroup_FromEnd ==
    IF group.exists THEN group
    ELSE [exists |-> TRUE, last |-> Len(stream), pel |-> {}]
EnsureGroup == IF group.exists THEN group ELSE [NoGroup EXCEPT !.exists = TRUE]

NextBackoff(b) == IF 2 * b > BackoffCap THEN BackoffCap ELSE 2 * b

ConsumeInit ==
    /\ stream = <<>> /\ sent = 0 /\ group = NoGroup
    /\ pc = "down" /\ batch = <<>> /\ backoff = 1 /\ streak = 0
    /\ stats = [handled |-> 0, errors |-> 0] /\ baseline = 0
    /\ calls = <<>> /\ lost = {}
    /\ used = [faults |-> 0, crashes |-> 0, drops |-> 0, flushes |-> 0]

-----------------------------------------------------------------------------
Publish(kind) ==
    /\ sent < MaxMessages
    /\ sent' = sent + 1
    /\ stream' = Append(stream, <<sent + 1, kind>>)
    /\ UNCHANGED <<group, local, history, used>>

\* The entry of ConsumeStream, run again by a restarted process.
Start ==
    /\ pc = "down"
    /\ group' = EnsureGroup
    /\ pc' = "loop"
    /\ UNCHANGED <<stream, sent, batch, backoff, streak, stats, baseline,
                   history, used>>

\* checkPhantomConsume, on a tick of the ticker.  Its warning is only logged.
CheckPhantomConsume ==
    /\ pc = "loop" /\ group.exists
    /\ baseline' = stats.handled
    /\ UNCHANGED <<stream, sent, group, pc, batch, backoff, streak, stats,
                   history, used>>

\* XREADGROUP moves the group past the n entries it returns ...
Delivered_OffByOne(n) == group.last + n - 1
Delivered(n) == group.last + n

\* ... and ReadGroup acknowledges the undecodable ones before it returns.
AckedByRead_None(got) == {}
AckedByRead(got) == {e[1] : e \in {d \in Range(got) : ~Decodable(d)}}

\* The messages it returns: the decodable entries, in the order of their ids.
Decoded(got) ==
    {b \in UNION {[1..m -> Range(got)] : m \in 0..Len(got)} :
        /\ Range(b) = {e \in Range(got) : Decodable(e)}
        /\ \A i, j \in DOMAIN b : i < j => b[i][1] < b[j][1]}

ReadMessages ==
    /\ pc = "loop" /\ group.exists /\ Unread # <<>>
    /\ LET n == IF Len(Unread) < ReadCount THEN Len(Unread) ELSE ReadCount
           got == SubSeq(Unread, 1, n)
       IN  /\ batch' \in Decoded(got)
           /\ group' = [group EXCEPT
                !.last = Delivered(n),
                !.pel = @ \cup (IdsOf(got) \ AckedByRead(got))]
    /\ pc' = IF batch' = <<>> THEN "loop" ELSE "handle"
    /\ streak' = 0 /\ backoff' = 1
    /\ UNCHANGED <<stream, sent, stats, baseline, history, used>>

\* errClassNil: the block window passed without an entry.
ReadIdle ==
    /\ pc = "loop" /\ group.exists /\ Unread = <<>>
    /\ streak' = 0 /\ backoff' = 1
    /\ UNCHANGED <<stream, sent, group, pc, batch, stats, baseline, history,
                   used>>

\* errClassNoGroup: recreate the group; when that fails too, sleep.
ReadNoGroup ==
    /\ pc = "loop" /\ ~group.exists
    /\ \/ /\ group' = EnsureGroup
          /\ UNCHANGED <<backoff, used>>
       \/ /\ Spend("faults")
          /\ backoff' = NextBackoff(backoff)
          /\ UNCHANGED group
    /\ UNCHANGED <<stream, sent, pc, batch, streak, stats, baseline, history>>

\* errClassUnknown: count it and sleep for the backoff.
ReadError ==
    /\ pc = "loop" /\ Spend("faults")
    /\ streak' = streak + 1
    /\ backoff' = NextBackoff(backoff)
    /\ UNCHANGED <<stream, sent, group, pc, batch, stats, baseline, history>>

HandleMessage ==
    /\ pc = "handle"
    /\ calls' = Append(calls, Head(batch)[1])
    /\ stats' = IF Head(batch)[2] = "good"
                THEN [stats EXCEPT !.handled = @ + 1]
                ELSE [stats EXCEPT !.errors = @ + 1]
    /\ pc' = "ack"
    /\ UNCHANGED <<stream, sent, group, batch, backoff, streak, baseline,
                   lost, used>>

\* What is left of the batch, whether the acknowledgement was sent or not.
AfterAck_Retry(ok) == IF ok THEN Tail(batch) ELSE batch
AfterAck(ok) == Tail(batch)

\* The acknowledgement is sent whatever the handler returned, and a failure
\* to send it is only logged.
AckHandled ==
    /\ pc = "ack"
    /\ \/ /\ group' = [group EXCEPT !.pel = @ \ {Head(batch)[1]}]
          /\ batch' = AfterAck(TRUE)
          /\ UNCHANGED used
       \/ Spend("faults") /\ batch' = AfterAck(FALSE) /\ UNCHANGED group
    /\ pc' = IF batch' = <<>> THEN "loop" ELSE "handle"
    /\ UNCHANGED <<stream, sent, backoff, streak, stats, baseline, history>>

\* The process dies (or its context ends) with a batch in hand.
Crash ==
    /\ pc # "down" /\ Spend("crashes")
    /\ lost' = lost \cup (IdsOf(batch) \ Range(calls))
    /\ pc' = "down" /\ batch' = <<>> /\ backoff' = 1 /\ streak' = 0
    /\ stats' = [handled |-> 0, errors |-> 0] /\ baseline' = 0
    /\ UNCHANGED <<stream, sent, group, calls>>

\* XGROUP DESTROY, the entries stay.
DropGroup ==
    /\ group.exists /\ Spend("drops")
    /\ group' = NoGroup
    /\ UNCHANGED <<stream, sent, local, history>>

FlushDB ==
    /\ Spend("flushes")
    /\ lost' = lost \cup (IdsOf(Unread) \ Range(calls))
    /\ stream' = <<>> /\ group' = NoGroup
    /\ UNCHANGED <<sent, local, calls>>

Loop == Start \/ ReadMessages \/ ReadIdle \/ ReadNoGroup \/ HandleMessage \/ AckHandled

ConsumeNext ==
    \/ \E k \in Kinds : Publish(k)
    \/ Loop
    \/ CheckPhantomConsume
    \/ ReadError
    \/ Crash
    \/ DropGroup
    \/ FlushDB

\* The loop never stops by itself, and Valkey fails only finitely often.
ConsumeFairness == WF_consumeVars(Loop)

ConsumeSpec == ConsumeInit /\ [][ConsumeNext]_consumeVars /\ ConsumeFairness

-----------------------------------------------------------------------------
\* Every variable keeps its shape, and the loop its program counter.
ConsumeTypeOK ==
    /\ stream \in Seq((1..MaxMessages) \X Kinds) /\ sent \in 0..MaxMessages
    /\ group \in [exists : BOOLEAN, last : 0..Len(stream),
                  pel : SUBSET (1..MaxMessages)]
    /\ pc \in {"down", "loop", "handle", "ack"}
    /\ Len(batch) <= ReadCount /\ (batch = <<>>) = (pc \in {"down", "loop"})
    /\ backoff \in 1..BackoffCap /\ streak \in 0..MaxReadFaults
    /\ baseline \in 0..stats.handled

\* Group recovery and restarts never reorder: while the group is never
\* destroyed, handlers run in publication order and never twice for a
\* message, whatever crashes, failed acknowledgements and flushes happen.
InOrderOnce ==
    used.drops = 0 =>
        \A i, j \in 1..Len(calls) : i < j => calls[i] < calls[j]

\* An entry still pending when the loop reads again is one whose
\* acknowledgement failed or that a crash cut off: no kind of message, not
\* even an undecodable one, stays in the PEL by itself.
PendingExplained ==
    used.faults = 0 /\ used.crashes = 0 /\ pc = "loop" => group.pel = {}

\* Every decodable message is in the end given to the handler, unless a crash
\* or a flush dropped it: the loop always comes back from errors and from a
\* missing group.
HandledOrLost ==
    \A i \in 1..MaxMessages :
        (\E e \in Range(stream) : e[1] = i /\ Decodable(e))
            ~> (i \in Range(calls) \/ i \in lost)

\* Refinement: the fate of a message as Lifecycle sees it.
fate == [i \in 1..MaxMessages |->
            IF i > sent THEN "new"
            ELSE IF i \in Range(calls) THEN "done"
            ELSE IF i \in IdsOf(batch) THEN "taken"
            ELSE IF i \in IdsOf(Unread) THEN "queued"
            ELSE "lost"]

L == INSTANCE Lifecycle WITH
        Ids <- 1..MaxMessages, fate <- fate, destroyed <- used.drops > 0

\* A consumer gives every message the life that Lifecycle describes, as long as
\* its group is not destroyed (consume.go, ConsumeStream).
LifecycleSpec == L!Spec

\* While the group is never destroyed, handlers run in publication order and
\* never twice for a message, and only a failed acknowledgement or a crash
\* leaves an entry pending (consume.go, ConsumeStream; client.go, ReadGroup).
ConsumeSound == ConsumeTypeOK /\ InOrderOnce /\ PendingExplained
=============================================================================
