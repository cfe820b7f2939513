--------------------------- MODULE PlatformProofs ---------------------------
(***************************************************************************)
(* What the services share, for every value of the constants.              *)
(*                                                                         *)
(* LogStream: no log line is lost without being counted, and a dashboard's *)
(* tail shows entries in the order of the stream and none twice.  The      *)
(* count is inductive with the types of what it adds up.  The order is     *)
(* not: it needs the whole way of an entry, from the reader's position     *)
(* over its batch and the channel to what was shown.                       *)
(*                                                                         *)
(* ConsumeStream: handlers run in publication order and never twice for a  *)
(* message, and every message has the life that Lifecycle describes, while *)
(* the group is not destroyed.  Here too the invariant is the way of an    *)
(* id: up to Mark the group has delivered, the batch holds delivered ids   *)
(* in order, and the handler has seen none that is not before it.          *)
(*                                                                         *)
(* ToolGate: main-agent's gate lets through what was offered, within a     *)
(* turn, for any sessions, skills and tools.                               *)
(***************************************************************************)
EXTENDS LogStream, ConsumeStream, ToolGate, Integers, TLAPS

-----------------------------------------------------------------------------
(* The path of a log line *)

CountTypes ==
    /\ {stdout, unsent, queue, drops, warned, last, faults} \subseteq Nat
    /\ drain \in {"idle", "xadd"}

\* The initial state counts every line.
LEMMA InitCounts == Init => CountTypes /\ EveryLineCounted
  BY DEF Init, CountTypes, EveryLineCounted

\* Every step keeps the count.
LEMMA CountStep ==
  CountTypes /\ EveryLineCounted /\ [Next]_vars => (CountTypes /\ EveryLineCounted)'
<1> SUFFICES ASSUME CountTypes, EveryLineCounted, [Next]_vars
             PROVE  (CountTypes /\ EveryLineCounted)'
  BY Zenon
<1> USE DEF CountTypes, EveryLineCounted
<1>1. CASE Handle
  BY <1>1 DEF Handle, Room, streamVars
<1>2. CASE DrainTake
  BY <1>2 DEF DrainTake, streamVars
<1>3. CASE DrainAdd
  BY <1>3 DEF DrainAdd, XAdd
<1>4. CASE DrainFails
  <2>1. CASE XAdd
    BY <1>4, <2>1 DEF DrainFails, FailedAdd, XAdd
  <2>2. CASE UNCHANGED streamVars
    BY <1>4, <2>2 DEF DrainFails, FailedAdd, streamVars
  <2>3. QED
    BY <1>4, <2>1, <2>2, Zenon DEF DrainFails
<1>5. CASE WarnLoop
  BY <1>5 DEF WarnLoop, streamVars
<1>6. CASE UNCHANGED <<pubVars, streamVars>> /\ faults' \in {faults, faults + 1}
  BY <1>6 DEF pubVars, streamVars
<1>7. QED
  BY <1>1, <1>2, <1>3, <1>4, <1>5, <1>6, Zenon
     DEF Next, Open, XRead, ReadEntries, ReadNothing, Push, Show, Leave, Stop, vars

\* Publisher: every line on stdout is on its way, in the stream, or counted as
\* dropped, and none is counted twice unless a command failed.
THEOREM LinesCounted == Spec => []EveryLineCounted
  BY InitCounts, CountStep, PTL DEF Spec

-----------------------------------------------------------------------------
(* The order of what a tail shows.                                         *)

Increasing(s) == \A i, j \in DOMAIN s : i < j => s[i] < s[j]
AtMost(s, n) == \A i \in DOMAIN s : s[i] <= n
Above(s, n) == \A i \in DOMAIN s : s[i] > n
Before(s, t) == \A i \in DOMAIN s, j \in DOMAIN t : s[i] < t[j]

TailTypes ==
    /\ last \in Nat /\ first \in Nat
    /\ events \in Seq(Nat) /\ shown \in Seq(Nat)
    /\ tail \in [pc : {"off", "next", "blocked", "push", "stopped"}, lastID : Nat,
                 from : Nat, batch : Seq(Nat)]

\* Everything pushed is at or below the reader's position and everything in
\* its batch above it, and what was shown is below what waits in the channel.
Ordered ==
    /\ Increasing(shown) /\ Increasing(events) /\ Increasing(tail.batch)
    /\ AtMost(shown, tail.lastID) /\ AtMost(events, tail.lastID)
    /\ Above(tail.batch, tail.lastID)
    /\ Before(shown, events)
    /\ tail.pc = "blocked" => tail.from >= tail.lastID

\* Appending something larger keeps a sequence increasing.
LEMMA AppendIncreasing ==
  ASSUME NEW s \in Seq(Nat), NEW n \in Nat, Increasing(s), \A i \in DOMAIN s : s[i] < n
  PROVE  Append(s, n) \in Seq(Nat) /\ Increasing(Append(s, n)) /\ AtMost(Append(s, n), n)
<1>1. Append(s, n) \in Seq(Nat) /\ Increasing(Append(s, n))
  BY DEF Increasing
<1>2. \A i \in DOMAIN Append(s, n) : Append(s, n)[i] <= n
  <2>1. \A i \in DOMAIN s : s[i] \in Nat
    OBVIOUS
  <2>2. \A i \in DOMAIN Append(s, n) :
          (i \in DOMAIN s /\ Append(s, n)[i] = s[i]) \/ Append(s, n)[i] = n
    OBVIOUS
  <2>3. QED
    BY <2>1, <2>2
<1>3. QED
  BY <1>1, <1>2, Zenon DEF AtMost

\* The tail of an increasing sequence is increasing and above its head.
LEMMA TailIncreasing ==
  ASSUME NEW s \in Seq(Nat), s # <<>>, Increasing(s)
  PROVE  /\ Head(s) \in Nat /\ Tail(s) \in Seq(Nat) /\ Increasing(Tail(s))
         /\ Above(Tail(s), Head(s))
<1>1. \A j \in DOMAIN Tail(s) : Tail(s)[j] = s[j + 1] /\ j + 1 \in DOMAIN s /\ j \in Nat \ {0}
  OBVIOUS
<1>2. 1 \in DOMAIN s /\ Head(s) = s[1] /\ Head(s) \in Nat /\ Tail(s) \in Seq(Nat)
  OBVIOUS
<1>3. Increasing(Tail(s))
  BY <1>1 DEF Increasing
<1>4. \A j \in DOMAIN Tail(s) : s[1] < s[j + 1]
  BY <1>1, <1>2 DEF Increasing
<1>5. \A j \in DOMAIN Tail(s) : Tail(s)[j] > Head(s)
  <2>1. \A j \in DOMAIN s : s[j] \in Nat
    OBVIOUS
  <2>2. QED
    BY <1>1, <1>2, <1>4, <2>1, Zenon
<1>6. QED
  BY <1>2, <1>3, <1>5, Zenon DEF Above

\* Something larger than all of s at the end of t.
LEMMA AppendBefore ==
  ASSUME NEW s \in Seq(Nat), NEW t \in Seq(Nat), NEW n \in Nat, Before(s, t),
         \A i \in DOMAIN s : s[i] < n
  PROVE  Before(s, Append(t, n))
  BY DEF Before

\* The head of t moves to the end of s.
LEMMA MoveHead ==
  ASSUME NEW s \in Seq(Nat), NEW t \in Seq(Nat), t # <<>>, Before(s, t), Increasing(t)
  PROVE  Before(Append(s, Head(t)), Tail(t))
<1>1. \A j \in DOMAIN Tail(t) : Tail(t)[j] = t[j + 1] /\ j + 1 \in DOMAIN t /\ j + 1 > 1
  OBVIOUS
<1>2. 1 \in DOMAIN t /\ Head(t) = t[1] /\ Head(t) \in Nat
  OBVIOUS
<1>3. \A j \in DOMAIN Tail(t) : Head(t) < Tail(t)[j]
  BY <1>1, <1>2, Zenon DEF Increasing
<1>4. \A i \in DOMAIN s, j \in DOMAIN Tail(t) : s[i] < Tail(t)[j]
  BY <1>1, Zenon DEF Before
<1>5. \A i \in DOMAIN Append(s, Head(t)) :
        \/ i \in DOMAIN s /\ Append(s, Head(t))[i] = s[i]
        \/ Append(s, Head(t))[i] = Head(t)
  BY <1>2
<1>6. QED
  BY <1>3, <1>4, <1>5, Zenon DEF Before

\* ... and the bound of both stays.
LEMMA MoveAtMost ==
  ASSUME NEW s \in Seq(Nat), NEW t \in Seq(Nat), NEW n \in Nat, t # <<>>,
         AtMost(s, n), AtMost(t, n)
  PROVE  AtMost(Append(s, Head(t)), n) /\ AtMost(Tail(t), n)
<1>1. \A j \in DOMAIN Tail(t) : Tail(t)[j] = t[j + 1] /\ j + 1 \in DOMAIN t
  OBVIOUS
<1>2. Head(t) = t[1] /\ 1 \in DOMAIN t /\ Head(t) \in Nat
  OBVIOUS
<1>3. \A i \in DOMAIN Append(s, Head(t)) :
        \/ i \in DOMAIN s /\ Append(s, Head(t))[i] = s[i]
        \/ Append(s, Head(t))[i] = Head(t)
  BY <1>2, SMTT(30)
<1>4. QED
  BY <1>1, <1>2, <1>3, Zenon DEF AtMost

\* The empty sequence satisfies all of them.
LEMMA EmptyOrdered ==
  /\ <<>> \in Seq(Nat) /\ Increasing(<<>>) /\ Before(<<>>, <<>>)
  /\ \A n \in Nat : AtMost(<<>>, n) /\ Above(<<>>, n)
  BY DEF Increasing, Before, AtMost, Above

\* An XREAD returns increasing entries above the id it starts from.
LEMMA AfterIncreasing ==
  ASSUME NEW f \in Nat, last \in Nat, first \in Nat, LogStreamAssumption
  PROVE  After(f) \in Seq(Nat) /\ Increasing(After(f)) /\ Above(After(f), f)
<1> DEFINE low == IF f + 1 > first THEN f + 1 ELSE first
           high == IF low + Count - 1 < last THEN low + Count - 1 ELSE last
           n == IF high >= low THEN high - low + 1 ELSE 0
<1>1. Count \in Nat \ {0}
  BY Zenon DEF LogStreamAssumption
<1>2. low \in Nat /\ low > f /\ high \in Nat
  BY <1>1
<1>3. n \in Nat
  BY <1>2
<1>4. After(f) = [i \in 1 .. n |-> low + i - 1]
  BY Zenon DEF After
<1> HIDE DEF low, high, n
<1>5. After(f) \in Seq(Nat)
  <2>1. \A i \in 1 .. n : low + i - 1 \in Nat
    BY <1>2, <1>3
  <2>2. QED
    BY <1>3, <1>4, <2>1
<1>6. DOMAIN After(f) = 1 .. n /\ \A i \in 1 .. n : After(f)[i] = low + i - 1
  BY <1>4, Zenon
<1>7. \A i, j \in 1 .. n : i < j => low + i - 1 < low + j - 1
  BY <1>2, <1>3
<1>8. \A i \in 1 .. n : low + i - 1 > f
  BY <1>2, <1>3
<1>9. QED
  BY <1>5, <1>6, <1>7, <1>8, Zenon DEF Increasing, Above

\* The initial state is ordered.
LEMMA InitOrdered == Init => TailTypes /\ Ordered
<1> SUFFICES ASSUME Init PROVE TailTypes /\ Ordered
  BY Zenon
<1>1. TailTypes
  BY LogStreamAssumption DEF Init, TailTypes, Newest, LogStreamAssumption
<1>2. QED
  BY <1>1, EmptyOrdered, Zenon DEF Init, Ordered, Newest

\* Every step keeps the order.
LEMMA OrderStep ==
  TailTypes /\ Ordered /\ [Next]_vars => (TailTypes /\ Ordered)'
<1> SUFFICES ASSUME TailTypes, Ordered, [Next]_vars PROVE TailTypes' /\ Ordered'
  BY Zenon
<1>1. CASE XAdd /\ UNCHANGED tailVars
  <2>1. last' \in Nat /\ first' \in Nat
    BY <1>1, LogStreamAssumption DEF XAdd, TailTypes, LogStreamAssumption
  <2>2. QED
    BY <1>1, <2>1, Zenon DEF TailTypes, Ordered, tailVars
<1>2. CASE Open
  BY <1>2, Zenon DEF Open, TailTypes, Ordered, streamVars
<1>3. CASE XRead
  <2>1. StartOf(tail.lastID) \in Nat /\ StartOf(tail.lastID) >= tail.lastID
    BY DEF StartOf, Newest, TailTypes
  <2>2. tail' \in [pc : {"off", "next", "blocked", "push", "stopped"}, lastID : Nat,
                   from : Nat, batch : Seq(Nat)]
    BY <1>3, <2>1, Zenon DEF XRead, TailTypes
  <2>3. /\ tail'.pc = "blocked" /\ tail'.from = StartOf(tail.lastID)
        /\ tail'.lastID = tail.lastID /\ tail'.batch = tail.batch
    BY <1>3, Zenon DEF XRead, TailTypes
  <2>4. QED
    BY <1>3, <2>1, <2>2, <2>3, Zenon DEF XRead, TailTypes, Ordered, streamVars
<1>4. CASE ReadEntries
  <2>1. /\ After(tail.from) \in Seq(Nat) /\ Increasing(After(tail.from))
        /\ Above(After(tail.from), tail.from)
    BY AfterIncreasing, LogStreamAssumption, Zenon DEF TailTypes
  <2>2. /\ tail'.pc = "push" /\ tail'.batch = After(tail.from)
        /\ tail'.lastID = tail.lastID /\ tail'.from = tail.from
    BY <1>4, Zenon DEF ReadEntries, TailTypes
  <2>3. TailTypes'
    BY <1>4, <2>1, Zenon DEF ReadEntries, TailTypes, streamVars
  <2>4. Above(After(tail.from), tail.lastID)
    BY <1>4, <2>1 DEF ReadEntries, TailTypes, Ordered, Above
  <2>5. QED
    BY <1>4, <2>1, <2>2, <2>3, <2>4, Zenon DEF ReadEntries, Ordered
<1>5. CASE ReadNothing
  BY <1>5, Zenon DEF ReadNothing, TailTypes, Ordered, streamVars
<1>6. CASE Push
  <2>1. CASE tail.batch # <<>> /\ tail.pc = "push"
             /\ events' = Append(events, Head(tail.batch))
             /\ tail' = [tail EXCEPT !.lastID = Seen(Head(tail.batch)),
                                     !.batch = Tail(tail.batch)]
    <3> DEFINE m == Head(tail.batch)
    <3>1. /\ m \in Nat /\ Tail(tail.batch) \in Seq(Nat) /\ Increasing(Tail(tail.batch))
          /\ Above(Tail(tail.batch), m)
      BY <2>1, TailIncreasing, Zenon DEF TailTypes, Ordered
    <3>2. m > tail.lastID
      BY <2>1 DEF TailTypes, Ordered, Above
    <3>3. (\A i \in DOMAIN events : events[i] < m) /\ (\A i \in DOMAIN shown : shown[i] < m)
      BY <3>1, <3>2, SMTT(30) DEF TailTypes, Ordered, AtMost
    <3>4. events' \in Seq(Nat) /\ Increasing(events') /\ AtMost(events', m)
      BY <2>1, <3>1, <3>3, AppendIncreasing, Zenon DEF TailTypes, Ordered
    <3>5. /\ tail'.lastID = m /\ tail'.batch = Tail(tail.batch) /\ tail'.pc = "push"
          /\ tail' \in [pc : {"off", "next", "blocked", "push", "stopped"}, lastID : Nat,
                        from : Nat, batch : Seq(Nat)]
      BY <2>1, <3>1, Zenon DEF Seen, TailTypes
    <3>6. AtMost(shown, m)
      BY <3>1, <3>3 DEF TailTypes, AtMost
    <3>7. Before(shown, events')
      BY <2>1, <3>1, <3>3, AppendBefore, Zenon DEF TailTypes, Ordered
    <3>8. UNCHANGED <<shown, last, first>>
      BY <1>6, Zenon DEF Push, streamVars
    <3> HIDE DEF m
    <3>9. QED
      BY <3>1, <3>4, <3>5, <3>6, <3>7, <3>8, Zenon DEF TailTypes, Ordered
  <2>2. CASE tail' = [tail EXCEPT !.pc = "next"] /\ UNCHANGED events
    BY <1>6, <2>2, Zenon DEF Push, TailTypes, Ordered, streamVars
  <2>3. QED
    BY <1>6, <2>1, <2>2, Zenon DEF Push
<1>7. CASE Show
  <2>1. /\ Head(events) \in Nat /\ Tail(events) \in Seq(Nat) /\ Increasing(Tail(events))
        /\ Above(Tail(events), Head(events))
    BY <1>7, TailIncreasing, Zenon DEF Show, TailTypes, Ordered
  <2>2. \A i \in DOMAIN shown : shown[i] < Head(events)
    BY <1>7 DEF Show, TailTypes, Ordered, Before
  <2>3. shown' \in Seq(Nat) /\ Increasing(shown')
    BY <1>7, <2>1, <2>2, AppendIncreasing, Zenon DEF Show, TailTypes, Ordered
  <2>4. AtMost(shown', tail.lastID) /\ AtMost(events', tail.lastID)
    BY <1>7, MoveAtMost, Zenon DEF Show, TailTypes, Ordered
  <2>5. Before(shown', events')
    BY <1>7, MoveHead, Zenon DEF Show, TailTypes, Ordered
  <2>6. QED
    BY <1>7, <2>1, <2>3, <2>4, <2>5, Zenon DEF Show, TailTypes, Ordered, streamVars
<1>8. CASE Stop
  <2>1. tail'.pc = "stopped" /\ tail'.batch = <<>> /\ tail'.lastID = tail.lastID
    BY <1>8, Zenon DEF Stop, TailTypes
  <2>2. TailTypes'
    BY <1>8, EmptyOrdered, Zenon DEF Stop, TailTypes, streamVars
  <2>3. Increasing(<<>>) /\ Above(<<>>, tail.lastID)
    BY EmptyOrdered, Zenon DEF TailTypes
  <2>4. QED
    BY <1>8, <2>1, <2>2, <2>3, Zenon DEF Stop, Ordered
<1>9. CASE UNCHANGED <<last, first, tail, events, shown>>
  BY <1>9, Zenon DEF TailTypes, Ordered
<1>10. QED
  BY <1>1, <1>2, <1>3, <1>4, <1>5, <1>6, <1>7, <1>8, <1>9, Zenon
     DEF Next, Handle, DrainTake, DrainAdd, DrainFails, WarnLoop, Leave,
         streamVars, tailVars, vars

\* tailStream: the client sees entries in the order of the stream and none twice.
THEOREM TailInOrder == Spec => []ShownInOrder
<1>1. TailTypes /\ Ordered => ShownInOrder
  BY Zenon DEF Ordered, Increasing, ShownInOrder
<1>2. QED
  BY InitOrdered, OrderStep, <1>1, PTL DEF Spec

-----------------------------------------------------------------------------
(* The consumer loop *)

Entries == (1 .. MaxMessages) \X Kinds

Groups == [exists : BOOLEAN, last : Nat, pel : SUBSET (1 .. MaxMessages)]
Spent == [faults : 0 .. MaxReadFaults, crashes : 0 .. MaxCrashes, drops : 0 .. MaxDrops,
          flushes : 0 .. MaxFlushes]

ConsumeTypes ==
    /\ stream \in Seq(Entries) /\ sent \in 0 .. MaxMessages
    /\ group \in Groups
    /\ group.last <= Len(stream) /\ (group.exists \/ group = NoGroup)
    /\ pc \in {"down", "loop", "handle", "ack"}
    /\ batch \in Seq(Entries) /\ Len(batch) <= ReadCount
    /\ batch = <<>> <=> pc \in {"down", "loop"}
    /\ used \in Spent
    /\ calls \in Seq(1 .. MaxMessages)

\* What the loop counts.
ConsumeCounts ==
    /\ backoff \in 1 .. BackoffCap /\ streak \in 0 .. used.faults
    /\ stats \in [handled : Nat, errors : Nat] /\ baseline \in 0 .. stats.handled

\* The ids of the stream are those published since the last flush.
ConsumeIds ==
    /\ Len(stream) <= sent
    /\ \A k \in 1 .. Len(stream) : stream[k][1] = sent - Len(stream) + k

\* The id up to which the group has delivered.
Mark == sent - Len(stream) + group.last

\* The way of an id: delivered into the batch, in order, and then to the handler.
ConsumeOrder ==
    /\ \A i, j \in 1 .. Len(calls) : i < j => calls[i] < calls[j]
    /\ \A i, j \in 1 .. Len(batch) : i < j => batch[i][1] < batch[j][1]
    /\ \A i \in 1 .. Len(calls) : calls[i] <= Mark
    /\ \A i \in 1 .. Len(batch) : batch[i][1] <= Mark
    /\ \A i \in 1 .. Len(calls), j \in 1 .. Len(batch) :
         IF pc = "ack" /\ j = 1 THEN calls[i] <= batch[j][1] ELSE calls[i] < batch[j][1]
    /\ pc = "ack" => \E i \in 1 .. Len(calls) : calls[i] = batch[1][1]

\* As long as nothing failed, what is pending is in hand.
ConsumePending ==
    used.faults = 0 /\ used.crashes = 0 => group.pel \subseteq IdsOf(batch)

ConsumeInv ==
    /\ ConsumeTypes /\ ConsumeCounts /\ ConsumeIds /\ ConsumePending
    /\ used.drops = 0 => ConsumeOrder

\* A fault is counted, and nothing else.
LEMMA SpendsFault ==
  ASSUME ConsumeAssumption, used \in Spent, Spend("faults")
  PROVE  /\ used' \in Spent /\ used'.faults = used.faults + 1
         /\ used'.crashes = used.crashes /\ used'.drops = used.drops
  BY DEF Spend, Spent, ConsumeAssumption

\* A crash is counted, and nothing else.
LEMMA SpendsCrash ==
  ASSUME ConsumeAssumption, used \in Spent, Spend("crashes")
  PROVE  /\ used' \in Spent /\ used'.crashes = used.crashes + 1
         /\ used'.faults = used.faults /\ used'.drops = used.drops
  BY DEF Spend, Spent, ConsumeAssumption

\* A destroyed group is counted, and nothing else.
LEMMA SpendsDrop ==
  ASSUME ConsumeAssumption, used \in Spent, Spend("drops")
  PROVE  /\ used' \in Spent /\ used'.drops = used.drops + 1
         /\ used'.faults = used.faults /\ used'.crashes = used.crashes
  BY DEF Spend, Spent, ConsumeAssumption

\* A flush is counted, and nothing else.
LEMMA SpendsFlush ==
  ASSUME ConsumeAssumption, used \in Spent, Spend("flushes")
  PROVE  /\ used' \in Spent /\ used'.drops = used.drops
         /\ used'.faults = used.faults /\ used'.crashes = used.crashes
  BY DEF Spend, Spent, ConsumeAssumption

\* EnsureGroup makes a group that has delivered nothing, or leaves the group.
LEMMA EnsuresGroup ==
  ASSUME group \in Groups, group.exists \/ group = NoGroup
  PROVE  /\ EnsureGroup \in Groups /\ EnsureGroup.exists
         /\ EnsureGroup.last = group.last /\ EnsureGroup.pel = group.pel
  BY Zenon DEF EnsureGroup, NoGroup, Groups

\* What a sequence holds after its first a elements.
LEMMA RestOf ==
  ASSUME NEW S, NEW s \in Seq(S), NEW a \in Nat, a <= Len(s)
  PROVE  /\ SubSeq(s, a + 1, Len(s)) \in Seq(S) /\ Len(SubSeq(s, a + 1, Len(s))) = Len(s) - a
         /\ \A k \in 1 .. Len(s) - a : SubSeq(s, a + 1, Len(s))[k] = s[a + k]
<1>1. SubSeq(s, a + 1, Len(s)) \in Seq(S) /\ Len(SubSeq(s, a + 1, Len(s))) = Len(s) - a
  OBVIOUS
<1>2. ASSUME NEW k \in 1 .. Len(s) - a
      PROVE  SubSeq(s, a + 1, Len(s))[k] = s[a + k]
  <2>1. (a + 1) + k - 1 = a + k
    OBVIOUS
  <2>2. SubSeq(s, a + 1, Len(s))[k] = s[(a + 1) + k - 1]
    OBVIOUS
  <2>3. QED
    BY <2>1, <2>2, Zenon
<1>3. QED
  BY <1>1, <1>2, Zenon

\* What is not delivered: the ids after Mark.
LEMMA UnreadIs ==
  ASSUME ConsumeTypes, ConsumeIds
  PROVE  /\ Unread \in Seq(Entries) /\ Len(Unread) = Len(stream) - group.last
         /\ \A k \in 1 .. Len(Unread) :
              Unread[k] = stream[group.last + k] /\ Unread[k][1] = Mark + k
         /\ IdsOf(Unread) = Mark + 1 .. sent
<1>1. /\ stream \in Seq(Entries) /\ group.last \in Nat /\ group.last <= Len(stream)
      /\ sent \in Nat /\ Len(stream) <= sent
      /\ \A k \in 1 .. Len(stream) : stream[k][1] = sent - Len(stream) + k
  BY DEF ConsumeTypes, ConsumeIds, Groups
<1>2. /\ Unread \in Seq(Entries) /\ Len(Unread) = Len(stream) - group.last
      /\ \A k \in 1 .. Len(Unread) : Unread[k] = stream[group.last + k]
  <2>1. /\ SubSeq(stream, group.last + 1, Len(stream)) \in Seq(Entries)
        /\ Len(SubSeq(stream, group.last + 1, Len(stream))) = Len(stream) - group.last
        /\ \A k \in 1 .. Len(stream) - group.last :
             SubSeq(stream, group.last + 1, Len(stream))[k] = stream[group.last + k]
    BY <1>1, RestOf, Zenon
  <2>2. Unread = SubSeq(stream, group.last + 1, Len(stream))
    BY Zenon DEF Unread
  <2>3. QED
    BY <2>1, <2>2, Zenon
<1>3. ASSUME NEW k \in 1 .. Len(Unread) PROVE Unread[k][1] = Mark + k
  <2>1. Unread[k] = stream[group.last + k] /\ group.last + k \in 1 .. Len(stream)
    BY <1>1, <1>2, SMTT(30)
  <2>2. QED
    BY <1>1, <2>1, SMTT(30) DEF Mark
<1>4. DOMAIN Unread = 1 .. Len(Unread)
  BY <1>2
<1>5. IdsOf(Unread) = {Unread[k][1] : k \in 1 .. Len(Unread)}
  BY <1>4, Zenon DEF IdsOf, Range
<1>6. {Unread[k][1] : k \in 1 .. Len(Unread)} = {Mark + k : k \in 1 .. Len(Unread)}
  BY <1>3, Zenon
<1>7. {Mark + k : k \in 1 .. Len(Unread)} = Mark + 1 .. sent
  <2>1. Mark \in Int /\ Mark + Len(Unread) = sent /\ Len(Unread) \in Nat
    BY <1>1, <1>2 DEF Mark
  <2>2. \A i \in Mark + 1 .. sent : i - Mark \in 1 .. Len(Unread) /\ i = Mark + (i - Mark)
    BY <1>1, <2>1
  <2>3. \A k \in 1 .. Len(Unread) : Mark + k \in Mark + 1 .. sent
    BY <1>1, <2>1
  <2>4. QED
    BY <2>2, <2>3, Zenon
<1>8. QED
  BY <1>2, <1>3, <1>5, <1>6, <1>7, Zenon

\* The ids of a sequence of entries.
LEMMA IdsAre ==
  ASSUME NEW b \in Seq(Entries)
  PROVE  IdsOf(b) = {b[i][1] : i \in 1 .. Len(b)} /\ IdsOf(b) \subseteq 1 .. MaxMessages
<1>1. DOMAIN b = 1 .. Len(b) /\ \A i \in 1 .. Len(b) : b[i] \in Entries
  OBVIOUS
<1>2. \A e \in Entries : e[1] \in 1 .. MaxMessages
  BY Zenon DEF Entries
<1>3. QED
  BY <1>1, <1>2, Zenon DEF IdsOf, Range

\* A read delivers the next n ids: the decodable ones into the batch, in order,
\* and only those stay pending.
Reads(n) ==
    /\ group.exists /\ group'.exists /\ group'.last = group.last + n
    /\ group.last + n <= Len(stream)
    /\ batch' \in Seq(Entries) /\ Len(batch') <= ReadCount
    /\ IdsOf(batch') \subseteq Mark + 1 .. Mark + n
    /\ \A i, j \in 1 .. Len(batch') : i < j => batch'[i][1] < batch'[j][1]
    /\ group'.pel \subseteq group.pel \cup IdsOf(batch')
    /\ group' \in Groups

LEMMA ReadIs ==
  ASSUME ConsumeAssumption, ConsumeTypes, ConsumeIds, ReadMessages
  PROVE  \E n \in Nat \ {0} : Reads(n)
<1> DEFINE U == Unread
           n == IF Len(U) < ReadCount THEN Len(U) ELSE ReadCount
           got == SubSeq(U, 1, n)
<1>1. /\ U \in Seq(Entries) /\ U # <<>> /\ Len(U) = Len(stream) - group.last
      /\ \A k \in 1 .. Len(U) : U[k][1] = Mark + k
      /\ ReadCount \in Nat \ {0} /\ group.last \in Nat /\ Len(stream) \in Nat
  BY UnreadIs, SMTT(30) DEF ReadMessages, ConsumeAssumption, ConsumeTypes, Groups
<1>2. n \in Nat \ {0} /\ n <= Len(U) /\ n <= ReadCount
  BY <1>1
<1>3. got \in Seq(Entries) /\ Len(got) = n /\ \A k \in 1 .. n : got[k] = U[k]
  BY <1>1, <1>2
<1>4. /\ batch' \in Decoded(got)
      /\ group' = [group EXCEPT !.last = Delivered(n),
                                !.pel = @ \cup (IdsOf(got) \ AckedByRead(got))]
      /\ group.exists
  BY Zenon DEF ReadMessages
<1> HIDE DEF U, n, got
<1>5. Range(got) \subseteq Entries /\ Range(got) = {got[k] : k \in 1 .. n}
  BY <1>3 DEF Range
<1>6. /\ Range(batch') = {e \in Range(got) : Decodable(e)}
      /\ \A i, j \in DOMAIN batch' : i < j => batch'[i][1] < batch'[j][1]
      /\ batch' \in UNION {[1 .. m -> Range(got)] : m \in 0 .. n}
  BY <1>3, <1>4, Zenon DEF Decoded
<1>7. PICK m \in 0 .. n : batch' \in [1 .. m -> Range(got)]
  BY <1>6, Zenon
<1>8. batch' \in Seq(Entries) /\ Len(batch') = m /\ DOMAIN batch' = 1 .. Len(batch')
  <2>1. m \in Nat /\ batch' \in [1 .. m -> Entries]
    BY <1>2, <1>5, <1>7
  <2>2. QED
    BY <2>1
<1>9. IdsOf(batch') \subseteq IdsOf(got)
  BY <1>6, Zenon DEF IdsOf
<1>10. IdsOf(got) \subseteq Mark + 1 .. Mark + n
  <2>1. IdsOf(got) = {got[k][1] : k \in 1 .. n}
    BY <1>3, IdsAre, Zenon
  <2>2. \A k \in 1 .. n : got[k][1] = Mark + k
    BY <1>1, <1>2, <1>3
  <2>3. Mark \in Int
    BY <1>1 DEF Mark, ConsumeTypes
  <2>4. \A k \in 1 .. n : Mark + k \in Mark + 1 .. Mark + n
    BY <1>2, <2>3
  <2>5. QED
    BY <2>1, <2>2, <2>4
<1>11. IdsOf(got) \ AckedByRead(got) \subseteq IdsOf(batch')
  BY <1>6, Zenon DEF IdsOf, AckedByRead
<1>12. IdsOf(got) \ AckedByRead(got) \subseteq 1 .. MaxMessages
  BY <1>3, IdsAre, Zenon
<1>13. /\ group' \in Groups /\ group'.last = group.last + n /\ group'.exists
       /\ group'.pel = group.pel \cup (IdsOf(got) \ AckedByRead(got))
  <2>1. group \in Groups /\ group.last + n \in Nat
    BY <1>1, <1>2 DEF ConsumeTypes
  <2>2. QED
    BY <1>4, <1>12, <2>1, Zenon DEF Groups, Delivered
<1>14. group.last + n <= Len(stream)
  BY <1>1, <1>2
<1>15. Reads(n)
  BY <1>1, <1>2, <1>4, <1>6, <1>7, <1>8, <1>9, <1>10, <1>11, <1>13, <1>14 DEF Reads
<1>16. QED
  BY <1>2, <1>15, Zenon

\* The first of the batch goes to the handler, and then leaves the batch.
LEMMA BatchHead ==
  ASSUME ConsumeTypes, pc \in {"handle", "ack"}
  PROVE  /\ batch # <<>> /\ Len(batch) \in Nat \ {0} /\ Head(batch) = batch[1]
         /\ batch[1] \in Entries /\ batch[1][1] \in 1 .. MaxMessages
         /\ Tail(batch) \in Seq(Entries) /\ Len(Tail(batch)) = Len(batch) - 1
         /\ \A i \in 1 .. Len(batch) - 1 : Tail(batch)[i] = batch[i + 1]
<1>1. batch \in Seq(Entries) /\ batch # <<>>
  BY Zenon DEF ConsumeTypes
<1>2. batch[1] \in Entries /\ Len(batch) \in Nat \ {0}
  BY <1>1
<1>3. batch[1][1] \in 1 .. MaxMessages
  BY <1>2, Zenon DEF Entries
<1>4. QED
  BY <1>1, <1>2, <1>3

\* An acknowledgement only shortens the batch and the list of pending ids.
Acks ==
    /\ pc = "ack" /\ batch' = Tail(batch) /\ pc' = (IF batch' = <<>> THEN "loop" ELSE "handle")
    /\ group' \in Groups /\ group'.last = group.last /\ group'.exists = group.exists
    /\ group'.pel \subseteq group.pel /\ (~group.exists => group' = group \/ group'.pel = {})
    /\ used' \in Spent /\ used'.drops = used.drops /\ used'.faults >= used.faults
    /\ used'.crashes = used.crashes
    /\ used'.faults = used.faults =>
         used' = used /\ group'.pel = group.pel \ {batch[1][1]}
    /\ UNCHANGED <<stream, sent, backoff, streak, stats, baseline, calls>>

LEMMA AckIs ==
  ASSUME ConsumeAssumption, ConsumeTypes, AckHandled
  PROVE  Acks
<1>1. pc = "ack" /\ Head(batch) = batch[1] /\ group \in Groups /\ used \in Spent
  BY BatchHead, Zenon DEF AckHandled, ConsumeTypes
<1>2. batch' = Tail(batch)
  BY Zenon DEF AckHandled, AfterAck
<1>3. /\ pc' = IF batch' = <<>> THEN "loop" ELSE "handle"
      /\ UNCHANGED <<stream, sent, backoff, streak, stats, baseline, calls>>
  BY Zenon DEF AckHandled, history
<1>4. CASE group' = [group EXCEPT !.pel = @ \ {Head(batch)[1]}] /\ UNCHANGED used
  <2>1. /\ group' \in Groups /\ group'.last = group.last /\ group'.exists = group.exists
        /\ group'.pel = group.pel \ {batch[1][1]}
    BY <1>1, <1>4, Zenon DEF Groups
  <2>2. ~group.exists => group'.pel = {}
    BY <2>1 DEF ConsumeTypes, NoGroup
  <2>3. used'.faults >= used.faults
    BY <1>1, <1>4 DEF Spent
  <2>4. QED
    BY <1>1, <1>2, <1>3, <1>4, <2>1, <2>2, <2>3, Zenon DEF Acks
<1>5. CASE Spend("faults") /\ UNCHANGED group
  <2>1. used' \in Spent /\ used'.faults = used.faults + 1 /\ used'.drops = used.drops
    BY <1>1, <1>5, SpendsFault, Zenon
  <2>2. used'.crashes = used.crashes /\ used.faults \in Nat
    BY <1>1, <1>5, SpendsFault DEF Spent
  <2>3. QED
    BY <1>1, <1>2, <1>3, <1>5, <2>1, <2>2 DEF Acks
<1>6. QED
  BY <1>4, <1>5, Zenon DEF AckHandled

\* Every step keeps the shapes of the variables.
LEMMA ConsumeTypesStep ==
  ASSUME ConsumeAssumption, ConsumeTypes, ConsumeIds, [ConsumeNext]_(consumeVars)
  PROVE  ConsumeTypes'
<1>a. NoGroup \in Groups /\ NoGroup.last = 0
  BY Zenon DEF NoGroup, Groups
<1>b. stream \in Seq(Entries) /\ Len(stream) \in Nat /\ group \in Groups /\ group.last \in Nat
        /\ used \in Spent
  BY DEF ConsumeTypes, Groups
<1>1. ASSUME NEW k \in Kinds, Publish(k) PROVE ConsumeTypes'
  <2>1. <<sent + 1, k>> \in Entries /\ sent' \in 0 .. MaxMessages
    BY <1>1, SMTT(30) DEF Publish, ConsumeTypes, Entries, ConsumeAssumption
  <2>2. stream' \in Seq(Entries) /\ Len(stream') = Len(stream) + 1
    BY <1>1, <1>b, <2>1 DEF Publish
  <2>3. QED
    BY <1>1, <1>b, <2>1, <2>2 DEF Publish, ConsumeTypes, local, history
<1>2. CASE Start
  BY <1>2, EnsuresGroup, Zenon DEF Start, ConsumeTypes, history
<1>3. CASE CheckPhantomConsume \/ ReadIdle
  BY <1>3, Zenon DEF CheckPhantomConsume, ReadIdle, ConsumeTypes, history
<1>4. CASE ReadMessages
  <2>1. PICK n \in Nat \ {0} : Reads(n)
    BY <1>4, ReadIs, Zenon
  <2>2. QED
    BY <1>4, <1>b, <2>1, Zenon DEF ReadMessages, Reads, ConsumeTypes, history
<1>5. CASE ReadNoGroup
  BY <1>5, EnsuresGroup, SpendsFault, Zenon DEF ReadNoGroup, ConsumeTypes, history
<1>6. CASE ReadError
  BY <1>6, SpendsFault, Zenon DEF ReadError, ConsumeTypes, history
<1>7. CASE HandleMessage
  <2>1. Head(batch)[1] \in 1 .. MaxMessages /\ batch # <<>>
    BY <1>7, BatchHead, Zenon DEF HandleMessage
  <2>2. calls' \in Seq(1 .. MaxMessages)
    BY <1>7, <2>1 DEF HandleMessage, ConsumeTypes
  <2>3. QED
    BY <1>7, <2>1, <2>2, Zenon DEF HandleMessage, ConsumeTypes
<1>8. CASE AckHandled
  <2>1. Acks
    BY <1>8, AckIs, Zenon
  <2>2. Tail(batch) \in Seq(Entries) /\ Len(Tail(batch)) = Len(batch) - 1 /\ Len(batch) \in Nat
    BY <2>1, BatchHead, Zenon DEF Acks
  <2>3. group'.exists \/ group' = NoGroup
    BY <2>1 DEF Acks, ConsumeTypes, NoGroup, Groups
  <2>4. Len(batch') <= ReadCount
    BY <2>1, <2>2 DEF Acks, ConsumeTypes, ConsumeAssumption
  <2>5. QED
    BY <2>1, <2>2, <2>3, <2>4, Zenon DEF Acks, ConsumeTypes
<1>9. CASE Crash
  <2>1. used' \in Spent
    BY <1>9, <1>b, SpendsCrash, Zenon DEF Crash
  <2>2. Len(<<>>) <= ReadCount /\ <<>> \in Seq(Entries)
    BY DEF ConsumeAssumption
  <2>3. QED
    BY <1>9, <2>1, <2>2, Zenon DEF Crash, ConsumeTypes
<1>10. CASE DropGroup
  BY <1>10, <1>a, <1>b, SpendsDrop DEF DropGroup, ConsumeTypes, local, history
<1>11. CASE FlushDB
  BY <1>11, <1>a, <1>b, SpendsFlush DEF FlushDB, ConsumeTypes, local
<1>12. CASE UNCHANGED consumeVars
  BY <1>12, Zenon DEF consumeVars, ConsumeTypes
<1>13. QED
  BY <1>1, <1>2, <1>3, <1>4, <1>5, <1>6, <1>7, <1>8, <1>9, <1>10, <1>11, <1>12, Zenon
     DEF ConsumeNext, Loop

\* Every step keeps the counters of the loop within their bounds.
LEMMA ConsumeCountsStep ==
  ASSUME ConsumeAssumption, ConsumeTypes, ConsumeCounts, [ConsumeNext]_(consumeVars)
  PROVE  ConsumeCounts'
<1>a. /\ BackoffCap \in Nat \ {0} /\ used \in Spent /\ used.faults \in Nat
      /\ 1 \in 1 .. BackoffCap /\ NextBackoff(backoff) \in 1 .. BackoffCap
  <2>1. BackoffCap \in Nat \ {0} /\ used \in Spent /\ used.faults \in Nat
    BY DEF ConsumeAssumption, ConsumeTypes, Spent
  <2>2. backoff \in 1 .. BackoffCap
    BY Zenon DEF ConsumeCounts
  <2>3. NextBackoff(backoff) \in 1 .. BackoffCap
    BY <2>1, <2>2 DEF NextBackoff
  <2>4. QED
    BY <2>1, <2>3
<1>1. CASE UNCHANGED <<backoff, streak, stats, baseline>> /\ used'.faults = used.faults
  BY <1>1, Zenon DEF ConsumeCounts
<1>2. ASSUME NEW k \in Kinds, Publish(k) PROVE ConsumeCounts'
  BY <1>1, <1>2, Zenon DEF Publish, local
<1>3. CASE Start \/ ReadMessages \/ ReadIdle \/ CheckPhantomConsume
  BY <1>3, <1>a DEF Start, ReadMessages, ReadIdle, CheckPhantomConsume, ConsumeCounts
<1>4. CASE ReadNoGroup \/ ReadError
  BY <1>4, <1>a, SpendsFault DEF ReadNoGroup, ReadError, ConsumeCounts
<1>5. CASE HandleMessage
  <2>1. stats' \in [handled : Nat, errors : Nat] /\ stats'.handled >= stats.handled
    BY <1>5 DEF HandleMessage, ConsumeCounts
  <2>2. QED
    BY <1>5, <2>1 DEF HandleMessage, ConsumeCounts
<1>6. CASE AckHandled
  <2>1. Acks
    BY <1>6, AckIs, Zenon
  <2>2. used'.faults >= used.faults /\ used'.faults \in Nat
    BY <2>1 DEF Acks, Spent
  <2>3. QED
    BY <1>a, <2>1, <2>2 DEF Acks, ConsumeCounts
<1>7. CASE Crash
  BY <1>7, <1>a, SpendsCrash DEF Crash, ConsumeCounts
<1>8. CASE DropGroup
  BY <1>1, <1>8, <1>a, SpendsDrop DEF DropGroup, local
<1>9. CASE FlushDB
  BY <1>1, <1>9, <1>a, SpendsFlush, Zenon DEF FlushDB, local
<1>10. CASE UNCHANGED consumeVars
  BY <1>1, <1>10, Zenon DEF consumeVars
<1>11. QED
  BY <1>2, <1>3, <1>4, <1>5, <1>6, <1>7, <1>8, <1>9, <1>10, Zenon DEF ConsumeNext, Loop

\* Every step keeps the ids of the stream in line with what was published.
LEMMA ConsumeIdsStep ==
  ASSUME ConsumeAssumption, ConsumeTypes, ConsumeIds, [ConsumeNext]_(consumeVars)
  PROVE  ConsumeIds'
<1>1. ASSUME NEW k \in Kinds, Publish(k) PROVE ConsumeIds'
  <2>1. stream \in Seq(Entries) /\ sent \in Nat /\ Len(stream) \in Nat
    BY DEF ConsumeTypes
  <2>2. /\ sent' = sent + 1 /\ Len(stream') = Len(stream) + 1
        /\ stream'[Len(stream) + 1] = <<sent + 1, k>>
        /\ \A i \in 1 .. Len(stream) : stream'[i] = stream[i]
    BY <1>1, <2>1 DEF Publish
  <2>3. ASSUME NEW i \in 1 .. Len(stream')
        PROVE  stream'[i][1] = sent' - Len(stream') + i
    <3>1. CASE i \in 1 .. Len(stream)
      BY <2>1, <2>2, <3>1 DEF ConsumeIds
    <3>2. CASE i = Len(stream) + 1
      BY <2>1, <2>2, <3>2
    <3>3. QED
      BY <2>1, <2>2, <3>1, <3>2
  <2>4. QED
    BY <2>1, <2>2, <2>3 DEF ConsumeIds
<1>2. CASE FlushDB
  BY <1>2 DEF FlushDB, ConsumeIds, ConsumeTypes
<1>3. CASE UNCHANGED <<stream, sent>>
  BY <1>3, Zenon DEF ConsumeIds
<1>4. QED
  BY <1>1, <1>2, <1>3, Zenon
     DEF ConsumeNext, Loop, Start, CheckPhantomConsume, ReadMessages, ReadIdle, ReadNoGroup,
         ReadError, HandleMessage, AckHandled, Crash, DropGroup, consumeVars

\* Without failures every pending id is in the batch.
LEMMA ConsumePendingStep ==
  ASSUME ConsumeAssumption, ConsumeTypes, ConsumeIds, ConsumePending, [ConsumeNext]_(consumeVars)
  PROVE  ConsumePending'
<1>a. used \in Spent /\ used.faults \in Nat /\ used.crashes \in Nat
  BY DEF ConsumeTypes, Spent
<1>1. CASE UNCHANGED batch /\ group'.pel \subseteq group.pel
             /\ used'.faults = used.faults /\ used'.crashes = used.crashes
  BY <1>1, Zenon DEF ConsumePending
<1>2. CASE used'.faults # 0 \/ used'.crashes # 0
  BY <1>2, Zenon DEF ConsumePending
<1>3. ASSUME NEW k \in Kinds, Publish(k) PROVE ConsumePending'
  BY <1>1, <1>3, Zenon DEF Publish, local
<1>4. CASE Start \/ ReadIdle \/ CheckPhantomConsume \/ HandleMessage
  BY <1>1, <1>4, EnsuresGroup, Zenon
     DEF Start, ReadIdle, CheckPhantomConsume, HandleMessage, ConsumeTypes
<1>5. CASE ReadNoGroup \/ ReadError
  BY <1>1, <1>2, <1>5, <1>a, EnsuresGroup, SpendsFault, SMTT(30) DEF ReadNoGroup, ReadError, ConsumeTypes
<1>6. CASE ReadMessages
  <2>1. PICK n \in Nat \ {0} : Reads(n)
    BY <1>6, ReadIs, Zenon
  <2>2. used' = used /\ IdsOf(batch) = {}
    BY <1>6, SMTT(30) DEF ReadMessages, ConsumeTypes, IdsOf, Range
  <2>3. QED
    BY <2>1, <2>2, Zenon DEF Reads, ConsumePending
<1>7. CASE AckHandled
  <2>1. Acks
    BY <1>7, AckIs, Zenon
  <2>2. used'.faults = 0 /\ used'.crashes = 0 =>
          used' = used /\ group'.pel = group.pel \ {batch[1][1]}
    <3>1. used'.faults \in Nat
      BY <2>1 DEF Acks, Spent
    <3>2. QED
      BY <1>a, <2>1, <3>1, SMTT(30) DEF Acks
  <2>3. IdsOf(batch) \ {batch[1][1]} \subseteq IdsOf(Tail(batch))
    <3>1. /\ IdsOf(batch) = {batch[i][1] : i \in 1 .. Len(batch)}
          /\ IdsOf(Tail(batch)) = {Tail(batch)[i][1] : i \in 1 .. Len(Tail(batch))}
      BY <2>1, IdsAre, BatchHead, Zenon DEF Acks, ConsumeTypes
    <3>2. ASSUME NEW i \in 1 .. Len(batch), i # 1
          PROVE  \E j \in 1 .. Len(Tail(batch)) : Tail(batch)[j] = batch[i]
      <4>1. i - 1 \in 1 .. Len(Tail(batch)) /\ (i - 1) + 1 = i /\ i - 1 \in 1 .. Len(batch) - 1
        BY <2>1, <3>2, BatchHead DEF Acks
      <4>2. Tail(batch)[i - 1] = batch[i]
        BY <2>1, <4>1, BatchHead, Zenon DEF Acks
      <4>3. QED
        BY <4>1, <4>2, Zenon
    <3>3. ASSUME NEW x \in IdsOf(batch) \ {batch[1][1]}
          PROVE  x \in IdsOf(Tail(batch))
      <4>1. PICK i \in 1 .. Len(batch) : x = batch[i][1]
        BY <3>1, <3>3, Zenon
      <4>2. i # 1
        BY <3>3, <4>1, Zenon
      <4>3. PICK j \in 1 .. Len(Tail(batch)) : Tail(batch)[j] = batch[i]
        BY <3>2, <4>2, Zenon
      <4>4. QED
        BY <3>1, <4>1, <4>3, Zenon
    <3>4. QED
      BY <3>3, Zenon
  <2>4. QED
    BY <2>1, <2>2, <2>3, Zenon DEF Acks, ConsumePending
<1>8. CASE Crash
  BY <1>2, <1>8, <1>a, SpendsCrash, SMTT(30) DEF Crash
<1>9. CASE DropGroup
  BY <1>1, <1>9, <1>a, SpendsDrop, Zenon DEF DropGroup, local, NoGroup
<1>10. CASE FlushDB
  BY <1>1, <1>10, <1>a, SpendsFlush, Zenon DEF FlushDB, local, NoGroup
<1>11. CASE UNCHANGED consumeVars
  BY <1>1, <1>11, Zenon DEF consumeVars
<1>12. QED
  BY <1>3, <1>4, <1>5, <1>6, <1>7, <1>8, <1>9, <1>10, <1>11, Zenon DEF ConsumeNext, Loop

\* The group never goes back as long as it is not destroyed: a flush leaves
\* nothing undelivered, and a new group starts where the stream starts.
LEMMA MarkMoves ==
  ASSUME ConsumeAssumption, ConsumeTypes, ConsumeIds, [ConsumeNext]_(consumeVars)
  PROVE  /\ Mark \in Nat /\ Mark' \in Int
         /\ used'.drops \in Nat /\ used.drops \in Nat /\ used'.drops >= used.drops
         /\ used'.drops = used.drops => Mark' >= Mark
<1>a. /\ stream \in Seq(Entries) /\ Len(stream) \in Nat /\ group \in Groups /\ group.last \in Nat
      /\ sent \in Nat /\ group.last <= Len(stream) /\ used \in Spent /\ used.drops \in Nat
      /\ Len(stream) <= sent
  BY DEF ConsumeTypes, Groups, Spent, ConsumeIds
<1>b. Mark \in Nat /\ Mark <= sent
  BY <1>a DEF Mark
<1>c. Mark' \in Int
  BY ConsumeTypesStep, SMTT(30) DEF Mark, ConsumeTypes, Groups
<1> DEFINE Goal == used'.drops \in Nat /\ used'.drops >= used.drops
                   /\ (used'.drops = used.drops => Mark' >= Mark)
<1>1. CASE used'.drops = used.drops /\ Mark' >= Mark
  BY <1>1, <1>a, <1>b, <1>c
<1>2. CASE UNCHANGED <<stream, sent>> /\ group'.last = group.last /\ used'.drops = used.drops
  BY <1>1, <1>2, <1>b DEF Mark
<1>3. ASSUME NEW k \in Kinds, Publish(k) PROVE Goal
  <2>1. Len(stream') = Len(stream) + 1 /\ sent' = sent + 1 /\ group' = group /\ used' = used
    BY <1>a, <1>3 DEF Publish
  <2>2. Mark' = Mark
    BY <1>a, <2>1 DEF Mark
  <2>3. QED
    BY <1>1, <1>b, <2>1, <2>2
<1>4. CASE Start \/ ReadIdle \/ CheckPhantomConsume \/ HandleMessage
  BY <1>2, <1>4, EnsuresGroup, Zenon
     DEF Start, ReadIdle, CheckPhantomConsume, HandleMessage, ConsumeTypes
<1>5. CASE ReadNoGroup \/ ReadError
  BY <1>2, <1>5, <1>a, EnsuresGroup, SpendsFault, Zenon DEF ReadNoGroup, ReadError, ConsumeTypes
<1>6. CASE ReadMessages
  <2>1. PICK n \in Nat \ {0} : Reads(n)
    BY <1>6, ReadIs, Zenon
  <2>2. UNCHANGED <<stream, sent, used>> /\ group'.last = group.last + n
    BY <1>6, <2>1, Zenon DEF ReadMessages, Reads
  <2>3. Mark' >= Mark
    BY <1>a, <2>2, SMTT(30) DEF Mark
  <2>4. QED
    BY <1>1, <2>2, <2>3, Zenon
<1>7. CASE AckHandled
  BY <1>2, <1>7, AckIs, Zenon DEF Acks
<1>8. CASE Crash
  BY <1>2, <1>8, <1>a, SpendsCrash, Zenon DEF Crash
<1>9. CASE DropGroup
  BY <1>9, <1>a, <1>b, <1>c, SpendsDrop DEF DropGroup
<1>10. CASE FlushDB
  <2>1. Len(stream') = 0 /\ sent' = sent /\ group'.last = 0 /\ used'.drops = used.drops
    BY <1>10, <1>a, SpendsFlush, Zenon DEF FlushDB, NoGroup
  <2>2. Mark' = sent
    BY <1>a, <2>1, SMTT(30) DEF Mark
  <2>3. QED
    BY <1>1, <1>b, <2>1, <2>2, Zenon
<1>11. CASE UNCHANGED consumeVars
  BY <1>2, <1>11, Zenon DEF consumeVars
<1>12. Goal
  BY <1>3, <1>4, <1>5, <1>6, <1>7, <1>8, <1>9, <1>10, <1>11, Zenon DEF ConsumeNext, Loop
<1>13. QED
  BY <1>12, <1>a, <1>b, <1>c, Zenon

\* What the loop does to the way of the ids.
Way ==
    \/ UNCHANGED <<batch, calls>> /\ (pc' = "ack" <=> pc = "ack")
    \/ batch' = <<>> /\ calls' = calls /\ pc' # "ack"
    \/ \E n \in Nat \ {0} :
         Reads(n) /\ UNCHANGED <<stream, sent, calls>> /\ pc = "loop" /\ pc' # "ack"
    \/ HandleMessage
    \/ Acks

\* Every step is one of these.
LEMMA WayIs ==
  ASSUME ConsumeAssumption, ConsumeTypes, ConsumeIds, [ConsumeNext]_(consumeVars)
  PROVE  Way
<1>1. ASSUME NEW k \in Kinds, Publish(k) PROVE Way
  BY <1>1, Zenon DEF Publish, local, history, Way
<1>2. CASE Start \/ ReadIdle \/ CheckPhantomConsume \/ ReadNoGroup \/ ReadError
  BY <1>2, Zenon
     DEF Start, ReadIdle, CheckPhantomConsume, ReadNoGroup, ReadError, history, Way
<1>3. CASE ReadMessages
  <2>1. PICK n \in Nat \ {0} : Reads(n)
    BY <1>3, ReadIs, Zenon
  <2>2. UNCHANGED <<stream, sent, calls>> /\ pc = "loop" /\ pc' # "ack"
    BY <1>3, Zenon DEF ReadMessages, history
  <2>3. QED
    BY <2>1, <2>2, Zenon DEF Way
<1>4. CASE HandleMessage \/ AckHandled
  BY <1>4, AckIs, Zenon DEF Way
<1>5. CASE Crash
  BY <1>5, Zenon DEF Crash, Way
<1>6. CASE DropGroup \/ FlushDB \/ UNCHANGED consumeVars
  BY <1>6, Zenon DEF DropGroup, FlushDB, consumeVars, local, history, Way
<1>7. QED
  BY <1>1, <1>2, <1>3, <1>4, <1>5, <1>6, Zenon DEF ConsumeNext, Loop

\* The elements of a sequence.
LEMMA ElementsOf ==
  ASSUME NEW S, NEW s \in Seq(S)
  PROVE  \A i \in 1 .. Len(s) : s[i] \in S
  BY SMTT(30)

\* While the group is not destroyed every step keeps the ids in order.
LEMMA ConsumeOrderStep ==
  ASSUME ConsumeAssumption, ConsumeTypes, ConsumeIds, ConsumeOrder, [ConsumeNext]_(consumeVars),
         used'.drops = used.drops
  PROVE  ConsumeOrder'
<1>a. Mark \in Nat /\ Mark' \in Int /\ Mark' >= Mark
  BY MarkMoves, Zenon
<1>b. /\ calls \in Seq(1 .. MaxMessages) /\ batch \in Seq(Entries)
      /\ Len(calls) \in Nat /\ Len(batch) \in Nat
      /\ \A i \in 1 .. Len(calls) : calls[i] \in Nat
  <2>1. calls \in Seq(1 .. MaxMessages) /\ batch \in Seq(Entries)
    BY Zenon DEF ConsumeTypes
  <2>2. \A i \in 1 .. Len(calls) : calls[i] \in 1 .. MaxMessages
    BY <2>1, ElementsOf, Zenon
  <2>3. QED
    BY <2>1, <2>2
<1>c. \A i \in 1 .. Len(batch) : batch[i][1] \in Nat
  <2>1. \A i \in 1 .. Len(batch) : batch[i] \in Entries
    BY <1>b, SMTT(30)
  <2>2. QED
    BY <2>1 DEF Entries
<1>1. CASE UNCHANGED <<batch, calls>> /\ (pc' = "ack" <=> pc = "ack")
  BY <1>1, <1>a, <1>b, <1>c, SMTT(30) DEF ConsumeOrder
<1>2. CASE batch' = <<>> /\ calls' = calls /\ pc' # "ack"
  BY <1>2, <1>a, <1>b, SMTT(30) DEF ConsumeOrder
<1>3. ASSUME NEW n \in Nat \ {0}, Reads(n), UNCHANGED <<stream, sent, calls>>, pc = "loop",
             pc' # "ack"
      PROVE  ConsumeOrder'
  <2>1. Mark' = Mark + n
    <3>1. sent \in Nat /\ Len(stream) \in Nat /\ group.last \in Nat
      BY DEF ConsumeTypes, Groups
    <3>2. QED
      BY <1>3, <3>1 DEF Mark, Reads
  <2>2. IdsOf(batch') = {batch'[i][1] : i \in 1 .. Len(batch')} /\ Len(batch') \in Nat
    BY <1>3, IdsAre, SMTT(30) DEF Reads
  <2>3. \A i \in 1 .. Len(batch') : batch'[i][1] \in Mark + 1 .. Mark + n
    BY <1>3, <2>2, Zenon DEF Reads
  <2>4. \A i \in 1 .. Len(calls) : calls[i] <= Mark
    BY Zenon DEF ConsumeOrder
  <2>5. \A i \in 1 .. Len(calls), j \in 1 .. Len(batch') : calls[i] < batch'[j][1]
    BY <1>a, <1>b, <2>3, <2>4, SMTT(30)
  <2>6. \A i, j \in 1 .. Len(calls) : i < j => calls[i] < calls[j]
    BY Zenon DEF ConsumeOrder
  <2>7. \A i, j \in 1 .. Len(batch') : i < j => batch'[i][1] < batch'[j][1]
    BY <1>3, Zenon DEF Reads
  <2>8. /\ \A i \in 1 .. Len(calls) : calls[i] <= Mark'
        /\ \A i \in 1 .. Len(batch') : batch'[i][1] <= Mark'
    BY <1>a, <1>b, <2>1, <2>3, <2>4, SMTT(30)
  <2>9. QED
    BY <1>3, <2>5, <2>6, <2>7, <2>8, Zenon DEF ConsumeOrder
<1>4. CASE HandleMessage
  <2>1. pc = "handle" /\ pc' = "ack" /\ batch' = batch /\ calls' = Append(calls, batch[1][1])
    BY <1>4, BatchHead, Zenon DEF HandleMessage
  <2>2. Len(batch) \in Nat \ {0} /\ 1 \in 1 .. Len(batch) /\ batch[1][1] \in 1 .. MaxMessages
    BY <2>1, BatchHead, SMTT(30)
  <2>3. /\ Len(calls') = Len(calls) + 1 /\ calls'[Len(calls) + 1] = batch[1][1]
        /\ \A i \in 1 .. Len(calls) : calls'[i] = calls[i]
    BY <1>b, <2>1, <2>2, SMTT(30)
  <2>4. \A i \in 1 .. Len(calls), j \in 1 .. Len(batch) : calls[i] < batch[j][1]
    BY <2>1, Zenon DEF ConsumeOrder
  <2>5. ASSUME NEW i \in 1 .. Len(calls'), NEW j \in 1 .. Len(calls'), i < j
        PROVE  calls'[i] < calls'[j]
    <3>1. CASE j = Len(calls) + 1
      <4>1. i \in 1 .. Len(calls)
        BY <1>b, <2>3, <2>5, <3>1
      <4>2. QED
        BY <2>2, <2>3, <2>4, <3>1, <4>1, Zenon
    <3>2. CASE j \in 1 .. Len(calls)
      <4>1. i \in 1 .. Len(calls)
        BY <1>b, <2>3, <2>5, <3>2, SMTT(30)
      <4>2. QED
        BY <2>3, <2>5, <3>2, <4>1, Zenon DEF ConsumeOrder
    <3>3. QED
      BY <1>b, <2>3, <3>1, <3>2
  <2>6. ASSUME NEW i \in 1 .. Len(calls')
        PROVE  calls'[i] <= batch[1][1] /\ calls'[i] <= Mark'
    <3>1. batch[1][1] <= Mark /\ \A k \in 1 .. Len(calls) : calls[k] <= Mark
      BY <2>2, Zenon DEF ConsumeOrder
    <3>2. CASE i = Len(calls) + 1
      BY <1>a, <2>2, <2>3, <3>1, <3>2
    <3>3. CASE i \in 1 .. Len(calls)
      <4>1. calls[i] \in Nat /\ calls[i] < batch[1][1] /\ calls[i] <= Mark /\ batch[1][1] \in Nat
        BY <1>b, <2>2, <2>4, <3>1, <3>3, SMTT(30)
      <4>2. QED
        BY <1>a, <2>3, <3>3, <4>1
    <3>4. QED
      BY <1>b, <2>3, <3>2, <3>3
  <2>7. ASSUME NEW i \in 1 .. Len(calls'), NEW j \in 1 .. Len(batch), j # 1
        PROVE  calls'[i] < batch[j][1]
    <3>1. batch[1][1] < batch[j][1] /\ batch[j][1] \in Nat
      BY <1>c, <2>2, <2>7 DEF ConsumeOrder
    <3>2. calls'[i] \in Nat
      BY <1>b, <2>2, <2>3
    <3>3. QED
      BY <2>2, <2>6, <3>1, <3>2, SMTT(30)
  <2>8. \A j \in 1 .. Len(batch) : batch[j][1] <= Mark'
    BY <1>a, <1>c DEF ConsumeOrder
  <2>9. \E i \in 1 .. Len(calls') : calls'[i] = batch'[1][1]
    <3>1. Len(calls) + 1 \in 1 .. Len(calls')
      BY <1>b, <2>3
    <3>2. QED
      BY <2>1, <2>3, <3>1, Zenon
  <2>10. \A i, j \in 1 .. Len(batch) : i < j => batch[i][1] < batch[j][1]
    BY Zenon DEF ConsumeOrder
  <2>11. QED
    BY <2>1, <2>5, <2>6, <2>7, <2>8, <2>9, <2>10, Zenon DEF ConsumeOrder
<1>5. CASE Acks
  <2>1. /\ pc = "ack" /\ pc' # "ack" /\ batch' = Tail(batch) /\ calls' = calls
    BY <1>5, Zenon DEF Acks
  <2>2. /\ Len(batch') = Len(batch) - 1
        /\ \A i \in 1 .. Len(batch') : batch'[i] = batch[i + 1]
    BY <1>b, <2>1, BatchHead, Zenon
  <2>3. \A i \in 1 .. Len(batch') : i + 1 \in 1 .. Len(batch) /\ i + 1 # 1
    BY <1>b, <2>2, SMTT(30)
  <2>4. ASSUME NEW i \in 1 .. Len(batch'), NEW j \in 1 .. Len(batch'), i < j
        PROVE  batch'[i][1] < batch'[j][1]
    <3>1. i + 1 < j + 1
      BY <2>4
    <3>2. QED
      BY <2>2, <2>3, <3>1, Zenon DEF ConsumeOrder
  <2>5. \A i \in 1 .. Len(calls), j \in 1 .. Len(batch') : calls[i] < batch'[j][1]
    BY <2>1, <2>2, <2>3, Zenon DEF ConsumeOrder
  <2>6. /\ \A i \in 1 .. Len(calls) : calls[i] <= Mark'
        /\ \A i \in 1 .. Len(batch') : batch'[i][1] <= Mark'
    <3>1. \A i \in 1 .. Len(batch) : batch[i][1] <= Mark'
      BY <1>a, <1>c DEF ConsumeOrder
    <3>2. \A i \in 1 .. Len(calls) : calls[i] <= Mark'
      BY <1>a, <1>b DEF ConsumeOrder
    <3>3. QED
      BY <2>2, <2>3, <3>1, <3>2, Zenon
  <2>7. \A i, j \in 1 .. Len(calls) : i < j => calls[i] < calls[j]
    BY Zenon DEF ConsumeOrder
  <2>8. QED
    BY <2>1, <2>4, <2>5, <2>6, <2>7, Zenon DEF ConsumeOrder
<1>6. QED
  BY <1>1, <1>2, <1>3, <1>4, <1>5, WayIs, Zenon DEF Way

\* The loop starts in order, and every step keeps it so.
LEMMA ConsumeInvariant ==
  ASSUME ConsumeAssumption
  PROVE  ConsumeInit /\ [][ConsumeNext]_(consumeVars) => []ConsumeInv
<1>1. ConsumeInit => ConsumeInv
  <2> SUFFICES ASSUME ConsumeInit PROVE ConsumeInv
    BY Zenon
  <2>1. ConsumeTypes
    BY SMTT(30) DEF ConsumeInit, ConsumeTypes, NoGroup, Groups, Spent, ConsumeAssumption
  <2>2. ConsumeCounts /\ ConsumeIds /\ ConsumePending
    BY DEF ConsumeInit, NoGroup, ConsumeCounts, ConsumeIds, ConsumePending, ConsumeAssumption
  <2>3. ConsumeOrder
    BY DEF ConsumeInit, ConsumeOrder
  <2>4. QED
    BY <2>1, <2>2, <2>3, Zenon DEF ConsumeInv
<1>2. ConsumeInv /\ [ConsumeNext]_(consumeVars) => ConsumeInv'
  <2> SUFFICES ASSUME ConsumeInv, [ConsumeNext]_(consumeVars) PROVE ConsumeInv'
    BY Zenon
  <2>1. ConsumeTypes' /\ ConsumeCounts' /\ ConsumeIds' /\ ConsumePending'
    BY ConsumeTypesStep, ConsumeCountsStep, ConsumeIdsStep, ConsumePendingStep, Zenon DEF ConsumeInv
  <2>2. used'.drops = 0 => used.drops = 0 /\ used'.drops = used.drops
    BY MarkMoves DEF ConsumeInv
  <2>3. used'.drops = 0 => ConsumeOrder'
    BY <2>2, ConsumeOrderStep, Zenon DEF ConsumeInv
  <2>4. QED
    BY <2>1, <2>3, Zenon DEF ConsumeInv
<1>3. QED
  BY <1>1, <1>2, PTL

\* Whatever crashes, failed calls, destroyed groups and flushes happen, the
\* loop keeps its shape; while its group is not destroyed the handler runs in
\* publication order and never twice for a message; and only a failed
\* acknowledgement or a crash leaves an entry pending (consume.go,
\* ConsumeStream; client.go, ReadGroup).
THEOREM ConsumeIsSound ==
  ASSUME ConsumeAssumption
  PROVE  ConsumeSpec => []ConsumeSound
<1>1. ConsumeInv => ConsumeSound
  <2> SUFFICES ASSUME ConsumeInv PROVE ConsumeSound
    BY Zenon
  <2>1. ConsumeTypeOK
    <3>1. used.faults <= MaxReadFaults /\ used.faults \in Nat /\ MaxReadFaults \in Nat
      BY DEF ConsumeInv, ConsumeTypes, Spent, ConsumeAssumption
    <3>2. streak \in 0 .. MaxReadFaults
      BY <3>1 DEF ConsumeInv, ConsumeCounts
    <3>3. group \in [exists : BOOLEAN, last : 0 .. Len(stream), pel : SUBSET (1 .. MaxMessages)]
      BY DEF ConsumeInv, ConsumeTypes, Groups
    <3>4. (batch = <<>>) = (pc \in {"down", "loop"})
      BY DEF ConsumeInv, ConsumeTypes
    <3>5. QED
      BY <3>2, <3>3, <3>4, Zenon DEF ConsumeInv, ConsumeTypes, ConsumeCounts, Entries, ConsumeTypeOK
  <2>2. InOrderOnce
    BY Zenon DEF ConsumeInv, ConsumeOrder, InOrderOnce
  <2>3. PendingExplained
    <3>1. SUFFICES ASSUME used.faults = 0, used.crashes = 0, pc = "loop" PROVE group.pel = {}
      BY Zenon DEF PendingExplained
    <3>2. batch = <<>> /\ group.pel \subseteq IdsOf(batch)
      BY <3>1, Zenon DEF ConsumeInv, ConsumeTypes, ConsumePending
    <3>3. QED
      BY <3>2 DEF IdsOf, Range
  <2>4. QED
    BY <2>1, <2>2, <2>3, Zenon DEF ConsumeSound
<1>2. QED
  BY <1>1, ConsumeInvariant, PTL DEF ConsumeSpec

\* Where an id is: before it is published, after its handler was called, in the
\* batch, not yet delivered, or none of these.
Stage(i) ==
    IF i > sent THEN "new"
    ELSE IF i \in Range(calls) THEN "done"
    ELSE IF i \in IdsOf(batch) THEN "taken"
    ELSE IF i > Mark THEN "queued"
    ELSE "lost"

\* What orders the stages: called and batched ids were delivered, and delivered
\* ids were published.
Stages ==
    /\ fate = [i \in 1 .. MaxMessages |-> Stage(i)]
    /\ Mark \in Nat /\ sent \in Nat /\ Mark <= sent
    /\ Range(calls) \subseteq 1 .. Mark /\ IdsOf(batch) \subseteq 1 .. Mark

\* The fate that Lifecycle sees is the stage of the id.
LEMMA FateIsStage ==
  ConsumeInv /\ used.drops = 0 => Stages
<1> SUFFICES ASSUME ConsumeInv, used.drops = 0 PROVE Stages
  BY Zenon
<1>1. ConsumeTypes /\ ConsumeIds /\ ConsumeOrder
  BY Zenon DEF ConsumeInv
<1>2. Mark \in Nat /\ sent \in Nat /\ Mark <= sent
  <2>1. /\ Len(stream) \in Nat /\ group.last \in Nat /\ sent \in Nat
        /\ group.last <= Len(stream) /\ Len(stream) <= sent
    BY <1>1 DEF ConsumeTypes, ConsumeIds, Groups
  <2>2. QED
    BY <2>1 DEF Mark
<1>3. Range(calls) \subseteq 1 .. Mark
  <2>1. calls \in Seq(1 .. MaxMessages) /\ DOMAIN calls = 1 .. Len(calls)
    BY <1>1 DEF ConsumeTypes
  <2>2. \A k \in 1 .. Len(calls) : calls[k] \in 1 .. MaxMessages
    BY <2>1, ElementsOf, Zenon
  <2>3. \A k \in 1 .. Len(calls) : calls[k] \in 1 .. Mark
    BY <1>1, <1>2, <2>2 DEF ConsumeOrder
  <2>4. QED
    BY <2>1, <2>3, Zenon DEF Range
<1>4. IdsOf(batch) \subseteq 1 .. Mark
  <2>1. IdsOf(batch) = {batch[k][1] : k \in 1 .. Len(batch)} /\ batch \in Seq(Entries)
          /\ IdsOf(batch) \subseteq 1 .. MaxMessages
    BY <1>1, IdsAre, Zenon DEF ConsumeTypes
  <2>2. \A k \in 1 .. Len(batch) : batch[k][1] \in 1 .. MaxMessages /\ batch[k][1] <= Mark
    BY <1>1, <2>1, Zenon DEF ConsumeOrder
  <2>3. \A k \in 1 .. Len(batch) : batch[k][1] \in 1 .. Mark
    BY <1>2, <2>2
  <2>4. QED
    BY <2>1, <2>3, Zenon
<1>5. fate = [i \in 1 .. MaxMessages |-> Stage(i)]
  <2>1. IdsOf(Unread) = Mark + 1 .. sent
    BY <1>1, UnreadIs, Zenon
  <2>2. \A i \in 1 .. MaxMessages : ~(i > sent) => (i \in IdsOf(Unread) <=> i > Mark)
    BY <1>2, <2>1
  <2>3. QED
    BY <2>2, Zenon DEF fate, Stage
<1>6. QED
  BY <1>2, <1>3, <1>4, <1>5, Zenon DEF Stages

\* What a step may do to the stages of the ids.
Advances ==
    /\ Mark' >= Mark /\ sent' >= sent
    /\ Range(calls) \subseteq Range(calls')
    /\ Range(calls') \subseteq Range(calls) \cup IdsOf(batch)
    /\ \A i \in IdsOf(batch') : i \in IdsOf(batch) \/ i > Mark
    /\ sent' # sent => Mark' = Mark /\ UNCHANGED <<calls, batch>>

\* Every step of a loop whose group is left alone advances the ids.
LEMMA StepAdvances ==
  ASSUME ConsumeAssumption, ConsumeTypes, ConsumeIds, [ConsumeNext]_(consumeVars),
         used'.drops = used.drops
  PROVE  Advances
<1>1. Mark' >= Mark /\ Mark \in Nat
  BY MarkMoves, Zenon
<1>2. /\ sent \in Nat /\ Len(stream) \in Nat /\ group.last \in Nat /\ stream \in Seq(Entries)
      /\ calls \in Seq(1 .. MaxMessages) /\ DOMAIN calls = 1 .. Len(calls)
  BY DEF ConsumeTypes, Groups
<1>3. sent' >= sent /\ (sent' # sent => Mark' = Mark /\ UNCHANGED <<calls, batch>>)
  <2>1. ASSUME NEW k \in Kinds, Publish(k)
        PROVE  sent' = sent + 1 /\ Mark' = Mark /\ UNCHANGED <<calls, batch>>
    <3>1. /\ sent' = sent + 1 /\ Len(stream') = Len(stream) + 1 /\ group' = group
          /\ UNCHANGED <<calls, batch>>
      BY <1>2, <2>1 DEF Publish, local, history
    <3>2. QED
      BY <1>2, <3>1 DEF Mark
  <2>2. (\E k \in Kinds : Publish(k)) \/ sent' = sent
    BY Zenon DEF ConsumeNext, Loop, Start, CheckPhantomConsume, ReadMessages, ReadIdle,
           ReadNoGroup, ReadError, HandleMessage, AckHandled, Crash, DropGroup, FlushDB,
           consumeVars
  <2>3. QED
    BY <1>2, <2>1, <2>2
<1>4. CASE UNCHANGED <<batch, calls>>
  BY <1>1, <1>3, <1>4, Zenon DEF Advances
<1>5. CASE batch' = <<>> /\ calls' = calls
  <2>1. IdsOf(batch') = {}
    BY <1>5 DEF IdsOf, Range
  <2>2. QED
    BY <1>1, <1>3, <1>5, <2>1, Zenon DEF Advances
<1>6. ASSUME NEW n \in Nat \ {0}, Reads(n), UNCHANGED calls
      PROVE  Advances
  <2>1. \A i \in IdsOf(batch') : i > Mark
    BY <1>1, <1>6, SMTT(30) DEF Reads
  <2>2. QED
    BY <1>1, <1>3, <1>6, <2>1, Zenon DEF Advances
<1>7. CASE HandleMessage
  <2>1. batch' = batch /\ calls' = Append(calls, batch[1][1]) /\ 1 \in 1 .. Len(batch)
          /\ batch \in Seq(Entries) /\ batch[1][1] \in 1 .. MaxMessages
    BY <1>7, BatchHead, SMTT(30) DEF HandleMessage, ConsumeTypes
  <2>2. /\ Len(calls') = Len(calls) + 1 /\ calls'[Len(calls) + 1] = batch[1][1]
        /\ \A i \in 1 .. Len(calls) : calls'[i] = calls[i]
        /\ DOMAIN calls' = 1 .. Len(calls) + 1 /\ Len(calls) \in Nat
    BY <1>2, <2>1
  <2>3. batch[1][1] \in IdsOf(batch)
    BY <2>1, IdsAre, Zenon
  <2>4. Range(calls) \subseteq Range(calls')
    BY <1>2, <2>2 DEF Range
  <2>5. \A i \in DOMAIN calls' : i \in DOMAIN calls \/ i = Len(calls) + 1
    BY <1>2, <2>2
  <2>6. Range(calls') \subseteq Range(calls) \cup {batch[1][1]}
    BY <1>2, <2>2, <2>5, SMTT(30) DEF Range
  <2>7. QED
    BY <1>1, <1>3, <2>1, <2>3, <2>4, <2>6, Zenon DEF Advances
<1>8. CASE Acks
  <2>1. batch' = Tail(batch) /\ calls' = calls /\ pc = "ack"
    BY <1>8, Zenon DEF Acks
  <2>2. /\ batch \in Seq(Entries) /\ batch' \in Seq(Entries) /\ Len(batch') = Len(batch) - 1
        /\ \A i \in 1 .. Len(batch') : batch'[i] = batch[i + 1] /\ i + 1 \in 1 .. Len(batch)
    BY <2>1, BatchHead DEF ConsumeTypes
  <2>3. IdsOf(batch') \subseteq IdsOf(batch)
    <3>1. /\ IdsOf(batch) = {batch[i][1] : i \in 1 .. Len(batch)}
          /\ IdsOf(batch') = {batch'[i][1] : i \in 1 .. Len(batch')}
      BY <2>2, IdsAre, Zenon
    <3>2. QED
      BY <2>2, <3>1, Zenon
  <2>4. QED
    BY <1>1, <1>3, <2>1, <2>3, Zenon DEF Advances
<1>9. QED
  BY <1>4, <1>5, <1>6, <1>7, <1>8, WayIs, Zenon DEF Way

\* A step that advances the ids moves their fates as Lifecycle allows: no
\* message is taken past one that stays in the queue.
LEMMA AdvanceIsStep ==
  ASSUME Stages, Stages', Advances
  PROVE  L!Advance
<1>1. /\ fate = [i \in 1 .. MaxMessages |-> Stage(i)]
      /\ fate' = [i \in 1 .. MaxMessages |-> Stage(i)']
      /\ Mark \in Nat /\ sent \in Nat /\ Mark <= sent /\ Mark' \in Nat /\ sent' \in Nat
      /\ Mark' <= sent' /\ Mark' >= Mark /\ sent' >= sent
  BY Zenon DEF Stages, Advances
<1>3. ASSUME NEW i \in 1 .. MaxMessages, Stage(i)' # Stage(i)
      PROVE  <<Stage(i), Stage(i)'>> \in L!Moves
  <2>a. /\ i \in Range(calls) => i \in Range(calls')
        /\ i \in Range(calls') => i \in Range(calls) \/ i \in IdsOf(batch)
        /\ i \in IdsOf(batch') => i \in IdsOf(batch) \/ i > Mark
        /\ sent' # sent => Mark' = Mark /\ calls' = calls /\ batch' = batch
    BY Zenon DEF Advances
  <2>b. /\ i \in Range(calls) \/ i \in IdsOf(batch) => i <= Mark
        /\ i \in Range(calls') \/ i \in IdsOf(batch') => i <= Mark'
    BY <1>1, SMTT(30) DEF Stages
  <2>1. CASE i > sent
    BY <1>1, <1>3, <2>a, <2>b, <2>1, SMTT(30) DEF Stage, L!Moves
  <2>2. CASE i <= sent /\ i \in Range(calls)
    BY <1>1, <1>3, <2>a, <2>b, <2>2, SMTT(30) DEF Stage
  <2>3. CASE i <= sent /\ i \notin Range(calls) /\ i \in IdsOf(batch)
    BY <1>1, <1>3, <2>a, <2>b, <2>3, SMTT(30) DEF Stage, L!Moves
  <2>4. CASE i <= sent /\ i \notin Range(calls) /\ i \notin IdsOf(batch) /\ i > Mark
    BY <1>1, <1>3, <2>a, <2>b, <2>4, SMTT(30) DEF Stage, L!Moves
  <2>5. CASE i <= sent /\ i \notin Range(calls) /\ i \notin IdsOf(batch) /\ i <= Mark
    BY <1>1, <1>3, <2>a, <2>b, <2>5 DEF Stage
  <2>6. QED
    BY <1>1, <2>1, <2>2, <2>3, <2>4, <2>5, SMTT(30)
<1>4. ASSUME NEW i \in 1 .. MaxMessages, NEW j \in 1 .. MaxMessages, i < j, Stage(j)' = "taken"
      PROVE  Stage(i)' \notin {"new", "queued"}
  <2>1. j \in IdsOf(batch')
    BY <1>4, Zenon DEF Stage
  <2>2. j <= Mark'
    BY <1>1, <2>1 DEF Stages
  <2>3. i <= Mark' /\ i <= sent'
    BY <1>1, <1>4, <2>2
  <2>4. QED
    BY <1>1, <2>3 DEF Stage
<1>5. QED
  BY <1>1, <1>3, <1>4, Zenon DEF L!Advance

\* A group that was destroyed once stays so.
LEMMA DropsGrow ==
  ASSUME ConsumeAssumption, used \in Spent, [ConsumeNext]_consumeVars
  PROVE  used.drops \in Nat /\ used'.drops \in Nat /\ used'.drops >= used.drops
<1>1. used.drops \in Nat
  BY DEF Spent
<1>2. CASE used' = used
  BY <1>1, <1>2
<1>3. ASSUME NEW what \in {"faults", "crashes", "drops", "flushes"}, Spend(what)
      PROVE  used'.drops \in Nat /\ used'.drops >= used.drops
  BY <1>1, <1>3, SpendsFault, SpendsCrash, SpendsDrop, SpendsFlush
<1>4. ASSUME ConsumeNext PROVE used' = used \/ \E what \in {"faults", "crashes", "drops", "flushes"} : Spend(what)
  BY <1>4, Zenon DEF ConsumeNext, Loop, Publish, Start, CheckPhantomConsume, ReadMessages, ReadIdle,
     ReadNoGroup, ReadError, HandleMessage, AckHandled, Crash, DropGroup, FlushDB
<1>5. QED
  BY <1>1, <1>2, <1>3, <1>4, Zenon DEF consumeVars

\* A consumer gives every message the life that Lifecycle describes, until
\* somebody destroys its group: queued, taken in publication order, and then
\* handled or lost, never both and never again (consume.go, ConsumeStream).
THEOREM ConsumeImplementsLifecycle ==
  ASSUME ConsumeAssumption
  PROVE  ConsumeSpec => LifecycleSpec
<1>1. ConsumeInit => L!Init
  <2> SUFFICES ASSUME ConsumeInit PROVE L!Init
    BY Zenon
  <2>1. (\A i \in 1 .. MaxMessages : i > sent) /\ used.drops = 0
    BY DEF ConsumeInit
  <2>2. QED
    BY <2>1 DEF L!Init, fate
<1>a. (ConsumeInv /\ used.drops = 0)' => Stages'
  BY FateIsStage, PTL
<1>2. ConsumeInv /\ ConsumeInv' /\ [ConsumeNext]_consumeVars => L!Step
  <2> SUFFICES ASSUME ConsumeInv, ConsumeInv', [ConsumeNext]_consumeVars
               PROVE  L!Step
    BY Zenon
  <2>1. /\ used.drops \in Nat /\ used'.drops \in Nat /\ used'.drops >= used.drops
    BY DropsGrow, Zenon DEF ConsumeInv, ConsumeTypes
  <2>2. fate' \in [1 .. MaxMessages -> L!Fates]
    BY Zenon DEF fate, L!Fates
  <2>3. (used'.drops > 0) \in {used.drops > 0, TRUE}
    <3>1. used.drops > 0 => used'.drops > 0
      BY <2>1
    <3>2. CASE used'.drops > 0
      BY <3>2, Zenon
    <3>3. CASE ~(used'.drops > 0)
      <4>1. (used'.drops > 0) = (used.drops > 0)
        BY <3>1, <3>3
      <4>2. QED
        BY <4>1, Zenon
    <3>4. QED
      BY <3>2, <3>3, Zenon
  <2>4. ASSUME ~(used'.drops > 0) PROVE L!Advance
    <3>1. used.drops = 0 /\ used'.drops = 0
      BY <2>1, <2>4
    <3>2. Stages /\ Stages'
      BY <1>a, <3>1, FateIsStage, Zenon
    <3>3. Advances
      BY <3>1, StepAdvances, Zenon DEF ConsumeInv
    <3>4. QED
      BY <3>2, <3>3, AdvanceIsStep, Zenon
  <2>5. QED
    BY <2>2, <2>3, <2>4, Zenon DEF L!Step
<1>3. QED
  BY <1>1, <1>2, ConsumeInvariant, PTL DEF ConsumeSpec, LifecycleSpec, L!Spec

-----------------------------------------------------------------------------
(* The gate in front of the tools *)

TurnRecord == [pc : {"idle", "prepare", "calls"}, session : Sessions \cup {None},
               active : Skills \cup {None}, iter : 0 .. MaxIter,
               offered : SUBSET Tools, visible : SUBSET Tools]

GateTypes ==
    /\ store \subseteq Skills /\ stored \in [Sessions -> Skills \cup {None}]
    /\ turn \in TurnRecord
    /\ turns \in 0 .. MaxTurns /\ gateFaults \in 0 .. MaxGateFaults

\* Between turns nothing has run; in one, the gate lets through what was offered.
GateTurn ==
    /\ turn.pc = "idle" => ran = NothingRan
    /\ turn.pc = "calls" => turn.iter < MaxIter
    /\ turn.visible \subseteq turn.offered

GateInv == GateTypes /\ GateTurn /\ RanWasOffered /\ OwnSession /\ ActiveIsLoaded

\* What is registered is listed: register stores a tool in both.  (A registry
\* that lost an entry of its order would let a skill allow what is not offered.)
RegistryWhole == Listed = Registered

\* Every step keeps the shapes of the variables.
LEMMA GateTypesStep ==
  ASSUME ToolGateAssumption, GateTypes, GateTurn, [GateNext]_(gateVars)
  PROVE  GateTypes'
<1> USE DEF GateTypes
<1>a. NoTurn \in TurnRecord
  BY DEF NoTurn, TurnRecord, ToolGateAssumption, None
<1>b. ASSUME NEW s \in Sessions, NEW name \in Skills \cup {None}
      PROVE  [NoTurn EXCEPT !.pc = "prepare", !.session = s, !.active = name] \in TurnRecord
  <2>1. [NoTurn EXCEPT !.pc = "prepare"] \in TurnRecord
    BY <1>a, Zenon DEF TurnRecord
  <2>2. [[NoTurn EXCEPT !.pc = "prepare"] EXCEPT !.session = s] \in TurnRecord
    BY <2>1, Zenon DEF TurnRecord
  <2>3. [[[NoTurn EXCEPT !.pc = "prepare"] EXCEPT !.session = s] EXCEPT !.active = name]
          \in TurnRecord
    BY <2>2, Zenon DEF TurnRecord
  <2>4. QED
    BY <2>3, Zenon
<1>1. ASSUME NEW s \in Sessions, StartTurn(s) PROVE GateTypes'
  <2>1. turn' \in TurnRecord
    <3>1. stored[s] \in Skills \cup {None}
      BY Zenon
    <3>2. PICK name \in Skills \cup {None} :
            turn' = [NoTurn EXCEPT !.pc = "prepare", !.session = s, !.active = name]
      BY <1>1, <3>1, Zenon DEF StartTurn
    <3>3. QED
      BY <1>b, <3>2, Zenon
  <2>2. stored' \in [Sessions -> Skills \cup {None}]
    BY <1>1, Zenon DEF StartTurn
  <2>3. turns' \in 0 .. MaxTurns /\ gateFaults' \in 0 .. MaxGateFaults
    BY <1>1 DEF StartTurn, ToolGateAssumption
  <2>4. QED
    BY <1>1, <2>1, <2>2, <2>3, Zenon DEF StartTurn
<1>2. ASSUME NEW s \in Sessions, ExpireKey(s) PROVE GateTypes'
  BY <1>2, Zenon DEF ExpireKey
<1>3. CASE Iterate
  <2>1. SchemasFor(turn.active) \subseteq Tools /\ visibleSet(turn.active) \subseteq Tools
    BY Zenon DEF SchemasFor, visibleSet, ToolGateAssumption
  <2>2. turn' \in TurnRecord
    BY <1>3, <2>1, Zenon DEF Iterate, TurnRecord
  <2>3. QED
    BY <1>3, <2>2, Zenon DEF Iterate
<1>4. CASE NextIteration
  <2>1. turn' \in TurnRecord
    <3>1. turn.iter + 1 \in 0 .. MaxIter
      BY <1>4 DEF NextIteration, TurnRecord, GateTurn, ToolGateAssumption
    <3>2. QED
      BY <1>4, <3>1, Zenon DEF NextIteration, TurnRecord
  <2>2. QED
    BY <1>4, <2>1, Zenon DEF NextIteration
<1>5. CASE EndTurn \/ Restart
  BY <1>5, <1>a, Zenon DEF EndTurn, Restart
<1>6. ASSUME NEW t \in Tools, NEW sid, CallTool(t, sid) PROVE GateTypes'
  BY <1>6, Zenon DEF CallTool
<1>7. ASSUME NEW name \in Skills, CallReadSkill(name) PROVE GateTypes'
  <2>1. turn' \in TurnRecord
    BY <1>7, Zenon DEF CallReadSkill, TurnRecord
  <2>2. stored' \in [Sessions -> Skills \cup {None}]
    BY <1>7, Zenon DEF CallReadSkill
  <2>3. gateFaults' \in 0 .. MaxGateFaults
    BY <1>7 DEF CallReadSkill, ToolGateAssumption
  <2>4. QED
    BY <1>7, <2>1, <2>2, <2>3, Zenon DEF CallReadSkill
<1>8. CASE UNCHANGED gateVars
  BY <1>8, Zenon DEF gateVars
<1>9. QED
  BY <1>1, <1>2, <1>3, <1>4, <1>5, <1>6, <1>7, <1>8, Zenon DEF GateNext

\* Every step keeps what a turn may do in line with what it was offered.
LEMMA GateTurnStep ==
  ASSUME ToolGateAssumption, RegistryWhole, GateInv, [GateNext]_(gateVars)
  PROVE  GateTurn' /\ RanWasOffered' /\ OwnSession' /\ ActiveIsLoaded'
<1> DEFINE Goal == GateTurn' /\ RanWasOffered' /\ OwnSession' /\ ActiveIsLoaded'
<1> USE DEF GateTurn, RanWasOffered, OwnSession, ActiveIsLoaded
<1>a. turn \in TurnRecord /\ RanWasOffered /\ OwnSession /\ ActiveIsLoaded /\ GateTurn
  BY Zenon DEF GateInv, GateTypes
<1>b. /\ NoTurn.pc = "idle" /\ NoTurn.active = None /\ NoTurn.visible = {}
      /\ NothingRan.tool = None /\ None # Bash
  BY Zenon DEF NoTurn, NothingRan, None, Bash
<1>1. ASSUME NEW s \in Sessions, StartTurn(s) PROVE Goal
  <2>1. ran = NothingRan /\ ran' = ran
    BY <1>1, <1>a, Zenon DEF StartTurn
  <2>2. PICK name \in store \cup {None} :
          turn' = [NoTurn EXCEPT !.pc = "prepare", !.session = s, !.active = name]
    BY <1>1, Zenon DEF StartTurn, Known
  <2>3. /\ turn'.pc = "prepare" /\ turn'.active = name /\ turn'.visible = {}
    BY <2>2, Zenon DEF NoTurn
  <2>4. store' = store
    BY <1>1, Zenon DEF StartTurn
  <2>5. QED
    BY <1>b, <2>1, <2>3, <2>4, Zenon
<1>2. ASSUME NEW s \in Sessions, ExpireKey(s) PROVE Goal
  BY <1>2, <1>a, Zenon DEF ExpireKey
<1>3. CASE Iterate
  <2>1. visibleSet(turn.active) \subseteq SchemasFor(turn.active)
    BY Zenon DEF SchemasFor, visibleSet, RegistryWhole
  <2>2. QED
    BY <1>3, <1>a, <2>1, Zenon DEF Iterate, HasIteration, TurnRecord
<1>4. CASE NextIteration
  BY <1>4, <1>a, Zenon DEF NextIteration, TurnRecord
<1>5. CASE EndTurn \/ Restart
  BY <1>5, <1>b, Zenon DEF EndTurn, Restart
<1>6. ASSUME NEW t \in Tools, NEW sid, CallTool(t, sid) PROVE Goal
  <2>1. turn' = turn /\ store' = store /\ turn.pc = "calls"
    BY <1>6, Zenon DEF CallTool
  <2>2. \/ ran' = ran
        \/ ran'.tool = t /\ ran'.offered = turn.offered /\ t \in turn.visible
             /\ (t = Bash => ran'.sid = turn.session)
    BY <1>6 DEF CallTool, injectSessionID
  <2>3. QED
    BY <1>a, <2>1, <2>2, Zenon
<1>7. ASSUME NEW name \in Skills, CallReadSkill(name) PROVE Goal
  <2>1. /\ store' = store /\ turn.pc = "calls"
        /\ turn' = turn \/ (turn' = [turn EXCEPT !.active = name] /\ name \in store)
    BY <1>7, Zenon DEF CallReadSkill, Activates
  <2>2. /\ turn'.pc = "calls" /\ turn'.session = turn.session /\ turn'.iter = turn.iter
        /\ turn'.visible = turn.visible /\ turn'.offered = turn.offered
        /\ turn'.active = turn.active \/ turn'.active \in store
    BY <1>a, <2>1, Zenon DEF TurnRecord
  <2>3. \/ ran' = ran
        \/ ran'.tool = ReadSkill /\ ran'.offered = turn.offered /\ ReadSkill \in turn.visible
    BY <1>7, Zenon DEF CallReadSkill
  <2>4. ReadSkill # Bash
    BY Zenon DEF ReadSkill, Bash
  <2>5. QED
    BY <1>a, <2>1, <2>2, <2>3, <2>4, Zenon
<1>8. CASE UNCHANGED gateVars
  BY <1>8, <1>a, Zenon DEF gateVars
<1>9. QED
  BY <1>1, <1>2, <1>3, <1>4, <1>5, <1>6, <1>7, <1>8, Zenon DEF GateNext

\* Whatever skills are activated in mid-turn, expire or vanish from disk: a tool
\* runs only if it was offered in the same iteration, a tool bound to a session
\* runs with the session of the turn, and the active skill is one the agent has
\* (cmd/main-agent/main.go).
THEOREM GateIsSound ==
  ASSUME ToolGateAssumption, RegistryWhole
  PROVE  GateSpec => []GateSound
<1>1. GateInit => GateInv
  BY DEF GateInit, GateInv, GateTypes, TurnRecord, GateTurn, NoTurn, NothingRan, None, Bash,
         RanWasOffered, OwnSession, ActiveIsLoaded, ToolGateAssumption
<1>2. GateInv /\ [GateNext]_(gateVars) => GateInv'
  BY GateTypesStep, GateTurnStep, Zenon DEF GateInv
<1>3. GateInv => GateSound
  BY Zenon DEF GateInv, GateTypes, TurnRecord, GateSound, GateTypeOK
<1>4. QED
  BY <1>1, <1>2, <1>3, PTL DEF GateSpec

=============================================================================
