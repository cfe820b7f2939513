-------------------------- MODULE ToolCallAssembly --------------------------
(***************************************************************************)
(* How readSSEStream (internal/broker/broker.go) puts tool calls together: *)
(* llama-server streams fragments of several calls interleaved, each with  *)
(* the index of its call; an accumulator per index merges them, and the    *)
(* calls are sent when the stream is over, for whatever reason.            *)
(*                                                                         *)
(* A call is what the model means it to be: a name and the pieces of its   *)
(* arguments, numbered.  Content tokens and chunks that do not parse go    *)
(* past the accumulators.                                                  *)
(***************************************************************************)
EXTENDS Naturals, Sequences, FiniteSets

CONSTANTS
    Indices,   \* the indices of the calls
    Names,     \* names of tools
    MaxPieces, \* bound: pieces of a call's arguments
    MaxNoise   \* bound: fragments that repeat an id and a name

NoName == "noname"

\* What the constants satisfy.
AssemblyAssumption ==
    /\ Indices \subseteq Nat /\ IsFiniteSet(Indices)
    /\ {MaxPieces, MaxNoise} \subseteq Nat /\ NoName \notin Names

NoAcc == [name |-> NoName, args |-> <<>>]

VARIABLES
    call,   \* index -> [name, pieces]: what llama-server is streaming
    sent,   \* index -> fragments it has sent; the first carries the name
    noise,  \* repetitions sent so far
    accs,   \* accs: index -> accumulator, for the indices seen
    out,    \* toolCallCh
    phase   \* "scan", then "whole" or "cut", then "sent" or "sentCut"

assemblyVars == <<call, sent, noise, accs, out, phase>>

Seen == DOMAIN accs

\* Types; every index that was streamed has its accumulator.
AssemblyTypeOK ==
    /\ call \in [Indices -> [name : Names, pieces : 0 .. MaxPieces]]
    /\ sent \in [Indices -> 0 .. MaxPieces + 1]
    /\ Seen = {i \in Indices : sent[i] > 0}
    /\ phase \in {"scan", "whole", "cut", "sent", "sentCut"}

AssemblyInit ==
    /\ call \in [Indices -> [name : Names, pieces : 0 .. MaxPieces]]
    /\ sent = [i \in Indices |-> 0]
    /\ noise = 0 /\ accs = [i \in {} |-> NoAcc] /\ out = <<>> /\ phase = "scan"

-----------------------------------------------------------------------------

\* The merge of one fragment: the first name stays, arguments are appended.
Merge_LastName(acc, name, args) ==
    [name |-> IF name # NoName THEN name ELSE acc.name, args |-> acc.args \o args]
Merge(acc, name, args) ==
    [name |-> IF acc.name = NoName THEN name ELSE acc.name, args |-> acc.args \o args]

\* A fragment at index i: its accumulator is made on first sight.
AddFragment(i, name, args) ==
    accs' = [j \in Seen \cup {i} |->
                IF j # i THEN accs[j]
                ELSE Merge(IF i \in Seen THEN accs[i] ELSE NoAcc, name, args)]

\* The next fragment of call i: the name first, then a piece at a time.
ReadFragment(i) ==
    /\ phase = "scan" /\ sent[i] <= call[i].pieces
    /\ AddFragment(i, IF sent[i] = 0 THEN call[i].name ELSE NoName,
                      IF sent[i] = 0 THEN <<>> ELSE <<sent[i]>>)
    /\ sent' = [sent EXCEPT ![i] = @ + 1]
    /\ UNCHANGED <<call, noise, out, phase>>

\* A later fragment may carry a name again.
RepeatName(i, name) ==
    /\ phase = "scan" /\ sent[i] > 0 /\ noise < MaxNoise
    /\ noise' = noise + 1
    /\ AddFragment(i, name, <<>>)
    /\ UNCHANGED <<call, sent, out, phase>>

Done(i) == sent[i] = call[i].pieces + 1

\* [DONE] or the end of the body.
EndStream ==
    /\ phase = "scan" /\ \A i \in Indices : sent[i] = 0 \/ Done(i)
    /\ phase' = "whole"
    /\ UNCHANGED <<call, sent, noise, accs, out>>

\* The connection breaks, or a line is longer than the scanner's buffer.
CutStream ==
    /\ phase = "scan"
    /\ phase' = "cut"
    /\ UNCHANGED <<call, sent, noise, accs, out>>

\* The calls are sent in the order of their indices, after either end.
Order_Reverse(S) == {q \in [1 .. Cardinality(S) -> S] :
                        \A k, l \in 1 .. Cardinality(S) : k < l => q[k] > q[l]}
Order(S) == {q \in [1 .. Cardinality(S) -> S] :
                \A k, l \in 1 .. Cardinality(S) : k < l => q[k] < q[l]}

SendToolCalls ==
    /\ phase \in {"whole", "cut"}
    /\ \E q \in Order(Seen) : out' = [k \in 1 .. Cardinality(Seen) |-> accs[q[k]]]
    /\ phase' = IF phase = "whole" THEN "sent" ELSE "sentCut"
    /\ UNCHANGED <<call, sent, noise, accs>>

AssemblyNext ==
    \/ \E i \in Indices : ReadFragment(i) \/ \E n \in Names : RepeatName(i, n)
    \/ EndStream \/ CutStream \/ SendToolCalls

AssemblySpec == AssemblyInit /\ [][AssemblyNext]_assemblyVars

-----------------------------------------------------------------------------
(* Properties *)

Pieces(n) == [k \in 1 .. n |-> k]
Meant(i) == [name |-> call[i].name, args |-> Pieces(call[i].pieces)]
Streamed == {i \in Indices : sent[i] > 0}

\* After a complete stream the agent gets exactly the calls the model made, in
\* the order of their indices, with the name each began with and its arguments
\* whole, however the fragments were interleaved (broker.go, readSSEStream).
CallsAsMeant ==
    LET n == Cardinality(Streamed)
    IN  phase = "sent" =>
            \E q \in [1 .. n -> Streamed] :
                /\ \A k, l \in 1 .. n : k < l => q[k] < q[l]
                /\ out = [k \in 1 .. n |-> Meant(q[k])]

\* While a stream is read, an accumulator holds what its own call has sent so
\* far, in order, and nothing of another (broker.go, readSSEStream).
PrefixOfOwn ==
    \A i \in Seen : accs[i] = [name |-> call[i].name, args |-> Pieces(sent[i] - 1)]

\* What the assembly of a stream's tool calls keeps, all together (broker.go,
\* readSSEStream).
AssemblySound == AssemblyTypeOK /\ CallsAsMeant /\ PrefixOfOwn
=============================================================================
