--------------------------- MODULE RequestsProofs ---------------------------
(***************************************************************************)
(* The path of an LLM request, for every value of the constants.           *)
(*                                                                         *)
(* ToolCallAssembly: each tool call of an answer is put together from its  *)
(* own fragments.                                                          *)
(*                                                                         *)
(* Inference: an answer that Execute reports as a success is whole.  The   *)
(* invariant follows the pieces of an answer from the proxy's reader over  *)
(* the relay's two channels to the reply stream and to what Execute has    *)
(* taken; one lemma per group of steps shows that they keep it.            *)
(***************************************************************************)
EXTENDS Inference, ToolCallAssembly, TLAPS

-----------------------------------------------------------------------------
(* The assembly of tool calls *)

\* The pieces so far and one more are the pieces up to it.
LEMMA OneMorePiece ==
  ASSUME NEW n \in Nat
  PROVE  Pieces(n) \o <<n + 1>> = Pieces(n + 1) /\ Pieces(n) \in Seq(Nat)
<1>1. Pieces(n) \in Seq(Nat) /\ Len(Pieces(n)) = n
  BY DEF Pieces
<1>2. DOMAIN (Pieces(n) \o <<n + 1>>) = 1 .. (n + 1)
  BY <1>1
<1>3. ASSUME NEW k \in 1 .. (n + 1) PROVE (Pieces(n) \o <<n + 1>>)[k] = k
  BY <1>1, <1>3 DEF Pieces
<1>4. Pieces(n) \o <<n + 1>> \in Seq(Nat)
  BY <1>1
<1>5. QED
  BY <1>1, <1>2, <1>3, <1>4 DEF Pieces

\* The invariant: an accumulator has the beginning of its call, and a stream read
\* to its end has the whole of each call it began.
AssemblyInv ==
    /\ AssemblyTypeOK /\ PrefixOfOwn
    /\ \A i \in Indices : sent[i] <= call[i].pieces + 1
    /\ phase \in {"whole", "sent"} => \A i \in Indices : sent[i] = 0 \/ Done(i)
    /\ CallsAsMeant

\* A fragment of a call extends its accumulator and no other.
LEMMA FragmentKept ==
  ASSUME AssemblyAssumption, AssemblyTypeOK, PrefixOfOwn, NEW i \in Indices,
         NEW name, NEW args, AddFragment(i, name, args), UNCHANGED <<call, phase>>,
         \/ /\ sent[i] = 0 /\ name = call[i].name /\ args = <<>>
            /\ sent' = [sent EXCEPT ![i] = @ + 1]
         \/ /\ sent[i] > 0 /\ sent[i] <= call[i].pieces /\ name = NoName /\ args = <<sent[i]>>
            /\ sent' = [sent EXCEPT ![i] = @ + 1]
         \/ sent[i] > 0 /\ args = <<>> /\ UNCHANGED sent
  PROVE  AssemblyTypeOK' /\ PrefixOfOwn'
<1>a. /\ MaxPieces \in Nat /\ sent \in [Indices -> 0 .. MaxPieces + 1] /\ sent[i] \in Nat
      /\ call \in [Indices -> [name : Names, pieces : 0 .. MaxPieces]]
      /\ call[i].name # NoName /\ call[i].pieces \in 0 .. MaxPieces
      /\ Seen = {j \in Indices : sent[j] > 0}
  BY DEF AssemblyTypeOK, AssemblyAssumption
<1>1. sent' \in [Indices -> 0 .. MaxPieces + 1] /\ sent'[i] > 0
      /\ \A j \in Indices : j # i => sent'[j] = sent[j]
  BY <1>a, SMTT(30)
<1>2. accs' = [j \in Seen \cup {i} |->
                IF j # i THEN accs[j]
                ELSE Merge(IF i \in Seen THEN accs[i] ELSE NoAcc, name, args)]
  BY Zenon DEF AddFragment
<1>3. Seen' = Seen \cup {i} /\ \A j \in Seen : j # i => accs'[j] = accs[j]
  BY <1>2, Zenon DEF Seen
<1>4. Seen' = {j \in Indices : sent'[j] > 0}
  BY <1>1, <1>3, <1>a, Zenon
<1>5. AssemblyTypeOK'
  BY <1>1, <1>4, <1>a, Zenon DEF AssemblyTypeOK
<1>6. accs'[i] = Merge(IF i \in Seen THEN accs[i] ELSE NoAcc, name, args)
  BY <1>2, Zenon
<1>7. accs'[i] = [name |-> call[i].name, args |-> Pieces(sent'[i] - 1)]
  <2>1. CASE sent[i] = 0
    <3>1. i \notin Seen /\ sent'[i] - 1 = 0 /\ name = call[i].name /\ args = <<>>
      BY <1>a, <2>1
    <3>2. accs'[i] = [name |-> call[i].name, args |-> <<>> \o <<>>]
      BY <1>6, <3>1, Zenon DEF Merge, NoAcc
    <3>3. <<>> \o <<>> = <<>> /\ Pieces(0) = <<>>
      BY DEF Pieces
    <3>4. QED
      BY <3>1, <3>2, <3>3, Zenon
  <2>2. CASE sent[i] > 0
    <3>1. i \in Seen /\ accs[i] = [name |-> call[i].name, args |-> Pieces(sent[i] - 1)]
      BY <1>a, <2>2, Zenon DEF PrefixOfOwn
    <3>2. accs'[i] = [name |-> call[i].name, args |-> Pieces(sent[i] - 1) \o args]
      <4>1. accs[i].name = call[i].name /\ accs[i].args = Pieces(sent[i] - 1)
        BY <3>1
      <4>2. accs'[i] = Merge(accs[i], name, args)
        BY <1>6, <3>1, Zenon
      <4>3. Merge(accs[i], name, args) = [name |-> accs[i].name, args |-> accs[i].args \o args]
        BY <1>a, <4>1, Zenon DEF Merge
      <4>4. QED
        BY <4>1, <4>2, <4>3, Zenon
    <3>3. sent[i] - 1 \in Nat /\ (sent[i] - 1) + 1 = sent[i]
      BY <1>a, <2>2
    <3>4. Pieces(sent[i] - 1) \o <<sent[i]>> = Pieces(sent[i])
          /\ Pieces(sent[i] - 1) \in Seq(Nat)
      BY <3>3, OneMorePiece, Zenon
    <3>5. Pieces(sent[i] - 1) \o <<>> = Pieces(sent[i] - 1)
      BY <3>4
    <3>6. CASE sent' = sent /\ args = <<>>
      BY <3>2, <3>5, <3>6, Zenon
    <3>7. CASE sent' = [sent EXCEPT ![i] = @ + 1] /\ args = <<sent[i]>>
      <4>1. sent'[i] - 1 = sent[i]
        BY <1>a, <3>7
      <4>2. QED
        BY <3>2, <3>4, <3>7, <4>1, Zenon
    <3>8. QED
      BY <2>2, <3>6, <3>7
  <2>3. QED
    BY <1>a, <2>1, <2>2, Zenon
<1>8. PrefixOfOwn'
  <2>1. SUFFICES ASSUME NEW j \in Seen', j # i
                 PROVE  accs'[j] = [name |-> call'[j].name, args |-> Pieces(sent'[j] - 1)]
    BY <1>7, Zenon DEF PrefixOfOwn
  <2>2. j \in Seen /\ accs'[j] = accs[j] /\ sent'[j] = sent[j]
    BY <1>1, <1>3, <1>a, <2>1, Zenon
  <2>3. QED
    BY <2>2, Zenon DEF PrefixOfOwn
<1>9. QED
  BY <1>5, <1>8, Zenon

\* The accumulators and what is sent of them stay what was streamed.
LEMMA AssemblyStep ==
  ASSUME AssemblyAssumption, AssemblyInv, [AssemblyNext]_(assemblyVars)
  PROVE  AssemblyInv'
<1>a. /\ AssemblyTypeOK /\ PrefixOfOwn /\ sent \in [Indices -> 0 .. MaxPieces + 1]
      /\ call \in [Indices -> [name : Names, pieces : 0 .. MaxPieces]] /\ MaxPieces \in Nat
      /\ \A i \in Indices : sent[i] <= call[i].pieces + 1
  BY Zenon DEF AssemblyInv, AssemblyTypeOK, AssemblyAssumption
<1>1. ASSUME NEW i \in Indices, ReadFragment(i) PROVE AssemblyInv'
  <2>1. /\ phase = "scan" /\ sent[i] <= call[i].pieces /\ sent' = [sent EXCEPT ![i] = @ + 1]
        /\ AddFragment(i, IF sent[i] = 0 THEN call[i].name ELSE NoName,
                            IF sent[i] = 0 THEN <<>> ELSE <<sent[i]>>)
        /\ UNCHANGED <<call, phase>>
    BY <1>1, Zenon DEF ReadFragment
  <2>2. CASE sent[i] = 0
    <3>1. AddFragment(i, call[i].name, <<>>)
      BY <2>1, <2>2, Zenon
    <3>2. AssemblyTypeOK' /\ PrefixOfOwn'
      BY <1>a, <2>1, <2>2, <3>1, FragmentKept, Zenon
    <3>3. QED
      BY <1>a, <2>1, <3>2 DEF AssemblyInv, CallsAsMeant
  <2>3. CASE sent[i] > 0
    <3>1. AddFragment(i, NoName, <<sent[i]>>)
      BY <2>1, <2>3
    <3>2. AssemblyTypeOK' /\ PrefixOfOwn'
      BY <1>a, <2>1, <2>3, <3>1, FragmentKept, Zenon
    <3>3. QED
      BY <1>a, <2>1, <3>2 DEF AssemblyInv, CallsAsMeant
  <2>4. QED
    BY <1>a, <2>2, <2>3
<1>2. ASSUME NEW i \in Indices, NEW n \in Names, RepeatName(i, n) PROVE AssemblyInv'
  <2>1. /\ phase = "scan" /\ sent[i] > 0 /\ AddFragment(i, n, <<>>)
        /\ UNCHANGED <<call, sent, phase>>
    BY <1>2, Zenon DEF RepeatName
  <2>2. AssemblyTypeOK' /\ PrefixOfOwn'
    BY <1>a, <2>1, FragmentKept, Zenon
  <2>3. QED
    BY <1>a, <2>1, <2>2, Zenon DEF AssemblyInv, CallsAsMeant
<1>3. CASE EndStream \/ CutStream \/ UNCHANGED assemblyVars
  <2>1. UNCHANGED <<call, sent, accs, out>>
        /\ \/ phase' = "whole" /\ \A i \in Indices : sent[i] = 0 \/ Done(i)
           \/ phase' = "cut"
           \/ phase' = phase
    BY <1>3, Zenon DEF EndStream, CutStream, assemblyVars
  <2>2. AssemblyTypeOK' /\ PrefixOfOwn'
    BY <1>a, <2>1, Zenon DEF AssemblyTypeOK, PrefixOfOwn, Seen
  <2>3. CallsAsMeant'
    BY <2>1, Zenon DEF AssemblyInv, CallsAsMeant, Streamed, Meant
  <2>4. phase' \in {"whole", "sent"} => \A i \in Indices : sent'[i] = 0 \/ Done(i)'
    BY <2>1, Zenon DEF AssemblyInv, Done
  <2>5. QED
    BY <1>a, <2>1, <2>2, <2>3, <2>4, Zenon DEF AssemblyInv
<1>4. CASE SendToolCalls
  <2>1. UNCHANGED <<call, sent, accs>> /\ phase' \in {"sent", "sentCut"}
        /\ (phase' = "sent" => phase = "whole")
    BY <1>4, Zenon DEF SendToolCalls
  <2>2. AssemblyTypeOK' /\ PrefixOfOwn'
    BY <1>a, <2>1, Zenon DEF AssemblyTypeOK, PrefixOfOwn, Seen
  <2>3. ASSUME phase' = "sent" PROVE \A i \in Indices : sent[i] = 0 \/ Done(i)
    BY <2>1, <2>3, Zenon DEF AssemblyInv
  <2>4. ASSUME phase' = "sent" PROVE CallsAsMeant'
    <3>1. Seen = Streamed /\ Streamed' = Streamed
      BY <1>a, <2>1, Zenon DEF AssemblyTypeOK, Streamed
    <3>2. PICK q \in Order(Seen) : out' = [k \in 1 .. Cardinality(Seen) |-> accs[q[k]]]
      BY <1>4, Zenon DEF SendToolCalls
    <3> DEFINE n == Cardinality(Streamed)
    <3>3. /\ q \in [1 .. n -> Streamed] /\ \A k, l \in 1 .. n : k < l => q[k] < q[l]
          /\ out' = [k \in 1 .. n |-> accs[q[k]]]
      BY <3>1, <3>2, Zenon DEF Order
    <3>4. ASSUME NEW i \in Streamed PROVE accs[i] = Meant(i) /\ Meant(i)' = Meant(i)
      <4>1. i \in Indices /\ i \in Seen /\ sent[i] - 1 = call[i].pieces
        BY <1>a, <2>3, <2>4, <3>1 DEF Streamed, Done
      <4>2. QED
        BY <1>a, <2>1, <4>1, Zenon DEF PrefixOfOwn, Meant
    <3> HIDE DEF n
    <3>5. out' = [k \in 1 .. n |-> Meant(q[k])']
      BY <3>3, <3>4, Zenon
    <3>6. n = Cardinality(Streamed')
      BY <3>1, Zenon DEF n
    <3>7. /\ q \in [1 .. Cardinality(Streamed') -> Streamed']
          /\ \A k, l \in 1 .. Cardinality(Streamed') : k < l => q[k] < q[l]
          /\ out' = [k \in 1 .. Cardinality(Streamed') |-> Meant(q[k])']
      BY <3>1, <3>3, <3>5, <3>6, Zenon
    <3>8. QED
      BY <3>7, Zenon DEF CallsAsMeant
  <2>5. QED
    BY <1>a, <2>1, <2>2, <2>3, <2>4, Zenon DEF AssemblyInv, CallsAsMeant, Done
<1>5. QED
  BY <1>1, <1>2, <1>3, <1>4, Zenon DEF AssemblyNext

\* The tool calls of an answer (broker.go, readSSEStream), for any number of
\* calls and of pieces and any interleaving of their fragments: a complete
\* stream yields exactly the calls the model made, in the order of their
\* indices, and an accumulator never mixes two calls.
THEOREM AssemblyIsSound ==
  ASSUME AssemblyAssumption
  PROVE  AssemblySpec => []AssemblySound
<1>1. ASSUME AssemblyInit PROVE AssemblyInv
  <2>1. Seen = {} /\ phase = "scan" /\ sent = [i \in Indices |-> 0] /\ MaxPieces \in Nat
    BY <1>1, Zenon DEF AssemblyInit, Seen, AssemblyAssumption
  <2>2. call \in [Indices -> [name : Names, pieces : 0 .. MaxPieces]]
    BY <1>1, Zenon DEF AssemblyInit
  <2>3. QED
    BY <2>1, <2>2 DEF AssemblyInv, AssemblyTypeOK, PrefixOfOwn, CallsAsMeant
<1>2. AssemblyInv /\ [AssemblyNext]_(assemblyVars) => AssemblyInv'
  BY AssemblyStep, Zenon
<1>3. AssemblyInv => AssemblySound
  BY Zenon DEF AssemblyInv, AssemblySound
<1>4. QED
  BY <1>1, <1>2, <1>3, PTL DEF AssemblySpec

-----------------------------------------------------------------------------
(* The exchange on a slot: channels and reply streams *)

Messages == {"token", "tool", "done"} \X Nat

\* A channel holds the last of the em values sent to it, in order.
Chan(ch, em, cap) ==
    /\ Len(ch) <= em /\ Len(ch) <= cap
    /\ \A i \in 1 .. Len(ch) : ch[i] = em - Len(ch) + i

\* Sending the next value.
LEMMA ChanSend ==
  ASSUME NEW ch \in Seq(Nat), NEW em \in Nat, NEW cap \in Nat, Chan(ch, em, cap), Len(ch) < cap
  PROVE  /\ Append(ch, em + 1) \in Seq(Nat) /\ Len(Append(ch, em + 1)) = Len(ch) + 1
         /\ Chan(Append(ch, em + 1), em + 1, cap)
<1>1. /\ Append(ch, em + 1) \in Seq(Nat) /\ Len(ch) \in Nat
      /\ Len(Append(ch, em + 1)) = Len(ch) + 1
  OBVIOUS
<1>2. ASSUME NEW i \in 1 .. (Len(ch) + 1)
      PROVE  Append(ch, em + 1)[i] = (em + 1) - (Len(ch) + 1) + i
  <2>1. CASE i \in 1 .. Len(ch)
    BY <1>1, <2>1 DEF Chan
  <2>2. CASE i = Len(ch) + 1
    BY <1>1, <2>2
  <2>3. QED
    BY <1>1, <2>1, <2>2
<1>3. QED
  BY <1>1, <1>2 DEF Chan

\* Receiving one: it is the first of those not yet received.
LEMMA ChanTake ==
  ASSUME NEW ch \in Seq(Nat), NEW em \in Nat, NEW cap \in Nat, Chan(ch, em, cap), ch # <<>>
  PROVE  /\ Tail(ch) \in Seq(Nat) /\ Len(Tail(ch)) = Len(ch) - 1 /\ Len(ch) > 0
         /\ Head(ch) = em - Len(Tail(ch)) /\ Chan(Tail(ch), em, cap)
<1>1. /\ Tail(ch) \in Seq(Nat) /\ Len(ch) \in Nat /\ Len(ch) > 0
      /\ Len(Tail(ch)) = Len(ch) - 1 /\ Head(ch) = ch[1]
      /\ \A i \in 1 .. (Len(ch) - 1) : Tail(ch)[i] = ch[i + 1]
  OBVIOUS
<1>2. Head(ch) = em - Len(Tail(ch))
  BY <1>1 DEF Chan
<1>3. Chan(Tail(ch), em, cap)
  BY <1>1 DEF Chan
<1>4. QED
  BY <1>1, <1>2, <1>3, Zenon

\* What was read of one kind and what the reply stream still holds of it are,
\* in this order, the first p.
Flow(kind, got, rep, p) ==
    /\ Len(got) <= p
    /\ \A i \in 1 .. Len(got) : got[i] = i
    /\ \A i \in 1 .. Len(rep) : rep[i][1] = kind => rep[i][2] \in (Len(got) + 1) .. p
    /\ \A i, k \in 1 .. Len(rep) :
          i < k /\ rep[i][1] = kind /\ rep[k][1] = kind => rep[i][2] < rep[k][2]
    /\ \A n \in (Len(got) + 1) .. p :
          \E i \in 1 .. Len(rep) : rep[i][1] = kind /\ rep[i][2] = n

\* A message more, of this kind or of another.
LEMMA FlowPublish ==
  ASSUME NEW kind, NEW got \in Seq(Nat), NEW rep \in Seq(Messages), NEW p \in Nat,
         NEW m \in Messages, Flow(kind, got, rep, p)
  PROVE  /\ m = <<kind, p + 1>> => Flow(kind, got, Append(rep, m), p + 1)
         /\ m[1] # kind => Flow(kind, got, Append(rep, m), p)
<1> DEFINE new == Append(rep, m)
<1>1. /\ new \in Seq(Messages) /\ Len(rep) \in Nat /\ Len(got) \in Nat
      /\ Len(new) = Len(rep) + 1 /\ new[Len(rep) + 1] = m
      /\ \A i \in 1 .. Len(rep) : new[i] = rep[i]
  OBVIOUS
<1> HIDE DEF new
<1>2. ASSUME NEW i \in 1 .. Len(new)
      PROVE  (i \in 1 .. Len(rep) /\ new[i] = rep[i]) \/ (i = Len(rep) + 1 /\ new[i] = m)
  BY <1>1
<1>3. ASSUME m = <<kind, p + 1>> PROVE Flow(kind, got, new, p + 1)
  <2>1. m[1] = kind /\ m[2] = p + 1 /\ Len(got) <= p
    BY <1>3, Zenon DEF Flow
  <2>2. ASSUME NEW i \in 1 .. Len(new), new[i][1] = kind
        PROVE  new[i][2] \in (Len(got) + 1) .. (p + 1)
    <3>1. CASE i \in 1 .. Len(rep) /\ new[i] = rep[i]
      <4>1. rep[i][2] \in (Len(got) + 1) .. p
        BY <2>2, <3>1, Zenon DEF Flow
      <4>2. QED
        BY <1>1, <3>1, <4>1, SMTT(30)
    <3>2. CASE i = Len(rep) + 1 /\ new[i] = m
      BY <1>1, <2>1, <3>2
    <3>3. QED
      BY <1>2, <3>1, <3>2, Zenon
  <2>3. ASSUME NEW i \in 1 .. Len(new), NEW k \in 1 .. Len(new), i < k,
               new[i][1] = kind, new[k][1] = kind
        PROVE  new[i][2] < new[k][2]
    <3>1. i \in 1 .. Len(rep) /\ new[i] = rep[i]
      BY <1>1, <2>3
    <3>2. CASE k \in 1 .. Len(rep)
      BY <1>1, <2>3, <3>1, <3>2, Zenon DEF Flow
    <3>3. CASE k = Len(rep) + 1
      <4>1. new[k][2] = p + 1 /\ rep[i][2] \in (Len(got) + 1) .. p
        BY <1>1, <2>1, <2>3, <3>1, <3>3, Zenon DEF Flow
      <4>2. QED
        BY <1>1, <3>1, <4>1, SMTT(30)
    <3>4. QED
      BY <1>2, <3>2, <3>3, Zenon
  <2>4. ASSUME NEW n \in (Len(got) + 1) .. (p + 1)
        PROVE  \E i \in 1 .. Len(new) : new[i][1] = kind /\ new[i][2] = n
    <3>1. CASE n = p + 1
      <4>1. Len(rep) + 1 \in 1 .. Len(new)
        BY <1>1
      <4>2. QED
        BY <1>1, <2>1, <3>1, <4>1, Zenon
    <3>2. CASE n \in (Len(got) + 1) .. p
      <4>1. PICK i \in 1 .. Len(rep) : rep[i][1] = kind /\ rep[i][2] = n
        BY <3>2, Zenon DEF Flow
      <4>2. i \in 1 .. Len(new) /\ new[i] = rep[i]
        BY <1>1
      <4>3. QED
        BY <4>1, <4>2, Zenon
    <3>3. Len(got) \in Nat
      BY <1>1, Zenon
    <3>4. n = p + 1 \/ n \in (Len(got) + 1) .. p
      BY <3>3
    <3>5. QED
      BY <3>1, <3>2, <3>4, Zenon
  <2>5. Len(got) <= p + 1 /\ \A i \in 1 .. Len(got) : got[i] = i
    <3>1. \A i \in 1 .. Len(got) : got[i] = i
      BY Zenon DEF Flow
    <3>2. Len(got) \in Nat
      BY <1>1, Zenon
    <3>3. Len(got) <= p + 1
      BY <2>1, <3>2
    <3>4. QED
      BY <3>1, <3>3, Zenon
  <2>6. QED
    BY <2>2, <2>3, <2>4, <2>5, Zenon DEF Flow
<1>4. ASSUME m[1] # kind PROVE Flow(kind, got, new, p)
  <2>1. ASSUME NEW i \in 1 .. Len(new), new[i][1] = kind
        PROVE  i \in 1 .. Len(rep) /\ new[i] = rep[i]
    BY <1>2, <1>4, <2>1, Zenon
  <2>2. ASSUME NEW n \in (Len(got) + 1) .. p
        PROVE  \E i \in 1 .. Len(new) : new[i][1] = kind /\ new[i][2] = n
    <3>1. PICK i \in 1 .. Len(rep) : rep[i][1] = kind /\ rep[i][2] = n
      BY Zenon DEF Flow
    <3>2. i \in 1 .. Len(new) /\ new[i] = rep[i]
      BY <1>1
    <3>3. QED
      BY <3>1, <3>2, Zenon
  <2>3. QED
    BY <2>1, <2>2, Zenon DEF Flow
<1>5. QED
  BY <1>3, <1>4, Zenon DEF new

\* Reading the first message: if it is of this kind it is the next one.
LEMMA FlowRead ==
  ASSUME NEW kind, NEW got \in Seq(Nat), NEW rep \in Seq(Messages), NEW p \in Nat,
         rep # <<>>, Flow(kind, got, rep, p)
  PROVE  /\ Head(rep)[1] = kind => Flow(kind, Append(got, Head(rep)[2]), Tail(rep), p)
         /\ Head(rep)[1] # kind => Flow(kind, got, Tail(rep), p)
<1> DEFINE new == Tail(rep)
           x == Head(rep)[2]
<1>1. /\ new \in Seq(Messages) /\ Len(rep) \in Nat /\ Len(rep) > 0 /\ Len(got) \in Nat
      /\ Len(new) = Len(rep) - 1 /\ Head(rep) = rep[1] /\ rep[1] \in Messages
      /\ \A i \in 1 .. Len(new) : new[i] = rep[i + 1] /\ i + 1 \in 1 .. Len(rep)
  OBVIOUS
<1>2. x = rep[1][2] /\ x \in Nat /\ 1 \in 1 .. Len(rep)
  BY <1>1 DEF Messages
<1> HIDE DEF new, x
<1>i. ASSUME NEW i \in 1 .. Len(rep), i # 1
      PROVE  i - 1 \in 1 .. Len(new) /\ new[i - 1] = rep[i]
  BY <1>1, <1>i
<1>3. ASSUME rep[1][1] = kind PROVE Flow(kind, Append(got, x), new, p)
  <2>1. x \in (Len(got) + 1) .. p
    BY <1>1, <1>2, <1>3, Zenon DEF Flow
  <2>2. PICK i \in 1 .. Len(rep) : rep[i][1] = kind /\ rep[i][2] = Len(got) + 1
    <3>1. Len(got) + 1 \in (Len(got) + 1) .. p
      BY <1>1, <2>1
    <3>2. QED
      BY <3>1, Zenon DEF Flow
  <2>3. x = Len(got) + 1
    <3>1. CASE i = 1
      BY <1>2, <2>2, <3>1, Zenon
    <3>2. CASE 1 < i
      <4>1. x < Len(got) + 1
        BY <1>2, <1>3, <2>2, <3>2, Zenon DEF Flow
      <4>2. QED
        BY <1>1, <1>2, <2>1, <4>1
    <3>3. QED
      BY <1>1, <3>1, <3>2
  <2>4. /\ Len(Append(got, x)) = Len(got) + 1
        /\ \A k \in 1 .. (Len(got) + 1) : Append(got, x)[k] = k
    BY <1>1, <1>2, <2>3 DEF Flow
  <2>5. ASSUME NEW k \in 1 .. Len(new), new[k][1] = kind
        PROVE  new[k][2] \in (Len(got) + 2) .. p
    <3>1. new[k] = rep[k + 1] /\ k + 1 \in 1 .. Len(rep) /\ 1 < k + 1
      BY <1>1
    <3>2. rep[1][2] < rep[k + 1][2] /\ rep[k + 1][2] \in (Len(got) + 1) .. p
      BY <1>2, <1>3, <2>5, <3>1, Zenon DEF Flow
    <3>3. QED
      BY <1>1, <1>2, <2>3, <3>1, <3>2, SMTT(30)
  <2>6. ASSUME NEW k \in 1 .. Len(new), NEW l \in 1 .. Len(new), k < l,
               new[k][1] = kind, new[l][1] = kind
        PROVE  new[k][2] < new[l][2]
    <3>1. /\ k + 1 < l + 1 /\ k + 1 \in 1 .. Len(rep) /\ l + 1 \in 1 .. Len(rep)
          /\ new[k] = rep[k + 1] /\ new[l] = rep[l + 1]
      BY <1>1, <2>6, SMTT(30)
    <3>2. QED
      BY <2>6, <3>1, SMTT(30) DEF Flow
  <2>7. ASSUME NEW n \in (Len(got) + 2) .. p
        PROVE  \E k \in 1 .. Len(new) : new[k][1] = kind /\ new[k][2] = n
    <3>1. n \in (Len(got) + 1) .. p /\ n # Len(got) + 1
      BY <1>1
    <3>2. PICK k \in 1 .. Len(rep) : rep[k][1] = kind /\ rep[k][2] = n
      BY <3>1, Zenon DEF Flow
    <3>3. k # 1
      BY <1>2, <2>3, <3>1, <3>2, Zenon
    <3>4. QED
      BY <1>i, <3>2, <3>3, Zenon
  <2>8. Len(got) + 1 <= p /\ (Len(got) + 1) + 1 = Len(got) + 2
    BY <1>1, <2>1
  <2>9. QED
    BY <2>4, <2>5, <2>6, <2>7, <2>8, Zenon DEF Flow
<1>4. ASSUME rep[1][1] # kind PROVE Flow(kind, got, new, p)
  <2>1. ASSUME NEW n \in (Len(got) + 1) .. p
        PROVE  \E k \in 1 .. Len(new) : new[k][1] = kind /\ new[k][2] = n
    <3>1. PICK k \in 1 .. Len(rep) : rep[k][1] = kind /\ rep[k][2] = n
      BY Zenon DEF Flow
    <3>2. k # 1
      BY <1>4, <3>1, Zenon
    <3>3. QED
      BY <1>i, <3>1, <3>2, Zenon
  <2>2. ASSUME NEW k \in 1 .. Len(new), NEW l \in 1 .. Len(new), k < l,
               new[k][1] = kind, new[l][1] = kind
        PROVE  new[k][2] < new[l][2]
    <3>1. /\ k + 1 < l + 1 /\ k + 1 \in 1 .. Len(rep) /\ l + 1 \in 1 .. Len(rep)
          /\ new[k] = rep[k + 1] /\ new[l] = rep[l + 1]
      BY <1>1, <2>2, SMTT(30)
    <3>2. QED
      BY <2>2, <3>1, SMTT(30) DEF Flow
  <2>3. ASSUME NEW k \in 1 .. Len(new), new[k][1] = kind
        PROVE  new[k][2] \in (Len(got) + 1) .. p
    <3>1. k + 1 \in 1 .. Len(rep) /\ new[k] = rep[k + 1]
      BY <1>1, Zenon
    <3>2. QED
      BY <2>3, <3>1, Zenon DEF Flow
  <2>4. Len(got) <= p /\ \A i \in 1 .. Len(got) : got[i] = i
    BY Zenon DEF Flow
  <2>5. QED
    BY <2>1, <2>2, <2>3, <2>4, Zenon DEF Flow
<1>5. QED
  BY <1>1, <1>3, <1>4, Zenon DEF new, x

-----------------------------------------------------------------------------
(* The exchange on a slot: the invariant *)

\* The values of the variables.
ExecRecords ==
    [pc : {"idle", "held", "waiting", "returned"}, run : 0 .. MaxRuns, slot : Slots \cup {0},
     armed : BOOLEAN, text : Seq(Nat), calls : Seq(Nat), outcome : {"none", "ok", "preempted"}]
ProxyRecords ==
    [pc : {"none", "http", "sse", "tools", "closed"}, tokenCh : Seq(Nat), toolCh : Seq(Nat),
     tokens : Nat, tools : Nat, emitted : Nat]
HandlerRecords ==
    [pc : {"none", "relay", "drain", "drainTools", "finished", "rejected", "crashed"},
     slot : Slots \cup {0}]
Entries == [req : Reqs, slot : Slots \cup {0}]

InferTypes ==
    /\ slots \in [Slots -> [agent : Agents \cup {NoAgent},
                            state : {"unassigned", "provisional", "assigned"}]]
    /\ requests \in Seq(Entries)
    /\ handler \in [Reqs -> HandlerRecords] /\ proxy \in [Reqs -> ProxyRecords]
    /\ reply \in [Reqs -> Seq(Messages)] /\ exec \in [Agents -> ExecRecords]
    /\ listener \in [Agents -> {"off", "subscribing", "on"}]
    /\ signal \subseteq Agents /\ preempted \subseteq Agents
    /\ used \in [taken : Nat, lost : Nat, crashes : Nat]
    /\ \A a \in Agents : exec[a].pc # "idle" => exec[a].run # 0

\* How many tokens and calls a reader has put into its channels.
EmT(p) == CASE p.pc = "sse" -> p.emitted [] p.pc \in {"tools", "closed"} -> p.tokens
            [] OTHER -> 0
EmC(p) == CASE p.pc = "tools" -> p.emitted [] p.pc = "closed" -> p.tools [] OTHER -> 0
\* A channel has the last of the values put into it, within its capacity.
Shape(p) ==
    /\ p.pc \in {"none", "http"} =>
          p.emitted = 0 /\ p.tokens = 0 /\ p.tools = 0
    /\ p.pc = "sse" => p.emitted <= p.tokens
    /\ p.pc = "tools" => p.emitted <= p.tools
    /\ Chan(p.tokenCh, EmT(p), TokenCap) /\ Chan(p.toolCh, EmC(p), ToolCap)
\* Where the handler of a request is, where its reader is and what was published
\* go together; Done is published last.
Linked(r) ==
    /\ Shape(proxy[r])
    /\ handler[r].pc \in {"none", "rejected", "crashed"} <=> proxy[r].pc = "none"
    /\ handler[r].pc = "finished" => BothClosed(r)
    /\ handler[r].pc = "crashed" => used.crashes > 0
    /\ IF r[1] \in Silent THEN reply[r] = <<>> /\ handler[r].pc # "relay"
       ELSE handler[r].pc \notin {"drain", "drainTools"}
    /\ \A i \in 1 .. Len(reply[r]) : reply[r][i][1] = "done" =>
          i = Len(reply[r]) /\ handler[r].pc \in {"finished", "rejected"}
\* A request is on the stream once and before it is handled; one that was not
\* sent is nowhere.
Unused(r) == handler[r].pc = "none" /\ reply[r] = <<>>
Queued ==
    /\ \A i \in 1 .. Len(requests) :
          Unused(requests[i].req) /\ \A k \in 1 .. Len(requests) : k # i => requests[k].req # requests[i].req
    /\ \A r \in Reqs :
          r[2] > exec[r[1]].run \/ (r[2] = exec[r[1]].run /\ exec[r[1]].pc = "held")
            => Unused(r) /\ \A i \in 1 .. Len(requests) : requests[i].req # r
\* llama-server answers one request of a slot at a time.
OneBusy == \A r, q \in Busy : r = q
\* p tokens and q calls are what the handler took out of the channels.
Relayed(r, p, q) ==
    IF r[1] \in Silent THEN p = 0 /\ q = 0
    ELSE handler[r].pc # "crashed" =>
            /\ p = EmT(proxy[r]) - Len(proxy[r].tokenCh)
            /\ q = EmC(proxy[r]) - Len(proxy[r].toolCh)
\* While no message is lost, what an agent read and what waits for it on its
\* reply stream are together what the handler published, in order.
Kept(a) ==
    exec[a].run # 0 /\ used.lost = 0 =>
        \E p, q \in Nat : /\ Flow("token", exec[a].text, reply[Req(a)], p)
                          /\ Flow("tool", exec[a].calls, reply[Req(a)], q)
                          /\ Relayed(Req(a), p, q)
\* What an agent that returned was told.
Told(a) ==
    /\ exec[a].pc = "returned" /\ exec[a].outcome = "ok" =>
          /\ a \notin Silent /\ reply[Req(a)] = <<>>
          /\ handler[Req(a)].pc \in {"finished", "rejected"}
    /\ exec[a].pc = "returned" /\ exec[a].armed => exec[a].outcome = "preempted"
\* The inductive invariant.
InferInv == /\ InferTypes /\ Queued /\ OneBusy
            /\ \A r \in Reqs : Linked(r)
            /\ \A a \in Agents : Kept(a) /\ Told(a)


-----------------------------------------------------------------------------
(* The exchange on a slot: what the steps change *)

\* A record of the reading goroutine, field by field.
ProxyFields(x, pc, tokenCh, toolCh, tokens, tools, emitted) ==
    /\ x \in ProxyRecords
    /\ x.pc = pc /\ x.tokenCh = tokenCh /\ x.toolCh = toolCh
    /\ x.tokens = tokens /\ x.tools = tools /\ x.emitted = emitted
\* Only the goroutine of r moves.
OnlyProxy(r) == /\ proxy' \in [Reqs -> ProxyRecords]
                /\ \A q \in Reqs : q # r => proxy'[q] = proxy[q]

LEMMA ProxyEdit ==
  ASSUME NEW p \in ProxyRecords
  PROVE  /\ p.tokenCh \in Seq(Nat) /\ p.toolCh \in Seq(Nat)
         /\ p.tokens \in Nat /\ p.tools \in Nat /\ p.emitted \in Nat
         /\ \A c \in {"none", "http", "sse", "tools", "closed"} :
               ProxyFields([p EXCEPT !.pc = c], c, p.tokenCh, p.toolCh, p.tokens, p.tools,
                           p.emitted)
         /\ \A c \in Seq(Nat) :
               /\ ProxyFields([p EXCEPT !.tokenCh = c], p.pc, c, p.toolCh, p.tokens, p.tools,
                              p.emitted)
               /\ ProxyFields([p EXCEPT !.toolCh = c], p.pc, p.tokenCh, c, p.tokens, p.tools,
                              p.emitted)
         /\ \A n \in Nat :
               /\ ProxyFields([p EXCEPT !.tokens = n], p.pc, p.tokenCh, p.toolCh, n, p.tools,
                              p.emitted)
               /\ ProxyFields([p EXCEPT !.tools = n], p.pc, p.tokenCh, p.toolCh, p.tokens, n,
                              p.emitted)
               /\ ProxyFields([p EXCEPT !.emitted = n], p.pc, p.tokenCh, p.toolCh, p.tokens,
                              p.tools, n)
<1>1. /\ p.tokenCh \in Seq(Nat) /\ p.toolCh \in Seq(Nat)
      /\ p.tokens \in Nat /\ p.tools \in Nat /\ p.emitted \in Nat
  BY Zenon DEF ProxyRecords
<1>2. ASSUME NEW c \in {"none", "http", "sse", "tools", "closed"}
      PROVE  ProxyFields([p EXCEPT !.pc = c], c, p.tokenCh, p.toolCh, p.tokens, p.tools,
                         p.emitted)
  BY Zenon DEF ProxyFields, ProxyRecords
<1>3. ASSUME NEW c \in Seq(Nat)
      PROVE  ProxyFields([p EXCEPT !.tokenCh = c], p.pc, c, p.toolCh, p.tokens, p.tools,
                         p.emitted)
  BY Zenon DEF ProxyFields, ProxyRecords
<1>4. ASSUME NEW c \in Seq(Nat)
      PROVE  ProxyFields([p EXCEPT !.toolCh = c], p.pc, p.tokenCh, c, p.tokens, p.tools,
                         p.emitted)
  BY Zenon DEF ProxyFields, ProxyRecords
<1>5. ASSUME NEW n \in Nat
      PROVE  ProxyFields([p EXCEPT !.tokens = n], p.pc, p.tokenCh, p.toolCh, n, p.tools,
                         p.emitted)
  BY Zenon DEF ProxyFields, ProxyRecords
<1>6. ASSUME NEW n \in Nat
      PROVE  ProxyFields([p EXCEPT !.tools = n], p.pc, p.tokenCh, p.toolCh, p.tokens, n,
                         p.emitted)
  BY Zenon DEF ProxyFields, ProxyRecords
<1>7. ASSUME NEW n \in Nat
      PROVE  ProxyFields([p EXCEPT !.emitted = n], p.pc, p.tokenCh, p.toolCh, p.tokens,
                         p.tools, n)
  BY Zenon DEF ProxyFields, ProxyRecords
<1>8. QED
  BY <1>1, <1>2, <1>3, <1>4, <1>5, <1>6, <1>7, Zenon

LEMMA ProxyPut ==
  ASSUME InferTypes, NEW r \in Reqs, NEW x, proxy' = [proxy EXCEPT ![r] = x],
         NEW c, NEW tc, NEW lc, NEW t, NEW l, NEW e, ProxyFields(x, c, tc, lc, t, l, e)
  PROVE  OnlyProxy(r) /\ ProxyFields(proxy'[r], c, tc, lc, t, l, e)
<1>1. proxy \in [Reqs -> ProxyRecords] /\ x \in ProxyRecords
  BY Zenon DEF InferTypes, ProxyFields
<1>2. proxy'[r] = x
  BY <1>1, Zenon
<1>3. OnlyProxy(r)
  BY <1>1, Zenon DEF OnlyProxy
<1>4. QED
  BY <1>2, <1>3, Zenon

\* The reading goroutine keeps the shape of its record and never takes an
\* item out of a channel.
Published(p) == <<EmT(p) - Len(p.tokenCh), EmC(p) - Len(p.toolCh)>>
ReaderMoves(r) ==
    /\ OnlyProxy(r) /\ Shape(proxy'[r]) /\ Published(proxy'[r]) = Published(proxy[r])
    /\ proxy[r].pc \notin {"none", "closed"} /\ proxy'[r].pc # "none"
    /\ UNCHANGED <<slots, requests, handler, reply, exec, listener, signal, preempted, used>>

LEMMA ReaderStep ==
  ASSUME InferenceAssumption, InferTypes, NEW r \in Reqs, Shape(proxy[r]), Proxy(r)
  PROVE  ReaderMoves(r)
<1> DEFINE p == proxy[r]
           n == proxy'[r]
<1>1. /\ p \in ProxyRecords /\ p.tokenCh \in Seq(Nat) /\ p.toolCh \in Seq(Nat)
      /\ p.tokens \in Nat /\ p.tools \in Nat /\ p.emitted \in Nat
      /\ MaxTokens \in Nat /\ MaxTools \in Nat /\ TokenCap \in Nat /\ ToolCap \in Nat
  BY ProxyEdit, Zenon DEF InferTypes, InferenceAssumption
<1>2. UNCHANGED <<slots, requests, handler, reply, exec, listener, signal, preempted, used>>
  BY Zenon DEF Proxy, ProxyAnswer, ReadSSEToken, EndSSE, SendToolCall, CloseChannels, agentVars
<1>3. Len(p.tokenCh) \in Nat /\ Len(p.toolCh) \in Nat
  BY <1>1
<1>4. CASE proxy' = [proxy EXCEPT ![r].pc = "closed"] /\ p.pc = "http"
  <2>1. proxy' = [proxy EXCEPT ![r] = [p EXCEPT !.pc = "closed"]]
    BY <1>4, Zenon
  <2>2. /\ OnlyProxy(r)
        /\ ProxyFields(n, "closed", p.tokenCh, p.toolCh, p.tokens, p.tools, p.emitted)
    <3>1. ProxyFields([p EXCEPT !.pc = "closed"], "closed", p.tokenCh, p.toolCh, p.tokens,
                      p.tools, p.emitted)
      BY <1>1, ProxyEdit, Zenon
    <3>2. QED
      BY <2>1, <3>1, ProxyPut, Zenon
  <2>3. /\ Chan(p.tokenCh, 0, TokenCap) /\ Chan(p.toolCh, 0, ToolCap)
        /\ p.emitted = 0 /\ p.tokens = 0 /\ p.tools = 0
    BY <1>4, Zenon DEF Shape, EmT, EmC
  <2>4. /\ EmT(n) = 0 /\ EmC(n) = 0 /\ EmT(p) = 0 /\ EmC(p) = 0
        /\ n.tokenCh = p.tokenCh /\ n.toolCh = p.toolCh /\ n.pc = "closed"
    BY <1>4, <2>2, <2>3, Zenon DEF EmT, EmC, ProxyFields
  <2>5. Shape(n)
    BY <2>3, <2>4, Zenon DEF Shape
  <2>6. QED
    BY <1>2, <1>4, <2>2, <2>4, <2>5, Zenon DEF ReaderMoves, Published
<1>5. ASSUME NEW k \in Nat, NEW m \in Nat, p.pc = "http",
             proxy' = [proxy EXCEPT ![r].pc = "sse", ![r].tokens = k, ![r].tools = m]
      PROVE  ReaderMoves(r)
  <2> DEFINE x == [p EXCEPT !.pc = "sse"]
             y == [x EXCEPT !.tokens = k]
             z == [y EXCEPT !.tools = m]
  <2>1. proxy' = [proxy EXCEPT ![r] = z]
    BY <1>5, Zenon DEF InferTypes
  <2>2. ProxyFields(x, "sse", p.tokenCh, p.toolCh, p.tokens, p.tools, p.emitted)
    BY <1>1, ProxyEdit, Zenon
  <2> HIDE DEF x
  <2>3. ProxyFields(y, "sse", p.tokenCh, p.toolCh, k, p.tools, p.emitted)
    <3>1. /\ x \in ProxyRecords /\ x.pc = "sse" /\ x.tokenCh = p.tokenCh
          /\ x.toolCh = p.toolCh /\ x.tools = p.tools /\ x.emitted = p.emitted
      BY <2>2, Zenon DEF ProxyFields
    <3>2. ProxyFields(y, x.pc, x.tokenCh, x.toolCh, k, x.tools, x.emitted)
      BY <3>1, ProxyEdit, Zenon
    <3>3. QED
      BY <3>1, <3>2, Zenon
  <2> HIDE DEF y
  <2>4. ProxyFields(z, "sse", p.tokenCh, p.toolCh, k, m, p.emitted)
    <3>1. /\ y \in ProxyRecords /\ y.pc = "sse" /\ y.tokenCh = p.tokenCh
          /\ y.toolCh = p.toolCh /\ y.tokens = k /\ y.emitted = p.emitted
      BY <2>3, Zenon DEF ProxyFields
    <3>2. ProxyFields(z, y.pc, y.tokenCh, y.toolCh, y.tokens, m, y.emitted)
      BY <3>1, ProxyEdit, Zenon
    <3>3. QED
      BY <3>1, <3>2, Zenon
  <2> HIDE DEF z
  <2>5. OnlyProxy(r) /\ ProxyFields(n, "sse", p.tokenCh, p.toolCh, k, m, p.emitted)
    BY <2>1, <2>4, ProxyPut, Zenon
  <2>6. /\ Chan(p.tokenCh, 0, TokenCap) /\ Chan(p.toolCh, 0, ToolCap) /\ p.emitted = 0
    BY <1>5, Zenon DEF Shape, EmT, EmC
  <2>7. /\ EmT(n) = 0 /\ EmC(n) = 0 /\ EmT(p) = 0 /\ EmC(p) = 0 /\ n.emitted <= n.tokens
        /\ n.tokenCh = p.tokenCh /\ n.toolCh = p.toolCh /\ n.pc = "sse"
    BY <1>5, <2>5, <2>6 DEF EmT, EmC, ProxyFields
  <2>8. Shape(n)
    BY <2>6, <2>7, Zenon DEF Shape
  <2>9. QED
    BY <1>2, <1>5, <2>5, <2>7, <2>8, Zenon DEF ReaderMoves, Published
<1>6. ASSUME ReadSSEToken(r) PROVE ReaderMoves(r)
  <2> DEFINE c == Append(p.tokenCh, p.emitted + 1)
             x == [p EXCEPT !.emitted = p.emitted + 1]
             y == [x EXCEPT !.tokenCh = c]
  <2>1. /\ proxy' = [proxy EXCEPT ![r] = y] /\ p.pc = "sse" /\ p.emitted < p.tokens
        /\ Len(p.tokenCh) < TokenCap
    BY <1>6, Zenon DEF InferTypes, ReadSSEToken, HasRoom
  <2>2. c \in Seq(Nat) /\ p.emitted + 1 \in Nat /\ Len(c) = Len(p.tokenCh) + 1
    BY <1>1
  <2>3. Chan(c, p.emitted + 1, TokenCap) /\ EmT(p) = p.emitted /\ EmC(p) = 0
    <3>1. EmT(p) = p.emitted /\ EmC(p) = 0
      BY <2>1, Zenon DEF EmT, EmC
    <3>2. Chan(p.tokenCh, p.emitted, TokenCap)
      BY <3>1, Zenon DEF Shape
    <3>3. QED
      BY <1>1, <2>1, <3>1, <3>2, ChanSend, Zenon
  <2> HIDE DEF c
  <2>4. ProxyFields(x, p.pc, p.tokenCh, p.toolCh, p.tokens, p.tools, p.emitted + 1)
    BY <1>1, <2>2, ProxyEdit, Zenon
  <2> HIDE DEF x
  <2>5. ProxyFields(y, "sse", c, p.toolCh, p.tokens, p.tools, p.emitted + 1)
    <3>1. /\ x \in ProxyRecords /\ x.pc = "sse" /\ x.toolCh = p.toolCh
          /\ x.tokens = p.tokens /\ x.tools = p.tools /\ x.emitted = p.emitted + 1
      BY <2>1, <2>4, Zenon DEF ProxyFields
    <3>2. ProxyFields(y, x.pc, c, x.toolCh, x.tokens, x.tools, x.emitted)
      BY <2>2, <3>1, ProxyEdit, Zenon
    <3>3. QED
      BY <3>1, <3>2, Zenon
  <2> HIDE DEF y
  <2>6. OnlyProxy(r) /\ ProxyFields(n, "sse", c, p.toolCh, p.tokens, p.tools, p.emitted + 1)
    BY <2>1, <2>5, ProxyPut, Zenon
  <2>7. /\ EmT(n) = p.emitted + 1 /\ EmC(n) = 0 /\ n.emitted <= n.tokens
        /\ n.tokenCh = c /\ n.toolCh = p.toolCh /\ n.pc = "sse"
    BY <1>1, <2>1, <2>6, SMTT(30) DEF EmT, EmC, ProxyFields
  <2>8. Shape(n)
    BY <2>1, <2>3, <2>7, Zenon DEF Shape
  <2>9. Published(n) = Published(p)
    <3>1. EmT(n) - Len(n.tokenCh) = EmT(p) - Len(p.tokenCh)
      <4>1. Len(n.tokenCh) = Len(p.tokenCh) + 1 /\ EmT(n) = EmT(p) + 1
        BY <2>2, <2>3, <2>7, Zenon
      <4>2. EmT(p) \in Nat
        BY <1>1, <2>3, Zenon
      <4>3. QED
        BY <1>3, <4>1, <4>2, SMTT(30)
    <3>2. EmC(n) - Len(n.toolCh) = EmC(p) - Len(p.toolCh)
      BY <1>1, <1>3, <2>2, <2>3, <2>7, Zenon
    <3>3. QED
      BY <3>1, <3>2, Zenon DEF Published
  <2>10. QED
    BY <1>2, <2>1, <2>6, <2>7, <2>8, <2>9, Zenon DEF ReaderMoves
<1>7. ASSUME EndSSE(r) PROVE ReaderMoves(r)
  <2> DEFINE x == [p EXCEPT !.pc = "tools"]
             y == [x EXCEPT !.emitted = 0]
  <2>1. proxy' = [proxy EXCEPT ![r] = y] /\ p.pc = "sse" /\ p.emitted = p.tokens
    BY <1>7, Zenon DEF InferTypes, EndSSE
  <2>2. ProxyFields(x, "tools", p.tokenCh, p.toolCh, p.tokens, p.tools, p.emitted)
    BY <1>1, ProxyEdit, Zenon
  <2> HIDE DEF x
  <2>3. ProxyFields(y, "tools", p.tokenCh, p.toolCh, p.tokens, p.tools, 0)
    <3>1. /\ x \in ProxyRecords /\ x.pc = "tools" /\ x.tokenCh = p.tokenCh
          /\ x.toolCh = p.toolCh /\ x.tokens = p.tokens /\ x.tools = p.tools
      BY <2>2, Zenon DEF ProxyFields
    <3>2. ProxyFields(y, x.pc, x.tokenCh, x.toolCh, x.tokens, x.tools, 0)
      BY <3>1, ProxyEdit, Zenon
    <3>3. QED
      BY <3>1, <3>2, Zenon
  <2> HIDE DEF y
  <2>4. OnlyProxy(r) /\ ProxyFields(n, "tools", p.tokenCh, p.toolCh, p.tokens, p.tools, 0)
    BY <2>1, <2>3, ProxyPut, Zenon
  <2>5. /\ EmT(n) = EmT(p) /\ EmC(n) = EmC(p) /\ n.emitted <= n.tools
        /\ n.tokenCh = p.tokenCh /\ n.toolCh = p.toolCh /\ n.pc = "tools"
    BY <1>1, <2>1, <2>4 DEF EmT, EmC, ProxyFields
  <2>6. Shape(n)
    BY <2>5, Zenon DEF Shape
  <2>7. QED
    BY <1>2, <2>1, <2>4, <2>5, <2>6, Zenon DEF ReaderMoves, Published
<1>8. ASSUME SendToolCall(r) PROVE ReaderMoves(r)
  <2> DEFINE c == Append(p.toolCh, p.emitted + 1)
             x == [p EXCEPT !.emitted = p.emitted + 1]
             y == [x EXCEPT !.toolCh = c]
  <2>1. /\ proxy' = [proxy EXCEPT ![r] = y] /\ p.pc = "tools" /\ p.emitted < p.tools
        /\ Len(p.toolCh) < ToolCap
    BY <1>8, Zenon DEF InferTypes, SendToolCall, HasRoom
  <2>2. c \in Seq(Nat) /\ p.emitted + 1 \in Nat /\ Len(c) = Len(p.toolCh) + 1
    BY <1>1
  <2>3. Chan(c, p.emitted + 1, ToolCap) /\ EmT(p) = p.tokens /\ EmC(p) = p.emitted
    <3>1. EmT(p) = p.tokens /\ EmC(p) = p.emitted
      BY <2>1, Zenon DEF EmT, EmC
    <3>2. Chan(p.toolCh, p.emitted, ToolCap)
      BY <3>1, Zenon DEF Shape
    <3>3. QED
      BY <1>1, <2>1, <3>1, <3>2, ChanSend, Zenon
  <2> HIDE DEF c
  <2>4. ProxyFields(x, p.pc, p.tokenCh, p.toolCh, p.tokens, p.tools, p.emitted + 1)
    BY <1>1, <2>2, ProxyEdit, Zenon
  <2> HIDE DEF x
  <2>5. ProxyFields(y, "tools", p.tokenCh, c, p.tokens, p.tools, p.emitted + 1)
    <3>1. /\ x \in ProxyRecords /\ x.pc = "tools" /\ x.tokenCh = p.tokenCh
          /\ x.tokens = p.tokens /\ x.tools = p.tools /\ x.emitted = p.emitted + 1
      BY <2>1, <2>4, Zenon DEF ProxyFields
    <3>2. ProxyFields(y, x.pc, x.tokenCh, c, x.tokens, x.tools, x.emitted)
      BY <2>2, <3>1, ProxyEdit, Zenon
    <3>3. QED
      BY <3>1, <3>2, Zenon
  <2> HIDE DEF y
  <2>6. OnlyProxy(r) /\ ProxyFields(n, "tools", p.tokenCh, c, p.tokens, p.tools, p.emitted + 1)
    BY <2>1, <2>5, ProxyPut, Zenon
  <2>7. /\ EmT(n) = p.tokens /\ EmC(n) = p.emitted + 1 /\ n.emitted <= n.tools
        /\ n.toolCh = c /\ n.tokenCh = p.tokenCh /\ n.pc = "tools"
    BY <1>1, <2>1, <2>6, SMTT(30) DEF EmT, EmC, ProxyFields
  <2>8. Shape(n)
    BY <2>1, <2>3, <2>7, Zenon DEF Shape
  <2>9. Published(n) = Published(p)
    <3>1. EmT(n) - Len(n.tokenCh) = EmT(p) - Len(p.tokenCh)
      BY <1>1, <1>3, <2>2, <2>3, <2>7, Zenon
    <3>2. EmC(n) - Len(n.toolCh) = EmC(p) - Len(p.toolCh)
      <4>1. Len(n.toolCh) = Len(p.toolCh) + 1 /\ EmC(n) = EmC(p) + 1
        BY <2>2, <2>3, <2>7, Zenon
      <4>2. EmC(p) \in Nat
        BY <1>1, <2>3, Zenon
      <4>3. QED
        BY <1>3, <4>1, <4>2, SMTT(30)
    <3>3. QED
      BY <3>1, <3>2, Zenon DEF Published
  <2>10. QED
    BY <1>2, <2>1, <2>6, <2>7, <2>8, <2>9, Zenon DEF ReaderMoves
<1>9. ASSUME CloseChannels(r) PROVE ReaderMoves(r)
  <2>1. /\ proxy' = [proxy EXCEPT ![r] = [p EXCEPT !.pc = "closed"]]
        /\ p.pc = "tools" /\ p.emitted = p.tools
    BY <1>9, Zenon DEF CloseChannels
  <2>2. ProxyFields([p EXCEPT !.pc = "closed"], "closed", p.tokenCh, p.toolCh, p.tokens,
                    p.tools, p.emitted)
    BY <1>1, ProxyEdit, Zenon
  <2>3. /\ OnlyProxy(r)
        /\ ProxyFields(n, "closed", p.tokenCh, p.toolCh, p.tokens, p.tools, p.emitted)
    BY <2>1, <2>2, ProxyPut, Zenon
  <2>4. /\ EmT(n) = EmT(p) /\ EmC(n) = EmC(p)
        /\ n.tokenCh = p.tokenCh /\ n.toolCh = p.toolCh /\ n.pc = "closed"
    BY <1>1, <2>1, <2>3, Zenon DEF EmT, EmC, ProxyFields
  <2>5. Shape(n)
    BY <2>4, Zenon DEF Shape
  <2>6. QED
    BY <1>2, <2>1, <2>3, <2>4, <2>5, Zenon DEF ReaderMoves, Published
<1>10. ASSUME ProxyAnswer(r) PROVE ReaderMoves(r)
  <2>1. CASE proxy' = [proxy EXCEPT ![r].pc = "closed"]
    BY <1>4, <1>10, <2>1, Zenon DEF ProxyAnswer
  <2>2. CASE \E k \in 0 .. MaxTokens, m \in 0 .. MaxTools :
               proxy' = [proxy EXCEPT ![r].pc = "sse", ![r].tokens = k, ![r].tools = m]
    <3>1. PICK k \in 0 .. MaxTokens, m \in 0 .. MaxTools :
               proxy' = [proxy EXCEPT ![r].pc = "sse", ![r].tokens = k, ![r].tools = m]
      BY <2>2, Zenon
    <3>2. k \in Nat /\ m \in Nat
      BY <1>1, SMTT(30)
    <3>3. p.pc = "http"
      BY <1>10, Zenon DEF ProxyAnswer
    <3>4. QED
      BY <1>5, <3>1, <3>2, <3>3, Zenon
  <2>3. QED
    BY <1>10, <2>1, <2>2, Zenon DEF ProxyAnswer
<1>11. QED
  BY <1>6, <1>7, <1>8, <1>9, <1>10, Zenon DEF Proxy

-----------------------------------------------------------------------------
(* The exchange on a slot: what is untouched stays right *)

\* The variables beside the exchange proper.
SideTypes ==
    /\ slots \in [Slots -> [agent : Agents \cup {NoAgent},
                            state : {"unassigned", "provisional", "assigned"}]]
    /\ listener \in [Agents -> {"off", "subscribing", "on"}]
    /\ signal \subseteq Agents /\ preempted \subseteq Agents
    /\ used \in [taken : Nat, lost : Nat, crashes : Nat]
\* Those of the exchange.
MainTypes ==
    /\ requests \in Seq(Entries)
    /\ handler \in [Reqs -> HandlerRecords] /\ proxy \in [Reqs -> ProxyRecords]
    /\ reply \in [Reqs -> Seq(Messages)] /\ exec \in [Agents -> ExecRecords]
    /\ \A a \in Agents : exec[a].pc # "idle" => exec[a].run # 0

LEMMA TypesSplit == InferTypes <=> SideTypes /\ MainTypes
  BY Zenon DEF InferTypes, SideTypes, MainTypes

LEMMA CurrentRequest ==
  ASSUME InferTypes, NEW a \in Agents, exec[a].run # 0
  PROVE  Req(a) \in Reqs /\ Req(a)[1] = a /\ Req(a)[2] = exec[a].run
<1>1. exec[a].run \in 0 .. MaxRuns
  BY Zenon DEF InferTypes, ExecRecords
<1>2. exec[a].run \in 1 .. MaxRuns
  BY <1>1
<1>3. QED
  BY <1>2, Zenon DEF Req, Reqs

\* A failed publish, a crash and a reclaim are counted, never discounted.
LEMMA Spent ==
  ASSUME SideTypes, NEW what \in {"taken", "lost", "crashes"}, NEW limit, Spend(what, limit)
  PROVE  /\ used' \in [taken : Nat, lost : Nat, crashes : Nat]
         /\ used'[what] = used[what] + 1 /\ used'[what] > 0
         /\ \A x \in {"taken", "lost", "crashes"} \ {what} : used'[x] = used[x]
  BY DEF SideTypes, Spend

\* A step that leaves the exchange proper alone.
LEMMA QuietKeeps ==
  ASSUME InferInv, SideTypes', UNCHANGED <<requests, handler, proxy, reply, exec>>,
         used'.lost = used.lost, used'.crashes = used.crashes
  PROVE  InferInv'
<1>1. InferTypes'
  BY TypesSplit, Zenon DEF InferInv, MainTypes, SideTypes, InferTypes
<1>2. Queued' /\ OneBusy'
  BY SMTT(30) DEF InferInv, Queued, OneBusy, Unused, Busy
<1>3. \A r \in Reqs : Linked(r)'
  BY Zenon DEF InferInv, Linked, BothClosed
<1>4. \A a \in Agents : Kept(a)'
  BY SMTT(30) DEF InferInv, Kept, Relayed, Req
<1>5. \A a \in Agents : Told(a)'
  BY Zenon DEF InferInv, Told, Req
<1>6. QED
  BY <1>1, <1>2, <1>3, <1>4, <1>5, Zenon DEF InferInv

\* A step on one request that leaves the agents alone: what it must show of
\* that request.
OnlyAt(r) ==
    /\ \A q \in Reqs : q # r => proxy'[q] = proxy[q] /\ handler'[q] = handler[q] /\ reply'[q] = reply[q]
    /\ exec' = exec /\ (used'.lost = 0 => used.lost = 0) /\ used'.crashes = used.crashes
FromQueue(r) == requests # <<>> /\ r = Head(requests).req /\ requests' = Tail(requests)
AtWork(h) == h.pc \in {"relay", "drain", "drainTools"}

LEMMA OneRequestKeeps ==
  ASSUME InferInv, InferTypes', NEW r \in Reqs, OnlyAt(r),
         FromQueue(r) \/ (requests' = requests /\ ~Unused(r)),
         Linked(r)', handler'[r].pc # "none",
         handler[r].pc \in {"finished", "rejected"} =>
            handler'[r] = handler[r] /\ reply'[r] = reply[r],
         AtWork(handler'[r]) => AtWork(handler[r]) \/ Busy = {},
         \A a \in Agents : exec[a].run # 0 /\ Req(a) = r => Kept(a)'
  PROVE  InferInv'
<1>0. InferTypes /\ requests \in Seq(Entries)
  BY Zenon DEF InferInv, InferTypes
<1>1. ASSUME NEW q \in Reqs PROVE Linked(q)'
  <2>1. CASE q = r
    BY <2>1, Zenon
  <2>2. CASE q # r
    BY <2>2, SMTT(30) DEF InferInv, Linked, BothClosed, OnlyAt
  <2>3. QED
    BY <2>1, <2>2, Zenon
<1>2. ASSUME NEW a \in Agents PROVE Kept(a)' /\ Told(a)'
  <2>1. Req(a)' = Req(a)
    BY Zenon DEF OnlyAt, Req
  <2>2. CASE exec[a].run = 0
    <3>1. exec[a].pc = "idle"
      BY <1>0, <2>2, Zenon DEF InferTypes
    <3>2. QED
      BY <2>2, <3>1, Zenon DEF Kept, Told, OnlyAt
  <2>3. CASE exec[a].run # 0 /\ Req(a) = r
    <3>1. Kept(a)'
      BY <2>3, Zenon
    <3>2. Told(a)'
      BY <2>1, <2>3, Zenon DEF InferInv, Told, OnlyAt
    <3>3. QED
      BY <3>1, <3>2, Zenon
  <2>4. CASE exec[a].run # 0 /\ Req(a) # r
    <3>1. Req(a) \in Reqs
      BY <1>0, <2>4, CurrentRequest, Zenon
    <3>2. /\ proxy'[Req(a)] = proxy[Req(a)] /\ handler'[Req(a)] = handler[Req(a)]
          /\ reply'[Req(a)] = reply[Req(a)] /\ exec' = exec /\ (used'.lost = 0 => used.lost = 0)
      BY <2>4, <3>1, Zenon DEF OnlyAt
    <3>3. Kept(a) /\ Told(a)
      BY Zenon DEF InferInv
    <3>4. Kept(a)'
      BY <2>1, <3>2, <3>3, Zenon DEF Kept, Relayed
    <3>5. Told(a)'
      BY <2>1, <3>2, <3>3, Zenon DEF Told
    <3>6. QED
      BY <3>4, <3>5, Zenon
  <2>5. QED
    BY <2>2, <2>3, <2>4, Zenon
<1>3. OneBusy'
  <2>1. ASSUME NEW q \in Reqs, q \in Busy', q # r PROVE q \in Busy
    BY <2>1, Zenon DEF Busy, OnlyAt
  <2>2. r \in Busy' => r \in Busy \/ Busy = {}
    BY Zenon DEF Busy, AtWork
  <2>3. Busy' \subseteq Reqs
    BY Zenon DEF Busy
  <2>4. QED
    BY <2>1, <2>2, <2>3, Zenon DEF InferInv, OneBusy
<1>4. ASSUME NEW q \in Reqs, q # r, Unused(q) PROVE handler'[q].pc = "none" /\ reply'[q] = <<>>
  BY <1>4, Zenon DEF Unused, OnlyAt
<1>i. ASSUME NEW i \in 1 .. Len(requests)
      PROVE  /\ requests[i].req \in Reqs /\ Unused(requests[i].req)
             /\ \A k \in 1 .. Len(requests) : k # i => requests[k].req # requests[i].req
  <2>1. requests[i] \in Entries
    BY <1>0, SMTT(30)
  <2>2. Queued
    BY Zenon DEF InferInv
  <2>3. QED
    BY <2>1, <2>2, Zenon DEF Queued, Entries
<1>5. CASE requests' = requests /\ ~Unused(r)
  <2>1. ASSUME NEW i \in 1 .. Len(requests)
        PROVE  handler'[requests[i].req].pc = "none" /\ reply'[requests[i].req] = <<>>
    BY <1>4, <1>5, <1>i, Zenon
  <2>2. ASSUME NEW q \in Reqs,
               q[2] > exec[q[1]].run \/ (q[2] = exec[q[1]].run /\ exec[q[1]].pc = "held")
        PROVE  /\ handler'[q].pc = "none" /\ reply'[q] = <<>>
               /\ \A i \in 1 .. Len(requests) : requests[i].req # q
    <3>1. Unused(q) /\ \A i \in 1 .. Len(requests) : requests[i].req # q
      BY <2>2, Zenon DEF InferInv, Queued
    <3>2. QED
      BY <1>4, <1>5, <3>1, Zenon
  <2>3. Queued'
    <3>1. \A i \in 1 .. Len(requests)' :
             Unused(requests[i].req)' /\ \A k \in 1 .. Len(requests)' : k # i => requests'[k].req # requests'[i].req
      BY <1>5, <1>i, <2>1, Zenon DEF Unused
    <3>2. exec' = exec
      BY Zenon DEF OnlyAt
    <3>3. QED
      BY <1>5, <2>2, <3>1, <3>2, Zenon DEF Queued, Unused
  <2>4. QED
    BY <1>1, <1>2, <1>3, <2>3, Zenon DEF InferInv
<1>6. CASE FromQueue(r)
  <2>1. /\ Len(requests) \in Nat /\ Len(requests) > 0 /\ r = requests[1].req
        /\ Len(requests') = Len(requests) - 1
        /\ \A i \in 1 .. Len(requests') : requests'[i] = requests[i + 1] /\ i + 1 \in 1 .. Len(requests)
    BY <1>0, <1>6, SMTT(30) DEF FromQueue
  <2>2. ASSUME NEW i \in 1 .. Len(requests')
        PROVE  /\ handler'[requests'[i].req].pc = "none" /\ reply'[requests'[i].req] = <<>>
               /\ \A k \in 1 .. Len(requests') : k # i => requests'[k].req # requests'[i].req
    <3>1. /\ Unused(requests[i + 1].req) /\ requests[i + 1].req \in Reqs
          /\ \A k \in 1 .. Len(requests) : k # i + 1 => requests[k].req # requests[i + 1].req
      BY <1>i, <2>1, Zenon
    <3>2. requests[i + 1].req # r
      BY <2>1, <3>1, SMTT(30)
    <3>3. handler'[requests[i + 1].req].pc = "none" /\ reply'[requests[i + 1].req] = <<>>
      BY <1>4, <3>1, <3>2, Zenon
    <3>4. \A k \in 1 .. Len(requests') : k # i => requests'[k].req # requests'[i].req
      BY <2>1, <3>1, SMTT(30)
    <3>5. QED
      BY <2>1, <3>3, <3>4, Zenon
  <2>3. ASSUME NEW q \in Reqs,
               q[2] > exec[q[1]].run \/ (q[2] = exec[q[1]].run /\ exec[q[1]].pc = "held")
        PROVE  /\ handler'[q].pc = "none" /\ reply'[q] = <<>>
               /\ \A i \in 1 .. Len(requests') : requests'[i].req # q
    <3>1. Unused(q) /\ \A i \in 1 .. Len(requests) : requests[i].req # q
      BY <2>3, Zenon DEF InferInv, Queued
    <3>2. q # r
      BY <2>1, <3>1, SMTT(30)
    <3>3. QED
      BY <1>4, <2>1, <3>1, <3>2, Zenon
  <2>4. Queued'
    BY <2>2, <2>3, Zenon DEF Queued, OnlyAt, Unused
  <2>5. QED
    BY <1>1, <1>2, <1>3, <2>4, Zenon DEF InferInv
<1>7. QED
  BY <1>5, <1>6, Zenon

\* A step of one agent: what it must show of that agent.
OnlyAgent(a) ==
    /\ \A b \in Agents : b # a => exec'[b] = exec[b]
    /\ \A q \in Reqs : q # Req(a) => reply'[q] = reply[q]
    /\ UNCHANGED <<handler, proxy, used>>

LEMMA OneAgentKeeps ==
  ASSUME InferInv, InferTypes', NEW a \in Agents, OnlyAgent(a),
         Queued', \A r \in Reqs : Linked(r)', Kept(a)', Told(a)'
  PROVE  InferInv'
<1>0. InferTypes
  BY Zenon DEF InferInv
<1>1. OneBusy'
  BY Zenon DEF InferInv, OneBusy, Busy, OnlyAgent
<1>2. ASSUME NEW b \in Agents, b # a PROVE Kept(b)' /\ Told(b)'
  <2>1. exec'[b] = exec[b] /\ Req(b)' = Req(b) /\ UNCHANGED <<handler, proxy, used>>
    BY <1>2, Zenon DEF OnlyAgent, Req
  <2>2. Kept(b) /\ Told(b)
    BY Zenon DEF InferInv
  <2>3. CASE exec[b].run = 0
    <3>1. exec[b].pc = "idle"
      BY <1>0, <2>3, Zenon DEF InferTypes
    <3>2. QED
      BY <2>1, <2>3, <3>1, Zenon DEF Kept, Told
  <2>4. CASE exec[b].run # 0
    <3>1. Req(b) \in Reqs /\ Req(b) # Req(a)
      BY <1>0, <1>2, <2>4, CurrentRequest, Zenon DEF Req
    <3>2. reply'[Req(b)] = reply[Req(b)]
      BY <3>1, Zenon DEF OnlyAgent
    <3>3. Kept(b)'
      BY <2>1, <2>2, <3>2, Zenon DEF Kept, Relayed
    <3>4. Told(b)'
      BY <2>1, <2>2, <3>2, Zenon DEF Told
    <3>5. QED
      BY <3>3, <3>4, Zenon
  <2>5. QED
    BY <2>3, <2>4, Zenon
<1>3. QED
  BY <1>1, <1>2, Zenon DEF InferInv

\* Kept survives a step on the agent's request that publishes nothing.
LEMMA KeptSame ==
  ASSUME NEW a \in Agents, Kept(a), exec' = exec, used'.lost = 0 => used.lost = 0,
         reply'[Req(a)] = reply[Req(a)],
         \/ Req(a)[1] \in Silent
         \/ handler'[Req(a)].pc = "crashed"
         \/ /\ handler[Req(a)].pc # "crashed"
            /\ Published(proxy'[Req(a)]) = Published(proxy[Req(a)])
  PROVE  Kept(a)'
<1>1. Req(a)' = Req(a)
  BY Zenon DEF Req
<1>2. SUFFICES ASSUME exec[a].run # 0, used.lost = 0
               PROVE  \E p, q \in Nat : /\ Flow("token", exec[a].text, reply[Req(a)], p)
                                        /\ Flow("tool", exec[a].calls, reply[Req(a)], q)
                                        /\ Relayed(Req(a), p, q)'
  BY <1>1, Zenon DEF Kept
<1>3. PICK p \in Nat, q \in Nat : /\ Flow("token", exec[a].text, reply[Req(a)], p)
                                  /\ Flow("tool", exec[a].calls, reply[Req(a)], q)
                                  /\ Relayed(Req(a), p, q)
  BY <1>2, Zenon DEF Kept
<1>4. Relayed(Req(a), p, q)'
  BY <1>1, <1>3, Zenon DEF Relayed, Published
<1>5. QED
  BY <1>3, <1>4, Zenon

\* Kept survives a publish of the next token, the next call or the end.
Counted(m, x, y, u, v) ==
    \/ m = <<"token", x + 1>> /\ u = x + 1 /\ v = y
    \/ m = <<"tool", y + 1>> /\ u = x /\ v = y + 1
    \/ m[1] = "done" /\ u = x /\ v = y

LEMMA KeptSent ==
  ASSUME InferTypes, NEW a \in Agents, Kept(a), exec' = exec, NEW m \in Messages,
         exec[a].run # 0, used.lost = 0, reply'[Req(a)] = Append(reply[Req(a)], m),
         Req(a)[1] \notin Silent, handler[Req(a)].pc # "crashed",
         Counted(m, EmT(proxy[Req(a)]) - Len(proxy[Req(a)].tokenCh),
                 EmC(proxy[Req(a)]) - Len(proxy[Req(a)].toolCh),
                 EmT(proxy'[Req(a)]) - Len(proxy'[Req(a)].tokenCh),
                 EmC(proxy'[Req(a)]) - Len(proxy'[Req(a)].toolCh))
  PROVE  Kept(a)'
<1>1. Req(a)' = Req(a)
  BY Zenon DEF Req
<1>2. SUFFICES \E p, q \in Nat : /\ Flow("token", exec[a].text, Append(reply[Req(a)], m), p)
                                 /\ Flow("tool", exec[a].calls, Append(reply[Req(a)], m), q)
                                 /\ Relayed(Req(a), p, q)'
  BY <1>1, Zenon DEF Kept
<1>3. PICK p \in Nat, q \in Nat : /\ Flow("token", exec[a].text, reply[Req(a)], p)
                                  /\ Flow("tool", exec[a].calls, reply[Req(a)], q)
                                  /\ Relayed(Req(a), p, q)
  BY Zenon DEF Kept
<1>4. p = EmT(proxy[Req(a)]) - Len(proxy[Req(a)].tokenCh) /\ q = EmC(proxy[Req(a)]) - Len(proxy[Req(a)].toolCh)
  BY <1>3, Zenon DEF Relayed
<1>5. reply[Req(a)] \in Seq(Messages) /\ exec[a].text \in Seq(Nat) /\ exec[a].calls \in Seq(Nat)
  BY CurrentRequest, Zenon DEF InferTypes, ExecRecords
<1>6. ASSUME NEW u \in Nat, NEW v \in Nat, Counted(m, p, q, u, v)
      PROVE  /\ Flow("token", exec[a].text, Append(reply[Req(a)], m), u)
             /\ Flow("tool", exec[a].calls, Append(reply[Req(a)], m), v)
  <2>1. CASE m = <<"token", p + 1>> /\ u = p + 1 /\ v = q
    <3>1. m[1] # "tool"
      BY <2>1, Zenon
    <3>2. QED
      BY <1>3, <1>5, <2>1, <3>1, FlowPublish, Zenon
  <2>2. CASE m = <<"tool", q + 1>> /\ u = p /\ v = q + 1
    <3>1. m[1] # "token"
      BY <2>2, Zenon
    <3>2. QED
      BY <1>3, <1>5, <2>2, <3>1, FlowPublish, Zenon
  <2>3. CASE m[1] = "done" /\ u = p /\ v = q
    <3>1. m[1] # "token" /\ m[1] # "tool"
      BY <2>3, Zenon
    <3>2. QED
      BY <1>3, <1>5, <2>3, <3>1, FlowPublish, Zenon
  <2>4. QED
    BY <1>6, <2>1, <2>2, <2>3, Zenon DEF Counted
<1>7. PICK u \in Nat, v \in Nat :
         /\ Counted(m, p, q, u, v)
         /\ u = EmT(proxy'[Req(a)]) - Len(proxy'[Req(a)].tokenCh)
         /\ v = EmC(proxy'[Req(a)]) - Len(proxy'[Req(a)].toolCh)
  BY <1>4 DEF Counted
<1>8. Relayed(Req(a), u, v)'
  BY <1>1, <1>7, Zenon DEF Relayed
<1>9. QED
  BY <1>6, <1>7, <1>8, Zenon

-----------------------------------------------------------------------------
(* The exchange on a slot: the steps *)

\* Slots and preemption signals do not touch an exchange.
LEMMA SideStep ==
  ASSUME InferenceAssumption, InferInv,
         \/ \E s \in Slots : Commit(s) \/ Preempt(s) \/ TakeBack(s)
         \/ \E a \in Agents : Subscribe(a) \/ SetPreempted(a)
         \/ UNCHANGED vars
  PROVE  InferInv'
<1>0. SideTypes
  BY TypesSplit, Zenon DEF InferInv
<1>1. CASE UNCHANGED vars
  BY <1>0, <1>1, QuietKeeps, Zenon DEF vars, SideTypes
<1>2. ASSUME NEW s \in Slots, Commit(s) PROVE InferInv'
  <2>1. SideTypes'
    BY <1>0, <1>2, Zenon DEF SideTypes, Commit, agentVars
  <2>2. QED
    BY <1>2, <2>1, QuietKeeps, Zenon DEF Commit, agentVars, brokerVars
<1>3. ASSUME NEW s \in Slots, Preempt(s) PROVE InferInv'
  <2>1. SideTypes'
    BY <1>0, <1>3, Zenon DEF SideTypes, Preempt, InferenceAssumption
  <2>2. QED
    BY <1>3, <2>1, QuietKeeps, Zenon DEF Preempt, brokerVars
<1>4. ASSUME NEW s \in Slots, TakeBack(s) PROVE InferInv'
  <2>1. /\ used' \in [taken : Nat, lost : Nat, crashes : Nat]
        /\ used'.lost = used.lost /\ used'.crashes = used.crashes
    BY <1>0, <1>4, Spent, Zenon DEF TakeBack
  <2>2. SideTypes'
    BY <1>0, <1>4, <2>1, Zenon DEF SideTypes, TakeBack, Free, agentVars
  <2>3. QED
    BY <1>4, <2>1, <2>2, QuietKeeps, Zenon DEF TakeBack, agentVars, brokerVars
<1>5. ASSUME NEW a \in Agents, Subscribe(a) PROVE InferInv'
  <2>1. SideTypes'
    BY <1>0, <1>5, Zenon DEF SideTypes, Subscribe
  <2>2. QED
    BY <1>5, <2>1, QuietKeeps, Zenon DEF Subscribe, brokerVars
<1>6. ASSUME NEW a \in Agents, SetPreempted(a) PROVE InferInv'
  <2>1. SideTypes'
    BY <1>0, <1>6, Zenon DEF SideTypes, SetPreempted
  <2>2. QED
    BY <1>6, <2>1, QuietKeeps, Zenon DEF SetPreempted, brokerVars
<1>7. QED
  BY <1>1, <1>2, <1>3, <1>4, <1>5, <1>6, Zenon

\* The reading goroutine only fills channels.
LEMMA ReaderKeeps ==
  ASSUME InferenceAssumption, InferInv, NEW r \in Reqs, Proxy(r)
  PROVE  InferInv'
<1>0. InferTypes /\ Linked(r)
  BY Zenon DEF InferInv
<1>1. ReaderMoves(r)
  BY <1>0, ReaderStep, Zenon DEF Linked
<1>2. InferTypes'
  BY <1>0, <1>1, Zenon DEF InferTypes, ReaderMoves, OnlyProxy
<1>3. OnlyAt(r)
  BY <1>1, Zenon DEF OnlyAt, ReaderMoves, OnlyProxy
<1>4. handler[r].pc \notin {"none", "rejected", "crashed", "finished"}
  BY <1>0, <1>1, Zenon DEF Linked, ReaderMoves, BothClosed
<1>5. Linked(r)'
  BY <1>0, <1>1, <1>4, Zenon DEF Linked, ReaderMoves
<1>6. \A a \in Agents : exec[a].run # 0 /\ Req(a) = r => Kept(a)'
  BY <1>1, <1>4, KeptSame, Zenon DEF InferInv, ReaderMoves
<1>7. handler' = handler /\ requests' = requests /\ reply' = reply /\ ~Unused(r)
  BY <1>1, <1>4, Zenon DEF ReaderMoves, Unused
<1>8. QED
  BY <1>2, <1>3, <1>4, <1>5, <1>6, <1>7, OneRequestKeeps, Zenon DEF AtWork

\* A publish reaches the reply stream of its request, or is counted lost.
LEMMA Publishing ==
  ASSUME InferTypes, NEW r \in Reqs, NEW m \in Messages, PublishReply(r, m)
  PROVE  /\ reply' \in [Reqs -> Seq(Messages)]
         /\ used' \in [taken : Nat, lost : Nat, crashes : Nat]
         /\ \A q \in Reqs : q # r => reply'[q] = reply[q]
         /\ used'.crashes = used.crashes
         /\ used'.lost = 0 => used.lost = 0 /\ reply'[r] = Append(reply[r], m)
         /\ reply'[r] \in {reply[r], Append(reply[r], m)}
<1>0. reply \in [Reqs -> Seq(Messages)] /\ reply[r] \in Seq(Messages) /\ SideTypes
  BY TypesSplit, Zenon DEF InferTypes
<1>1. CASE Spend("lost", MaxLost) /\ reply' = reply
  BY <1>0, <1>1, Spent
<1>2. CASE reply' = [reply EXCEPT ![r] = Append(reply[r], m)] /\ used' = used
  <2>1. Append(reply[r], m) \in Seq(Messages)
    BY <1>0
  <2>2. QED
    BY <1>0, <1>2, <2>1, Zenon DEF SideTypes
<1>3. QED
  BY <1>1, <1>2, Zenon DEF PublishReply

\* The end, once published, stays last: nothing follows it.
EndsLast(rep, ended) ==
    \A i \in 1 .. Len(rep) : rep[i][1] = "done" => i = Len(rep) /\ ended

LEMMA EndPublished ==
  ASSUME NEW rep \in Seq(Messages), EndsLast(rep, FALSE), NEW m \in Messages,
         NEW new \in {rep, Append(rep, m)}, NEW ended \in BOOLEAN,
         m[1] = "done" => ended
  PROVE  EndsLast(new, ended)
<1>1. CASE new = rep
  BY <1>1, Zenon DEF EndsLast
<1>2. CASE new = Append(rep, m)
  <2>1. /\ Len(rep) \in Nat /\ Len(new) = Len(rep) + 1 /\ new[Len(rep) + 1] = m
        /\ \A i \in 1 .. Len(rep) : new[i] = rep[i]
    BY <1>2
  <2>2. ASSUME NEW i \in 1 .. Len(new), new[i][1] = "done"
        PROVE  i = Len(new) /\ ended
    <3>1. i \notin 1 .. Len(rep)
      BY <2>1, <2>2, Zenon DEF EndsLast
    <3>2. i = Len(rep) + 1
      BY <2>1, <3>1
    <3>3. QED
      BY <2>1, <2>2, <3>2, Zenon
  <2>3. QED
    BY <2>2, Zenon DEF EndsLast
<1>3. QED
  BY <1>1, <1>2, Zenon

LEMMA NotEnded ==
  ASSUME NEW r \in Reqs, Linked(r), handler[r].pc \notin {"finished", "rejected"}
  PROVE  EndsLast(reply[r], FALSE)
  BY Zenon DEF Linked, EndsLast

LEMMA Popped ==
  ASSUME NEW c \in Seq(Nat)
  PROVE  /\ Len(c) \in Nat
         /\ c # <<>> => /\ Tail(c) \in Seq(Nat) /\ Len(Tail(c)) = Len(c) - 1
                        /\ Head(c) \in Nat
  OBVIOUS

\* One token taken out of its channel, and relayed unless nobody listens.
LEMMA RelayTokenKeeps ==
  ASSUME InferenceAssumption, InferInv, NEW r \in Reqs, RelayToken(r)
  PROVE  InferInv'
<1> DEFINE p == proxy[r]
           n == proxy'[r]
           m == <<"token", Head(p.tokenCh)>>
<1>0. InferTypes /\ Linked(r) /\ SideTypes /\ MainTypes
  BY TypesSplit, Zenon DEF InferInv
<1>1. /\ p \in ProxyRecords /\ p.tokenCh \in Seq(Nat) /\ p.toolCh \in Seq(Nat)
      /\ p.tokens \in Nat /\ p.tools \in Nat /\ p.emitted \in Nat /\ TokenCap \in Nat
      /\ reply[r] \in Seq(Messages)
  BY <1>0, ProxyEdit, Zenon DEF InferTypes, InferenceAssumption
<1>2. /\ handler[r].pc \in {"relay", "drain"} /\ p.tokenCh # <<>>
      /\ proxy' = [proxy EXCEPT ![r] = [p EXCEPT !.tokenCh = Tail(p.tokenCh)]]
      /\ UNCHANGED <<slots, requests, handler, exec, listener, signal, preempted>>
  BY Zenon DEF RelayToken, agentVars
<1>3. EmT(p) \in Nat /\ Shape(p)
  BY <1>0, <1>1, Zenon DEF EmT, Linked
<1>4. /\ Tail(p.tokenCh) \in Seq(Nat) /\ Len(Tail(p.tokenCh)) = Len(p.tokenCh) - 1
      /\ Len(p.tokenCh) \in Nat /\ Len(p.toolCh) \in Nat /\ Head(p.tokenCh) \in Nat
  BY <1>1, <1>2, Popped, Zenon
<1>5. /\ Chan(Tail(p.tokenCh), EmT(p), TokenCap)
      /\ Head(p.tokenCh) = EmT(p) - Len(Tail(p.tokenCh))
  <2>1. Chan(p.tokenCh, EmT(p), TokenCap)
    BY <1>3, Zenon DEF Shape
  <2>2. QED
    BY <1>1, <1>2, <1>3, <2>1, ChanTake, Zenon
<1>6. OnlyProxy(r) /\ ProxyFields(n, p.pc, Tail(p.tokenCh), p.toolCh, p.tokens, p.tools, p.emitted)
  <2>1. ProxyFields([p EXCEPT !.tokenCh = Tail(p.tokenCh)], p.pc, Tail(p.tokenCh), p.toolCh,
                    p.tokens, p.tools, p.emitted)
    BY <1>1, <1>4, ProxyEdit, Zenon
  <2>2. QED
    BY <1>0, <1>2, <2>1, ProxyPut, Zenon
<1>7. /\ EmT(n) = EmT(p) /\ EmC(n) = EmC(p) /\ n.pc = p.pc
      /\ n.tokenCh = Tail(p.tokenCh) /\ n.toolCh = p.toolCh
  BY <1>6, Zenon DEF EmT, EmC, ProxyFields
<1>8. Shape(n)
  BY <1>3, <1>5, <1>6, <1>7, Zenon DEF Shape, ProxyFields
<1>9. m \in Messages /\ m[1] = "token"
  BY <1>4, Zenon DEF Messages
<1>10. /\ reply' \in [Reqs -> Seq(Messages)]
       /\ used' \in [taken : Nat, lost : Nat, crashes : Nat]
       /\ \A q \in Reqs : q # r => reply'[q] = reply[q]
       /\ used'.crashes = used.crashes
       /\ used'.lost = 0 => used.lost = 0
       /\ handler[r].pc = "relay" /\ used'.lost = 0 => reply'[r] = Append(reply[r], m)
       /\ handler[r].pc = "drain" => reply'[r] = reply[r]
       /\ reply'[r] \in {reply[r], Append(reply[r], m)}
  <2>1. CASE handler[r].pc = "drain"
    BY <1>0, <2>1, Zenon DEF RelayToken, InferTypes
  <2>2. CASE handler[r].pc = "relay"
    <3>1. PublishReply(r, m)
      BY <2>2, Zenon DEF RelayToken
    <3>2. QED
      BY <1>0, <1>9, <2>2, <3>1, Publishing, Zenon
  <2>3. QED
    BY <1>2, <2>1, <2>2, Zenon
<1>11. InferTypes'
  <2>1. SideTypes'
    BY <1>0, <1>2, <1>10, Zenon DEF SideTypes
  <2>2. MainTypes'
    BY <1>0, <1>2, <1>6, <1>10, Zenon DEF MainTypes, OnlyProxy
  <2>3. QED
    BY <2>1, <2>2, Zenon DEF InferTypes, SideTypes, MainTypes
<1>12. OnlyAt(r)
  BY <1>2, <1>6, <1>10, Zenon DEF OnlyAt, OnlyProxy
<1>13. EndsLast(reply'[r], FALSE)
  <2>1. EndsLast(reply[r], FALSE)
    BY <1>0, <1>2, NotEnded, Zenon
  <2>2. m[1] # "done"
    BY <1>9, Zenon
  <2>3. QED
    BY <1>1, <1>9, <1>10, <2>1, <2>2, EndPublished, Zenon
<1>14. Linked(r)'
  <2>1. /\ handler'[r] = handler[r]
        /\ handler[r].pc \notin {"none", "rejected", "crashed", "finished"}
    BY <1>2, Zenon
  <2>2. r[1] \in Silent => reply'[r] = <<>> /\ handler[r].pc # "relay"
    BY <1>0, <1>2, <1>10, Zenon DEF Linked
  <2>3. r[1] \notin Silent => handler[r].pc \notin {"drain", "drainTools"}
    BY <1>0, Zenon DEF Linked
  <2>4. n.pc # "none"
    BY <1>0, <1>7, <2>1, Zenon DEF Linked
  <2>5. QED
    BY <1>8, <1>13, <2>1, <2>2, <2>3, <2>4, Zenon DEF Linked, EndsLast
<1>15. ASSUME NEW a \in Agents, exec[a].run # 0, Req(a) = r PROVE Kept(a)'
  <2>0. Kept(a)
    BY Zenon DEF InferInv
  <2>1. CASE handler[r].pc = "drain"
    <3>1. r[1] \in Silent
      BY <1>0, <2>1, Zenon DEF Linked
    <3>2. QED
      BY <1>2, <1>10, <1>15, <2>0, <2>1, <3>1, KeptSame, Zenon
  <2>2. CASE handler[r].pc = "relay"
    <3>1. r[1] \notin Silent
      BY <1>0, <2>2, Zenon DEF Linked
    <3>2. Counted(m, EmT(p) - Len(p.tokenCh), EmC(p) - Len(p.toolCh),
                  EmT(n) - Len(n.tokenCh), EmC(n) - Len(n.toolCh))
      <4>1. EmT(n) - Len(n.tokenCh) = (EmT(p) - Len(p.tokenCh)) + 1
        BY <1>3, <1>4, <1>7
      <4>2. m = <<"token", (EmT(p) - Len(p.tokenCh)) + 1>>
        BY <1>3, <1>4, <1>5
      <4>3. QED
        BY <1>7, <4>1, <4>2, Zenon DEF Counted
    <3>3. CASE used'.lost = 0
      <4>1. used.lost = 0 /\ reply'[r] = Append(reply[r], m)
        BY <1>10, <2>2, <3>3, Zenon
      <4>2. QED
        BY <1>0, <1>2, <1>9, <1>15, <2>0, <2>2, <3>1, <3>2, <4>1, KeptSent, Zenon
    <3>4. CASE used'.lost # 0
      BY <3>4, Zenon DEF Kept
    <3>5. QED
      BY <3>3, <3>4, Zenon
  <2>3. QED
    BY <1>2, <2>1, <2>2, Zenon
<1>16. handler' = handler /\ requests' = requests /\ ~Unused(r) /\ handler[r].pc # "none"
  BY <1>2, Zenon DEF Unused
<1>17. handler[r].pc \notin {"finished", "rejected"}
  BY <1>2, Zenon
<1>18. QED
  BY <1>11, <1>12, <1>14, <1>15, <1>16, <1>17, OneRequestKeeps, Zenon

\* One tool call taken out of its channel, and relayed unless nobody listens.
LEMMA RelayToolCallKeeps ==
  ASSUME InferenceAssumption, InferInv, NEW r \in Reqs, RelayToolCall(r)
  PROVE  InferInv'
<1> DEFINE p == proxy[r]
           n == proxy'[r]
           m == <<"tool", Head(p.toolCh)>>
<1>0. InferTypes /\ Linked(r) /\ SideTypes /\ MainTypes
  BY TypesSplit, Zenon DEF InferInv
<1>1. /\ p \in ProxyRecords /\ p.toolCh \in Seq(Nat) /\ p.tokenCh \in Seq(Nat)
      /\ p.tokens \in Nat /\ p.tools \in Nat /\ p.emitted \in Nat /\ ToolCap \in Nat
      /\ reply[r] \in Seq(Messages)
  BY <1>0, ProxyEdit, Zenon DEF InferTypes, InferenceAssumption
<1>2. /\ handler[r].pc \in {"relay", "drainTools"} /\ p.toolCh # <<>>
      /\ proxy' = [proxy EXCEPT ![r] = [p EXCEPT !.toolCh = Tail(p.toolCh)]]
      /\ UNCHANGED <<slots, requests, handler, exec, listener, signal, preempted>>
  BY Zenon DEF RelayToolCall, agentVars
<1>3. EmC(p) \in Nat /\ Shape(p)
  BY <1>0, <1>1, Zenon DEF EmC, Linked
<1>4. /\ Tail(p.toolCh) \in Seq(Nat) /\ Len(Tail(p.toolCh)) = Len(p.toolCh) - 1
      /\ Len(p.toolCh) \in Nat /\ Len(p.tokenCh) \in Nat /\ Head(p.toolCh) \in Nat
  BY <1>1, <1>2, Popped, Zenon
<1>5. /\ Chan(Tail(p.toolCh), EmC(p), ToolCap)
      /\ Head(p.toolCh) = EmC(p) - Len(Tail(p.toolCh))
  <2>1. Chan(p.toolCh, EmC(p), ToolCap)
    BY <1>3, Zenon DEF Shape
  <2>2. QED
    BY <1>1, <1>2, <1>3, <2>1, ChanTake, Zenon
<1>6. OnlyProxy(r) /\ ProxyFields(n, p.pc, p.tokenCh, Tail(p.toolCh), p.tokens, p.tools, p.emitted)
  <2>1. ProxyFields([p EXCEPT !.toolCh = Tail(p.toolCh)], p.pc, p.tokenCh, Tail(p.toolCh),
                    p.tokens, p.tools, p.emitted)
    BY <1>1, <1>4, ProxyEdit, Zenon
  <2>2. QED
    BY <1>0, <1>2, <2>1, ProxyPut, Zenon
<1>7. /\ EmC(n) = EmC(p) /\ EmT(n) = EmT(p) /\ n.pc = p.pc
      /\ n.toolCh = Tail(p.toolCh) /\ n.tokenCh = p.tokenCh
  BY <1>6, Zenon DEF EmC, EmT, ProxyFields
<1>8. Shape(n)
  BY <1>3, <1>5, <1>6, <1>7, Zenon DEF Shape, ProxyFields
<1>9. m \in Messages /\ m[1] = "tool"
  BY <1>4, Zenon DEF Messages
<1>10. /\ reply' \in [Reqs -> Seq(Messages)]
       /\ used' \in [taken : Nat, lost : Nat, crashes : Nat]
       /\ \A q \in Reqs : q # r => reply'[q] = reply[q]
       /\ used'.crashes = used.crashes
       /\ used'.lost = 0 => used.lost = 0
       /\ handler[r].pc = "relay" /\ used'.lost = 0 => reply'[r] = Append(reply[r], m)
       /\ handler[r].pc = "drainTools" => reply'[r] = reply[r]
       /\ reply'[r] \in {reply[r], Append(reply[r], m)}
  <2>1. CASE handler[r].pc = "drainTools"
    BY <1>0, <2>1, Zenon DEF RelayToolCall, InferTypes
  <2>2. CASE handler[r].pc = "relay"
    <3>1. PublishReply(r, m)
      BY <2>2, Zenon DEF RelayToolCall
    <3>2. QED
      BY <1>0, <1>9, <2>2, <3>1, Publishing, Zenon
  <2>3. QED
    BY <1>2, <2>1, <2>2, Zenon
<1>11. InferTypes'
  <2>1. SideTypes'
    BY <1>0, <1>2, <1>10, Zenon DEF SideTypes
  <2>2. MainTypes'
    BY <1>0, <1>2, <1>6, <1>10, Zenon DEF MainTypes, OnlyProxy
  <2>3. QED
    BY <2>1, <2>2, Zenon DEF InferTypes, SideTypes, MainTypes
<1>12. OnlyAt(r)
  BY <1>2, <1>6, <1>10, Zenon DEF OnlyAt, OnlyProxy
<1>13. EndsLast(reply'[r], FALSE)
  <2>1. EndsLast(reply[r], FALSE)
    BY <1>0, <1>2, NotEnded, Zenon
  <2>2. m[1] # "done"
    BY <1>9, Zenon
  <2>3. QED
    BY <1>1, <1>9, <1>10, <2>1, <2>2, EndPublished, Zenon
<1>14. Linked(r)'
  <2>1. /\ handler'[r] = handler[r]
        /\ handler[r].pc \notin {"none", "rejected", "crashed", "finished"}
    BY <1>2, Zenon
  <2>2. r[1] \in Silent => reply'[r] = <<>> /\ handler[r].pc # "relay"
    BY <1>0, <1>2, <1>10, Zenon DEF Linked
  <2>3. r[1] \notin Silent => handler[r].pc \notin {"drain", "drainTools"}
    BY <1>0, Zenon DEF Linked
  <2>4. n.pc # "none"
    BY <1>0, <1>7, <2>1, Zenon DEF Linked
  <2>5. QED
    BY <1>8, <1>13, <2>1, <2>2, <2>3, <2>4, Zenon DEF Linked, EndsLast
<1>15. ASSUME NEW a \in Agents, exec[a].run # 0, Req(a) = r PROVE Kept(a)'
  <2>0. Kept(a)
    BY Zenon DEF InferInv
  <2>1. CASE handler[r].pc = "drainTools"
    <3>1. r[1] \in Silent
      BY <1>0, <2>1, Zenon DEF Linked
    <3>2. QED
      BY <1>2, <1>10, <1>15, <2>0, <2>1, <3>1, KeptSame, Zenon
  <2>2. CASE handler[r].pc = "relay"
    <3>1. r[1] \notin Silent
      BY <1>0, <2>2, Zenon DEF Linked
    <3>2. Counted(m, EmT(p) - Len(p.tokenCh), EmC(p) - Len(p.toolCh),
                  EmT(n) - Len(n.tokenCh), EmC(n) - Len(n.toolCh))
      <4>1. EmC(n) - Len(n.toolCh) = (EmC(p) - Len(p.toolCh)) + 1
        BY <1>3, <1>4, <1>7
      <4>2. m = <<"tool", (EmC(p) - Len(p.toolCh)) + 1>>
        BY <1>3, <1>4, <1>5
      <4>3. QED
        BY <1>7, <4>1, <4>2, Zenon DEF Counted
    <3>3. CASE used'.lost = 0
      <4>1. used.lost = 0 /\ reply'[r] = Append(reply[r], m)
        BY <1>10, <2>2, <3>3, Zenon
      <4>2. QED
        BY <1>0, <1>2, <1>9, <1>15, <2>0, <2>2, <3>1, <3>2, <4>1, KeptSent, Zenon
    <3>4. CASE used'.lost # 0
      BY <3>4, Zenon DEF Kept
    <3>5. QED
      BY <3>3, <3>4, Zenon
  <2>3. QED
    BY <1>2, <2>1, <2>2, Zenon
<1>16. handler' = handler /\ requests' = requests /\ ~Unused(r) /\ handler[r].pc # "none"
  BY <1>2, Zenon DEF Unused
<1>17. handler[r].pc \notin {"finished", "rejected"}
  BY <1>2, Zenon
<1>18. QED
  BY <1>11, <1>12, <1>14, <1>15, <1>16, <1>17, OneRequestKeeps, Zenon

-----------------------------------------------------------------------------
(* The end of a relay and the steps of Execute *)

\* Setting the state of one handler keeps its shape and the other handlers.
LEMMA HandlerPut ==
  ASSUME InferTypes, NEW r \in Reqs,
         NEW c \in {"relay", "drain", "drainTools", "finished", "rejected", "crashed"},
         NEW x \in Slots \cup {0},
         \/ handler' = [handler EXCEPT ![r].pc = c]
         \/ handler' = [handler EXCEPT ![r] = [pc |-> c, slot |-> x]]
  PROVE  /\ handler' \in [Reqs -> HandlerRecords]
         /\ \A q \in Reqs : q # r => handler'[q] = handler[q]
         /\ handler'[r].pc = c
<1>0. handler \in [Reqs -> HandlerRecords] /\ handler[r] \in HandlerRecords
  BY Zenon DEF InferTypes
<1>1. [handler[r] EXCEPT !.pc = c] \in HandlerRecords /\ [pc |-> c, slot |-> x] \in HandlerRecords
  BY <1>0, Zenon DEF HandlerRecords
<1>2. [handler[r] EXCEPT !.pc = c].pc = c
  BY <1>0, Zenon DEF HandlerRecords
<1>3. CASE handler' = [handler EXCEPT ![r].pc = c]
  BY <1>0, <1>1, <1>2, <1>3, Zenon
<1>4. CASE handler' = [handler EXCEPT ![r] = [pc |-> c, slot |-> x]]
  BY <1>0, <1>1, <1>4, Zenon
<1>5. QED
  BY <1>3, <1>4, Zenon

\* Done is published when both channels are closed and empty.
LEMMA FinishRelayKeeps ==
  ASSUME InferenceAssumption, InferInv, NEW r \in Reqs, FinishRelay(r)
  PROVE  InferInv'
<1> DEFINE m == <<"done", 0>>
<1>0. InferTypes /\ Linked(r) /\ SideTypes /\ MainTypes /\ reply[r] \in Seq(Messages)
  BY TypesSplit, Zenon DEF InferInv, InferTypes
<1>1. /\ handler[r].pc = "relay" /\ BothClosed(r) /\ PublishReply(r, m)
      /\ handler' = [handler EXCEPT ![r].pc = "finished"]
      /\ UNCHANGED <<slots, requests, proxy, exec, listener, signal, preempted>>
  BY Zenon DEF FinishRelay, agentVars
<1>2. m \in Messages /\ m[1] = "done"
  BY Zenon DEF Messages
<1>3. /\ handler' \in [Reqs -> HandlerRecords] /\ handler'[r].pc = "finished"
      /\ \A q \in Reqs : q # r => handler'[q] = handler[q]
  BY <1>0, <1>1, HandlerPut, Zenon
<1>4. /\ reply' \in [Reqs -> Seq(Messages)]
      /\ used' \in [taken : Nat, lost : Nat, crashes : Nat]
      /\ \A q \in Reqs : q # r => reply'[q] = reply[q]
      /\ used'.crashes = used.crashes
      /\ used'.lost = 0 => used.lost = 0 /\ reply'[r] = Append(reply[r], m)
      /\ reply'[r] \in {reply[r], Append(reply[r], m)}
  BY <1>0, <1>1, <1>2, Publishing, Zenon
<1>5. InferTypes'
  <2>1. SideTypes'
    BY <1>0, <1>1, <1>4, Zenon DEF SideTypes
  <2>2. MainTypes'
    BY <1>0, <1>1, <1>3, <1>4, Zenon DEF MainTypes
  <2>3. QED
    BY <2>1, <2>2, Zenon DEF InferTypes, SideTypes, MainTypes
<1>6. OnlyAt(r)
  BY <1>1, <1>3, <1>4, Zenon DEF OnlyAt
<1>7. EndsLast(reply'[r], TRUE)
  <2>1. EndsLast(reply[r], FALSE)
    BY <1>0, <1>1, NotEnded, Zenon
  <2>2. QED
    BY <1>0, <1>2, <1>4, <2>1, EndPublished, Zenon
<1>8. r[1] \notin Silent
  BY <1>0, <1>1, Zenon DEF Linked
<1>9. Linked(r)'
  <2>1. Shape(proxy[r]) /\ proxy[r].pc = "closed"
    BY <1>0, <1>1, Zenon DEF Linked, BothClosed
  <2>2. QED
    BY <1>1, <1>3, <1>7, <1>8, <2>1, Zenon DEF Linked, EndsLast, BothClosed
<1>10. ASSUME NEW a \in Agents, exec[a].run # 0, Req(a) = r PROVE Kept(a)'
  <2>1. CASE used'.lost = 0
    <3>1. Kept(a) /\ used.lost = 0 /\ reply'[r] = Append(reply[r], m)
      BY <1>4, <2>1, Zenon DEF InferInv
    <3>2. Counted(m, EmT(proxy[r]) - Len(proxy[r].tokenCh), EmC(proxy[r]) - Len(proxy[r].toolCh),
                  EmT(proxy'[r]) - Len(proxy'[r].tokenCh), EmC(proxy'[r]) - Len(proxy'[r].toolCh))
      BY <1>1, <1>2, Zenon DEF Counted
    <3>3. exec' = exec /\ handler[r].pc # "crashed"
      BY <1>1, Zenon
    <3>4. QED
      BY <1>0, <1>2, <1>8, <1>10, <3>1, <3>2, <3>3, KeptSent, Zenon
  <2>2. CASE used'.lost # 0
    BY <2>2, Zenon DEF Kept
  <2>3. QED
    BY <2>1, <2>2, Zenon
<1>11. /\ requests' = requests /\ ~Unused(r) /\ handler'[r].pc # "none" /\ ~AtWork(handler'[r])
       /\ handler[r].pc \notin {"finished", "rejected"}
  BY <1>1, <1>3, Zenon DEF Unused, AtWork
<1>12. QED
  BY <1>5, <1>6, <1>9, <1>10, <1>11, OneRequestKeeps, Zenon

\* A request without a reply stream: both channels are emptied in turn.
LEMMA DrainKeeps ==
  ASSUME InferenceAssumption, InferInv, NEW r \in Reqs, DrainTokens(r) \/ FinishDrain(r)
  PROVE  InferInv'
<1>0. InferTypes /\ Linked(r) /\ SideTypes /\ MainTypes
  BY TypesSplit, Zenon DEF InferInv
<1>1. PICK c \in {"drainTools", "finished"} :
         /\ handler[r].pc \in {"drain", "drainTools"} /\ handler' = [handler EXCEPT ![r].pc = c]
         /\ c = "finished" => BothClosed(r)
  BY Zenon DEF DrainTokens, FinishDrain
<1>2. UNCHANGED <<slots, requests, proxy, reply, exec, listener, signal, preempted, used>>
  BY Zenon DEF DrainTokens, FinishDrain, agentVars
<1>3. /\ handler' \in [Reqs -> HandlerRecords] /\ handler'[r].pc = c
      /\ \A q \in Reqs : q # r => handler'[q] = handler[q]
  <2>1. 0 \in Slots \cup {0}
    BY Zenon
  <2>2. QED
    BY <1>0, <1>1, <2>1, HandlerPut, Zenon
<1>4. InferTypes'
  <2>1. SideTypes'
    BY <1>0, <1>2, Zenon DEF SideTypes
  <2>2. MainTypes'
    BY <1>0, <1>2, <1>3, Zenon DEF MainTypes
  <2>3. QED
    BY <2>1, <2>2, Zenon DEF InferTypes, SideTypes, MainTypes
<1>5. OnlyAt(r)
  BY <1>2, <1>3, Zenon DEF OnlyAt
<1>6. r[1] \in Silent /\ EndsLast(reply[r], FALSE) /\ proxy[r].pc # "none"
  BY <1>0, <1>1, NotEnded, Zenon DEF Linked
<1>7. Linked(r)'
  <2>1. Shape(proxy[r]) /\ reply[r] = <<>>
    BY <1>0, <1>6, Zenon DEF Linked
  <2>2. QED
    BY <1>1, <1>2, <1>3, <1>6, <2>1, Zenon DEF Linked, EndsLast, BothClosed
<1>8. ASSUME NEW a \in Agents, exec[a].run # 0, Req(a) = r PROVE Kept(a)'
  <2>1. Kept(a)
    BY Zenon DEF InferInv
  <2>2. QED
    BY <1>2, <1>6, <1>8, <2>1, KeptSame, Zenon
<1>9. /\ ~Unused(r) /\ handler'[r].pc # "none" /\ AtWork(handler[r])
      /\ handler[r].pc \notin {"finished", "rejected"} /\ requests' = requests
  BY <1>1, <1>2, <1>3, Zenon DEF Unused, AtWork
<1>10. QED
  BY <1>4, <1>5, <1>7, <1>8, <1>9, OneRequestKeeps, Zenon

\* The next request is accepted, and its reading goroutine started, or refused
\* with a bare Done.
LEMMA HandleKeeps ==
  ASSUME InferenceAssumption, InferInv, HandleLLMRequest
  PROVE  InferInv'
<1>0. InferTypes /\ SideTypes /\ MainTypes /\ requests \in Seq(Entries) /\ requests # <<>>
  BY TypesSplit, Zenon DEF InferInv, InferTypes, HandleLLMRequest
<1>1. /\ Len(requests) \in Nat /\ Len(requests) > 0 /\ 1 \in 1 .. Len(requests)
      /\ Head(requests) = requests[1] /\ requests[1] \in Entries /\ Tail(requests) \in Seq(Entries)
  BY <1>0
<1>p. PICK r \in Reqs, s \in Slots \cup {0} : r = Head(requests).req /\ s = Head(requests).slot
  BY <1>1, Zenon DEF Entries
<1> DEFINE p == proxy[r]
           n == proxy'[r]
           m == <<"done", 0>>
<1>2. r \in Reqs /\ s \in Slots \cup {0} /\ Unused(r) /\ Linked(r) /\ reply[r] = <<>>
  <2>1. Queued /\ Linked(r)
    BY Zenon DEF InferInv
  <2>2. Unused(r)
    BY <1>1, <1>p, <2>1, Zenon DEF Queued
  <2>3. QED
    BY <2>1, <2>2, Zenon DEF Unused
<1>3. /\ requests' = Tail(requests) /\ Busy = {} /\ FromQueue(r)
      /\ UNCHANGED <<slots, exec, listener, signal, preempted>>
  BY <1>0, <1>p, Zenon DEF HandleLLMRequest, MayStart, agentVars, FromQueue
<1>4. /\ handler[r].pc = "none" /\ p.pc = "none" /\ p \in ProxyRecords
      /\ EndsLast(reply[r], FALSE)
  BY <1>0, <1>2, NotEnded, Zenon DEF Unused, Linked, InferTypes
<1>5. CASE /\ handler' = [handler EXCEPT ![r] =
                             [pc |-> IF r[1] \in Silent THEN "drain" ELSE "relay", slot |-> s]]
           /\ proxy' = [proxy EXCEPT ![r].pc = "http"]
           /\ UNCHANGED <<reply, used>>
  <2> DEFINE c == IF r[1] \in Silent THEN "drain" ELSE "relay"
  <2>0. c \in {"relay", "drain", "drainTools", "finished", "rejected", "crashed"}
    BY Zenon
  <2>1. /\ handler' \in [Reqs -> HandlerRecords] /\ handler'[r].pc = c
        /\ \A q \in Reqs : q # r => handler'[q] = handler[q]
    BY <1>0, <1>2, <1>5, <2>0, HandlerPut, Zenon
  <2>2. ProxyFields([p EXCEPT !.pc = "http"], "http", p.tokenCh, p.toolCh, p.tokens, p.tools,
                    p.emitted)
    BY <1>4, ProxyEdit, Zenon
  <2>3. proxy' = [proxy EXCEPT ![r] = [p EXCEPT !.pc = "http"]]
    BY <1>5, Zenon
  <2>4. /\ OnlyProxy(r)
        /\ ProxyFields(n, "http", p.tokenCh, p.toolCh, p.tokens, p.tools, p.emitted)
    BY <1>0, <1>2, <2>2, <2>3, ProxyPut, Zenon
  <2>5. /\ EmT(n) = 0 /\ EmC(n) = 0 /\ EmT(p) = 0 /\ EmC(p) = 0 /\ n.pc = "http"
        /\ n.tokenCh = p.tokenCh /\ n.toolCh = p.toolCh
        /\ n.tokens = p.tokens /\ n.tools = p.tools /\ n.emitted = p.emitted
    BY <1>4, <2>4, Zenon DEF EmT, EmC, ProxyFields
  <2>6. Shape(n) /\ Published(n) = Published(p)
    <3>1. Shape(p)
      BY <1>2, Zenon DEF Linked
    <3>2. Shape(n)
      BY <1>4, <2>5, <3>1, Zenon DEF Shape
    <3>3. QED
      BY <2>5, <3>2, Zenon DEF Published
  <2>7. InferTypes'
    <3>1. SideTypes'
      BY <1>0, <1>3, <1>5, Zenon DEF SideTypes
    <3>2. MainTypes'
      BY <1>0, <1>1, <1>3, <1>5, <2>1, <2>4, Zenon DEF MainTypes, OnlyProxy
    <3>3. QED
      BY <3>1, <3>2, Zenon DEF InferTypes, SideTypes, MainTypes
  <2>8. OnlyAt(r)
    BY <1>3, <1>5, <2>1, <2>4, Zenon DEF OnlyAt, OnlyProxy
  <2>9. Linked(r)'
    BY <1>2, <1>5, <2>1, <2>5, <2>6 DEF Linked
  <2>10. ASSUME NEW a \in Agents, exec[a].run # 0, Req(a) = r PROVE Kept(a)'
    <3>1. Kept(a)
      BY Zenon DEF InferInv
    <3>2. handler[r].pc # "crashed"
      BY <1>4, Zenon
    <3>3. QED
      BY <1>3, <1>5, <2>6, <2>10, <3>1, <3>2, KeptSame, Zenon
  <2>11. handler'[r].pc # "none" /\ handler[r].pc \notin {"finished", "rejected"}
    BY <1>4, <2>1, Zenon
  <2>12. QED
    BY <1>2, <1>3, <2>7, <2>8, <2>9, <2>10, <2>11, OneRequestKeeps, Zenon
<1>6. CASE /\ handler' = [handler EXCEPT ![r].pc = "rejected"] /\ sendDoneOnReply(r)
           /\ UNCHANGED proxy
  <2>1. /\ handler' \in [Reqs -> HandlerRecords] /\ handler'[r].pc = "rejected"
        /\ \A q \in Reqs : q # r => handler'[q] = handler[q]
    BY <1>0, <1>2, <1>6, HandlerPut, Zenon
  <2>2. m \in Messages /\ m[1] = "done"
    BY Zenon DEF Messages
  <2>3. /\ reply' \in [Reqs -> Seq(Messages)]
        /\ used' \in [taken : Nat, lost : Nat, crashes : Nat]
        /\ \A q \in Reqs : q # r => reply'[q] = reply[q]
        /\ used'.crashes = used.crashes
        /\ used'.lost = 0 => used.lost = 0
        /\ r[1] \notin Silent /\ used'.lost = 0 => reply'[r] = Append(reply[r], m)
        /\ r[1] \in Silent => reply'[r] = reply[r]
        /\ reply'[r] \in {reply[r], Append(reply[r], m)}
    <3>1. CASE r[1] \in Silent
      BY <1>0, <1>6, <3>1, Zenon DEF sendDoneOnReply, InferTypes
    <3>2. CASE r[1] \notin Silent
      <4>1. PublishReply(r, m)
        BY <1>6, <3>2, Zenon DEF sendDoneOnReply
      <4>2. QED
        BY <1>0, <1>2, <2>2, <3>2, <4>1, Publishing, Zenon
    <3>3. QED
      BY <3>1, <3>2, Zenon
  <2>4. InferTypes'
    <3>1. SideTypes'
      BY <1>0, <1>3, <2>3, Zenon DEF SideTypes
    <3>2. MainTypes'
      BY <1>0, <1>1, <1>3, <1>6, <2>1, <2>3, Zenon DEF MainTypes
    <3>3. QED
      BY <3>1, <3>2, Zenon DEF InferTypes, SideTypes, MainTypes
  <2>5. OnlyAt(r)
    BY <1>3, <1>6, <2>1, <2>3, Zenon DEF OnlyAt
  <2>6. EndsLast(reply'[r], TRUE)
    <3>1. reply[r] \in Seq(Messages)
      BY <1>0, <1>2, Zenon DEF InferTypes
    <3>2. QED
      BY <1>4, <2>2, <2>3, <3>1, EndPublished, Zenon
  <2>7. Linked(r)'
    <3>1. Shape(proxy[r]) /\ (r[1] \in Silent => reply'[r] = <<>>)
      BY <1>2, <2>3, Zenon DEF Linked
    <3>2. QED
      BY <1>4, <1>6, <2>1, <2>6, <3>1, Zenon DEF Linked, EndsLast, BothClosed
  <2>8. ASSUME NEW a \in Agents, exec[a].run # 0, Req(a) = r PROVE Kept(a)'
    <3>0. Kept(a) /\ exec' = exec /\ handler[r].pc # "crashed"
      BY <1>3, <1>4, Zenon DEF InferInv
    <3>1. CASE r[1] \in Silent
      BY <2>3, <2>8, <3>0, <3>1, KeptSame, Zenon
    <3>2. CASE r[1] \notin Silent /\ used'.lost = 0
      <4>1. Counted(m, EmT(proxy[r]) - Len(proxy[r].tokenCh), EmC(proxy[r]) - Len(proxy[r].toolCh),
                    EmT(proxy'[r]) - Len(proxy'[r].tokenCh), EmC(proxy'[r]) - Len(proxy'[r].toolCh))
        BY <1>6, <2>2, Zenon DEF Counted
      <4>2. QED
        BY <1>0, <2>2, <2>3, <2>8, <3>0, <3>2, <4>1, KeptSent, Zenon
    <3>3. CASE used'.lost # 0
      BY <3>3, Zenon DEF Kept
    <3>4. QED
      BY <3>1, <3>2, <3>3, Zenon
  <2>9. /\ handler'[r].pc # "none" /\ handler[r].pc \notin {"finished", "rejected"}
        /\ ~AtWork(handler'[r])
    BY <1>4, <2>1, Zenon DEF AtWork
  <2>10. QED
    BY <1>2, <1>3, <2>4, <2>5, <2>7, <2>8, <2>9, OneRequestKeeps, Zenon
<1>7. QED
  BY <1>5, <1>6, <1>p, Zenon DEF HandleLLMRequest

\* A crash ends the exchange that was under way, and starts none.
LEMMA CrashKeeps ==
  ASSUME InferenceAssumption, InferInv, CrashBroker
  PROVE  InferInv'
<1>0. InferTypes /\ SideTypes /\ MainTypes
  BY TypesSplit, Zenon DEF InferInv
<1>1. /\ used' \in [taken : Nat, lost : Nat, crashes : Nat]
      /\ used'.lost = used.lost /\ used'.crashes > 0
  BY <1>0, Spent, Zenon DEF CrashBroker
<1>2. UNCHANGED <<requests, reply, exec, listener, signal, preempted>>
  BY Zenon DEF CrashBroker, agentVars
<1>3. ASSUME NEW r \in Reqs
      PROVE  /\ handler'[r] \in HandlerRecords /\ proxy'[r] \in ProxyRecords
             /\ r \in Busy => handler'[r].pc = "crashed" /\ proxy'[r] = NoProxy
             /\ r \notin Busy => handler'[r] = handler[r] /\ proxy'[r] = proxy[r]
  <2>1. NoProxy \in ProxyRecords
    BY DEF NoProxy, ProxyRecords
  <2>2. handler[r] \in HandlerRecords /\ proxy[r] \in ProxyRecords
    BY <1>0, Zenon DEF InferTypes
  <2>3. /\ [handler[r] EXCEPT !.pc = "crashed"] \in HandlerRecords
        /\ [handler[r] EXCEPT !.pc = "crashed"].pc = "crashed"
    BY <2>2, Zenon DEF HandlerRecords
  <2>4. QED
    BY <2>1, <2>2, <2>3, Zenon DEF CrashBroker
<1>4. InferTypes'
  <2>1. SideTypes'
    BY <1>0, <1>1, <1>2, Zenon DEF SideTypes, CrashBroker, Free
  <2>2. handler' \in [Reqs -> HandlerRecords] /\ proxy' \in [Reqs -> ProxyRecords]
    BY <1>3, Zenon DEF CrashBroker
  <2>3. MainTypes'
    BY <1>0, <1>2, <2>2, Zenon DEF MainTypes
  <2>4. QED
    BY <2>1, <2>3, Zenon DEF InferTypes, SideTypes, MainTypes
<1>5. ASSUME NEW r \in Reqs PROVE Linked(r)'
  <2>0. Linked(r) /\ reply'[r] = reply[r]
    BY <1>2, Zenon DEF InferInv
  <2>1. CASE r \notin Busy
    BY <1>1, <1>3, <2>0, <2>1, Zenon DEF Linked, BothClosed
  <2>2. CASE r \in Busy
    <3>1. /\ handler'[r].pc = "crashed" /\ proxy'[r] = NoProxy
          /\ handler[r].pc \in {"relay", "drain", "drainTools"}
      BY <1>3, <2>2, Zenon DEF Busy
    <3>2. Shape(NoProxy) /\ NoProxy.pc = "none"
      BY SMTT(30) DEF Shape, NoProxy, EmT, EmC, Chan, InferenceAssumption
    <3>3. EndsLast(reply[r], FALSE)
      BY <2>0, <3>1, NotEnded, Zenon
    <3>4. r[1] \in Silent => reply[r] = <<>>
      BY <2>0, Zenon DEF Linked
    <3>5. QED
      BY <1>1, <2>0, <3>1, <3>2, <3>3, <3>4, Zenon DEF Linked, EndsLast
  <2>3. QED
    BY <2>1, <2>2, Zenon
<1>6. Busy' = {} /\ OneBusy'
  BY <1>3, Zenon DEF Busy, OneBusy
<1>7. ASSUME NEW a \in Agents PROVE Kept(a)' /\ Told(a)'
  <2>1. CASE exec[a].run = 0
    <3>1. exec[a].pc = "idle"
      BY <1>0, <2>1, Zenon DEF InferTypes
    <3>2. QED
      BY <1>2, <2>1, <3>1, Zenon DEF Kept, Told
  <2>2. CASE exec[a].run # 0
    <3>1. Req(a) \in Reqs /\ Req(a)' = Req(a) /\ Kept(a) /\ Told(a)
      BY <1>0, <1>2, <2>2, CurrentRequest, Zenon DEF InferInv, Req
    <3>2. Kept(a)'
      <4>1. CASE Req(a) \in Busy
        BY <1>1, <1>2, <1>3, <3>1, <4>1, KeptSame, Zenon
      <4>2. CASE Req(a) \notin Busy
        BY <1>1, <1>2, <1>3, <3>1, <4>2, Zenon DEF Kept, Relayed
      <4>3. QED
        BY <4>1, <4>2, Zenon
    <3>3. Told(a)'
      BY <1>2, <1>3, <3>1, Zenon DEF Told, Busy
    <3>4. QED
      BY <3>2, <3>3, Zenon
  <2>3. QED
    BY <2>1, <2>2, Zenon
<1>8. Queued'
  <2>1. ASSUME NEW r \in Reqs, Unused(r) PROVE Unused(r)'
    BY <1>2, <1>3, <2>1, Zenon DEF Unused, Busy
  <2>2. ASSUME NEW i \in 1 .. Len(requests) PROVE requests[i].req \in Reqs
    <3>1. requests[i] \in Entries
      BY <1>0 DEF MainTypes
    <3>2. QED
      BY <3>1, Zenon DEF Entries
  <2>3. QED
    BY <1>2, <2>1, <2>2, Zenon DEF InferInv, Queued, Unused
<1>9. QED
  BY <1>4, <1>5, <1>6, <1>7, <1>8, Zenon DEF InferInv

\* A record of Execute, field by field; only the agent a moves.
ExecFields(x, pc, run, armed, text, calls, outcome) ==
    /\ x \in ExecRecords
    /\ x.pc = pc /\ x.run = run /\ x.armed = armed
    /\ x.text = text /\ x.calls = calls /\ x.outcome = outcome
OnlyExec(a) == /\ exec' \in [Agents -> ExecRecords]
               /\ \A b \in Agents : b # a => exec'[b] = exec[b]

LEMMA ExecEdit ==
  ASSUME NEW e \in ExecRecords
  PROVE  /\ e.text \in Seq(Nat) /\ e.calls \in Seq(Nat) /\ e.armed \in BOOLEAN
         /\ e.run \in 0 .. MaxRuns /\ e.slot \in Slots \cup {0}
         /\ \A c \in {"idle", "held", "waiting", "returned"} :
               ExecFields([e EXCEPT !.pc = c], c, e.run, e.armed, e.text, e.calls, e.outcome)
         /\ \A x \in BOOLEAN :
               ExecFields([e EXCEPT !.armed = x], e.pc, e.run, x, e.text, e.calls, e.outcome)
         /\ \A x \in Seq(Nat) :
               /\ ExecFields([e EXCEPT !.text = x], e.pc, e.run, e.armed, x, e.calls, e.outcome)
               /\ ExecFields([e EXCEPT !.calls = x], e.pc, e.run, e.armed, e.text, x, e.outcome)
         /\ \A x \in {"none", "ok", "preempted"} :
               ExecFields([e EXCEPT !.outcome = x], e.pc, e.run, e.armed, e.text, e.calls, x)
<1>1. /\ e.text \in Seq(Nat) /\ e.calls \in Seq(Nat) /\ e.armed \in BOOLEAN
      /\ e.run \in 0 .. MaxRuns /\ e.slot \in Slots \cup {0}
  BY Zenon DEF ExecRecords
<1>2. ASSUME NEW c \in {"idle", "held", "waiting", "returned"}
      PROVE  ExecFields([e EXCEPT !.pc = c], c, e.run, e.armed, e.text, e.calls, e.outcome)
  BY Zenon DEF ExecFields, ExecRecords
<1>3. ASSUME NEW x \in BOOLEAN
      PROVE  ExecFields([e EXCEPT !.armed = x], e.pc, e.run, x, e.text, e.calls, e.outcome)
  BY Zenon DEF ExecFields, ExecRecords
<1>4. ASSUME NEW x \in Seq(Nat)
      PROVE  ExecFields([e EXCEPT !.text = x], e.pc, e.run, e.armed, x, e.calls, e.outcome)
  BY Zenon DEF ExecFields, ExecRecords
<1>5. ASSUME NEW x \in Seq(Nat)
      PROVE  ExecFields([e EXCEPT !.calls = x], e.pc, e.run, e.armed, e.text, x, e.outcome)
  BY Zenon DEF ExecFields, ExecRecords
<1>6. ASSUME NEW x \in {"none", "ok", "preempted"}
      PROVE  ExecFields([e EXCEPT !.outcome = x], e.pc, e.run, e.armed, e.text, e.calls, x)
  BY Zenon DEF ExecFields, ExecRecords
<1>7. QED
  BY <1>1, <1>2, <1>3, <1>4, <1>5, <1>6, Zenon

LEMMA ExecMoved ==
  ASSUME NEW e \in ExecRecords, NEW n \in 0 .. MaxRuns, NEW s \in Slots \cup {0}
  PROVE  /\ ExecFields([e EXCEPT !.run = n], e.pc, n, e.armed, e.text, e.calls, e.outcome)
         /\ ExecFields([e EXCEPT !.slot = s], e.pc, e.run, e.armed, e.text, e.calls, e.outcome)
  BY Zenon DEF ExecFields, ExecRecords

LEMMA ExecPut ==
  ASSUME InferTypes, NEW a \in Agents, NEW x, exec' = [exec EXCEPT ![a] = x],
         NEW c, NEW n, NEW m, NEW t, NEW l, NEW o, ExecFields(x, c, n, m, t, l, o)
  PROVE  OnlyExec(a) /\ ExecFields(exec'[a], c, n, m, t, l, o)
<1>1. exec \in [Agents -> ExecRecords] /\ x \in ExecRecords
  BY Zenon DEF InferTypes, ExecFields
<1>2. exec'[a] = x
  BY <1>1, Zenon
<1>3. OnlyExec(a)
  BY <1>1, Zenon DEF OnlyExec
<1>4. QED
  BY <1>2, <1>3, Zenon

\* A slot is offered: a new run, for which nothing was said yet.
LEMMA GetSlotKeeps ==
  ASSUME InferenceAssumption, InferInv, NEW a \in Agents, NEW s \in Slots, GetSlot(a, s)
  PROVE  InferInv'
<1> DEFINE e == exec[a]
<1>0. InferTypes /\ SideTypes /\ MainTypes /\ e \in ExecRecords /\ MaxRuns \in Nat
  BY TypesSplit, Zenon DEF InferInv, InferTypes, InferenceAssumption
<1>1. /\ e.pc = "idle" /\ e.run < MaxRuns /\ e.run \in 0 .. MaxRuns
      /\ exec' = [exec EXCEPT ![a] = [Idle EXCEPT !.pc = "held", !.slot = s, !.run = e.run + 1]]
      /\ UNCHANGED <<requests, handler, proxy, reply, listener, signal, used>>
  BY <1>0, ExecEdit, Zenon DEF GetSlot, brokerVars
<1>2. e.run \in Nat /\ e.run + 1 \in 0 .. MaxRuns /\ <<a, e.run + 1>> \in Reqs /\ e.run + 1 # 0
  BY <1>0, <1>1 DEF Reqs
<1>p. PICK r \in Reqs : r = <<a, e.run + 1>>
  BY <1>2, Zenon
<1>3. ExecFields([Idle EXCEPT !.pc = "held", !.slot = s, !.run = e.run + 1],
                 "held", e.run + 1, FALSE, <<>>, <<>>, "none")
  <2> DEFINE x == [Idle EXCEPT !.pc = "held"]
             y == [x EXCEPT !.slot = s]
             z == [y EXCEPT !.run = e.run + 1]
  <2>1. /\ Idle \in ExecRecords /\ Idle.run = 0 /\ Idle.armed = FALSE /\ Idle.text = <<>>
        /\ Idle.calls = <<>> /\ Idle.outcome = "none"
    BY <1>0 DEF Idle, ExecRecords
  <2>2. ExecFields(x, "held", 0, FALSE, <<>>, <<>>, "none")
    BY <2>1, ExecEdit, Zenon
  <2> HIDE DEF x
  <2>3. ExecFields(y, "held", 0, FALSE, <<>>, <<>>, "none")
    <3>1. s \in Slots \cup {0}
      BY Zenon
    <3>2. /\ x \in ExecRecords /\ x.pc = "held" /\ x.run = 0 /\ x.armed = FALSE
          /\ x.text = <<>> /\ x.calls = <<>> /\ x.outcome = "none"
      BY <2>2, Zenon DEF ExecFields
    <3>3. ExecFields(y, x.pc, x.run, x.armed, x.text, x.calls, x.outcome)
      BY <1>2, <3>1, <3>2, ExecMoved, Zenon
    <3>4. QED
      BY <3>2, <3>3, Zenon
  <2> HIDE DEF y
  <2>4. ExecFields(z, "held", e.run + 1, FALSE, <<>>, <<>>, "none")
    BY <1>2, <2>3, ExecMoved, Zenon DEF ExecFields
  <2> HIDE DEF z
  <2>5. [Idle EXCEPT !.pc = "held", !.slot = s, !.run = e.run + 1] = z
    BY Zenon DEF x, y, z
  <2>6. QED
    BY <2>4, <2>5, Zenon
<1>4. OnlyExec(a) /\ ExecFields(exec'[a], "held", e.run + 1, FALSE, <<>>, <<>>, "none")
  BY <1>0, <1>1, <1>3, ExecPut, Zenon
<1>5. /\ exec'[a].pc = "held" /\ exec'[a].run = e.run + 1 /\ exec'[a].text = <<>>
      /\ exec'[a].calls = <<>> /\ Req(a)' = r
  BY <1>4, <1>p, Zenon DEF ExecFields, Req
<1>6. InferTypes'
  <2>1. SideTypes'
    BY <1>0, <1>1, Zenon DEF SideTypes, GetSlot
  <2>2. MainTypes'
    BY <1>0, <1>1, <1>2, <1>4, <1>5, Zenon DEF MainTypes, OnlyExec
  <2>3. QED
    BY <2>1, <2>2, Zenon DEF InferTypes, SideTypes, MainTypes
<1>7. OnlyAgent(a)
  BY <1>1, <1>4, Zenon DEF OnlyAgent, OnlyExec
<1>8. \A q \in Reqs : Linked(q)'
  BY <1>1, Zenon DEF InferInv, Linked, BothClosed
<1>9. Queued'
  <2>1. ASSUME NEW q \in Reqs,
               q[2] > exec'[q[1]].run \/ (q[2] = exec'[q[1]].run /\ exec'[q[1]].pc = "held")
        PROVE  Unused(q) /\ \A i \in 1 .. Len(requests) : requests[i].req # q
    <3>1. q[1] \in Agents /\ q[2] \in Nat
      BY <1>0, SMTT(30) DEF Reqs
    <3>2. CASE q[1] = a
      <4>1. q[2] > exec[q[1]].run
        BY <1>2, <1>5, <2>1, <3>1, <3>2, SMTT(30)
      <4>2. QED
        BY <4>1, Zenon DEF InferInv, Queued
    <3>3. CASE q[1] # a
      BY <1>4, <2>1, <3>1, <3>3, Zenon DEF InferInv, Queued, OnlyExec
    <3>4. QED
      BY <3>2, <3>3, Zenon
  <2>2. QED
    BY <1>1, <2>1, SMTT(30) DEF InferInv, Queued, Unused
<1>10. Unused(r) /\ Linked(r) /\ proxy[r].pc = "none"
  <2>1. r[1] = a /\ r[2] > exec[r[1]].run
    BY <1>2, <1>p, SMTT(30)
  <2>2. Unused(r) /\ Linked(r)
    BY <1>2, <2>1, Zenon DEF InferInv, Queued
  <2>3. QED
    BY <2>2, Zenon DEF Unused, Linked
<1>11. Kept(a)'
  <2>1. EmT(proxy[r]) = 0 /\ EmC(proxy[r]) = 0 /\ reply[r] = <<>>
    BY <1>10, Zenon DEF EmT, EmC, Unused
  <2>2. Len(proxy[r].tokenCh) = 0 /\ Len(proxy[r].toolCh) = 0
    <3>1. Chan(proxy[r].tokenCh, 0, TokenCap) /\ Chan(proxy[r].toolCh, 0, ToolCap)
      BY <1>10, <2>1, Zenon DEF Linked, Shape
    <3>2. proxy[r].tokenCh \in Seq(Nat) /\ proxy[r].toolCh \in Seq(Nat)
      BY <1>0, <1>2, ProxyEdit, Zenon DEF InferTypes
    <3>3. QED
      BY <3>1, <3>2, SMTT(30) DEF Chan
  <2>3. Relayed(r, 0, 0)'
    BY <1>1, <2>1, <2>2 DEF Relayed
  <2>4. Flow("token", <<>>, <<>>, 0) /\ Flow("tool", <<>>, <<>>, 0)
    BY DEF Flow
  <2>5. QED
    BY <1>1, <1>5, <2>1, <2>3, <2>4, Zenon DEF Kept
<1>12. Told(a)'
  BY <1>5, Zenon DEF Told
<1>13. QED
  BY <1>6, <1>7, <1>8, <1>9, <1>11, <1>12, OneAgentKeeps, Zenon

\* Execute sends the request: its first appearance.
LEMMA StartKeeps ==
  ASSUME InferenceAssumption, InferInv, NEW a \in Agents, StartExecute(a)
  PROVE  InferInv'
<1> DEFINE e == exec[a]
<1>0. /\ InferTypes /\ SideTypes /\ MainTypes /\ e \in ExecRecords /\ requests \in Seq(Entries)
      /\ e.slot \in Slots \cup {0} /\ e.run \in 0 .. MaxRuns
  BY TypesSplit, ExecEdit, Zenon DEF InferInv, InferTypes
<1>1. /\ e.pc = "held" /\ e.run # 0 /\ exec' = [exec EXCEPT ![a] = [e EXCEPT !.pc = "waiting"]]
      /\ requests' = Append(requests, [req |-> Req(a), slot |-> e.slot])
      /\ UNCHANGED <<slots, handler, proxy, reply, signal, preempted, used>>
  BY <1>0, Zenon DEF StartExecute, brokerVars, InferTypes
<1>p. PICK r \in Reqs : r = Req(a) /\ r[1] = a /\ r[2] = e.run
  BY <1>0, <1>1, CurrentRequest, Zenon
<1>2. /\ OnlyExec(a)
      /\ ExecFields(exec'[a], "waiting", e.run, e.armed, e.text, e.calls, e.outcome)
  <2>1. ExecFields([e EXCEPT !.pc = "waiting"], "waiting", e.run, e.armed, e.text, e.calls, e.outcome)
    BY <1>0, ExecEdit, Zenon
  <2>2. QED
    BY <1>0, <1>1, <2>1, ExecPut, Zenon
<1>3. /\ exec'[a].pc = "waiting" /\ exec'[a].run = e.run /\ exec'[a].text = e.text
      /\ exec'[a].calls = e.calls /\ Req(a)' = r
  BY <1>2, <1>p, Zenon DEF ExecFields, Req
<1>4. [req |-> r, slot |-> e.slot] \in Entries
  BY <1>0, Zenon DEF Entries
<1>5. /\ requests' \in Seq(Entries) /\ Len(requests) \in Nat /\ Len(requests') = Len(requests) + 1
      /\ requests'[Len(requests) + 1] = [req |-> r, slot |-> e.slot]
      /\ \A i \in 1 .. Len(requests) : requests'[i] = requests[i]
  <2> DEFINE x == [req |-> r, slot |-> e.slot]
  <2>1. x \in Entries /\ requests' = Append(requests, x)
    BY <1>1, <1>4, <1>p, Zenon
  <2> HIDE DEF x
  <2>2. QED
    BY <1>0, <2>1 DEF x
<1>6. InferTypes'
  <2>1. SideTypes'
    BY <1>0, <1>1, Zenon DEF SideTypes, StartExecute
  <2>2. MainTypes'
    BY <1>0, <1>1, <1>2, <1>3, <1>5, Zenon DEF MainTypes, OnlyExec
  <2>3. QED
    BY <2>1, <2>2, Zenon DEF InferTypes, SideTypes, MainTypes
<1>7. OnlyAgent(a)
  BY <1>1, <1>2, Zenon DEF OnlyAgent, OnlyExec
<1>8. \A q \in Reqs : Linked(q)'
  BY <1>1, Zenon DEF InferInv, Linked, BothClosed
<1>9. Unused(r) /\ \A i \in 1 .. Len(requests) : requests[i].req # r
  BY <1>1, <1>p, Zenon DEF InferInv, Queued
<1>10. Queued'
  <2>1. ASSUME NEW q \in Reqs,
               q[2] > exec'[q[1]].run \/ (q[2] = exec'[q[1]].run /\ exec'[q[1]].pc = "held")
        PROVE  Unused(q) /\ q # r /\ \A i \in 1 .. Len(requests) : requests[i].req # q
    <3>1. q[1] \in Agents /\ q[2] \in Nat /\ e.run \in Nat
      BY <1>0, SMTT(30) DEF Reqs
    <3>2. CASE q[1] = a
      <4>1. q[2] > exec[q[1]].run /\ q # r
        BY <1>3, <1>p, <2>1, <3>1, <3>2, SMTT(30)
      <4>2. QED
        BY <4>1, Zenon DEF InferInv, Queued
    <3>3. CASE q[1] # a
      BY <1>2, <1>p, <2>1, <3>1, <3>3, Zenon DEF InferInv, Queued, OnlyExec
    <3>4. QED
      BY <3>2, <3>3, Zenon
  <2>2. ASSUME NEW q \in Reqs,
               q[2] > exec'[q[1]].run \/ (q[2] = exec'[q[1]].run /\ exec'[q[1]].pc = "held"),
               NEW i \in 1 .. Len(requests')
        PROVE  requests'[i].req # q
    <3>1. CASE i \in 1 .. Len(requests)
      BY <1>5, <2>1, <2>2, <3>1, Zenon
    <3>2. CASE i = Len(requests) + 1
      BY <1>5, <2>1, <2>2, <3>2, SMTT(30)
    <3>3. QED
      BY <1>5, <3>1, <3>2, SMTT(30)
  <2>3. ASSUME NEW i \in 1 .. Len(requests')
        PROVE  /\ handler[requests'[i].req].pc = "none" /\ reply[requests'[i].req] = <<>>
               /\ \A k \in 1 .. Len(requests') : k # i => requests'[k].req # requests'[i].req
    <3>1. \A k \in 1 .. Len(requests') : k \in 1 .. Len(requests) \/ k = Len(requests) + 1
      BY <1>5, SMTT(30)
    <3>2. CASE i \in 1 .. Len(requests)
      <4>1. /\ Unused(requests[i].req)
            /\ \A k \in 1 .. Len(requests) : k # i => requests[k].req # requests[i].req
        BY <3>2, Zenon DEF InferInv, Queued
      <4>2. QED
        BY <1>5, <1>9, <3>1, <3>2, <4>1, SMTT(30) DEF Unused
    <3>3. CASE i = Len(requests) + 1
      BY <1>5, <1>9, <3>1, <3>3 DEF Unused
    <3>4. QED
      BY <3>1, <3>2, <3>3, Zenon
  <2>4. QED
    BY <1>1, <2>1, <2>2, <2>3, Zenon DEF Queued, Unused
<1>11. Kept(a)'
  <2>1. Kept(a)
    BY Zenon DEF InferInv
  <2>2. QED
    BY <1>1, <1>3, <1>p, <2>1 DEF Kept, Relayed
<1>12. Told(a)'
  BY <1>3, Zenon DEF Told
<1>13. QED
  BY <1>6, <1>7, <1>8, <1>10, <1>11, <1>12, OneAgentKeeps, Zenon

\* Steps of an agent that say nothing to the others and keep what was read.
SameRun(a) ==
    /\ OnlyExec(a) /\ exec'[a].run = exec[a].run
    /\ exec'[a].text = exec[a].text /\ exec'[a].calls = exec[a].calls
    /\ exec[a].pc # "held" /\ exec'[a].pc # "held" /\ exec[a].run # 0
    /\ UNCHANGED <<requests, handler, proxy, reply, used>>

LEMMA SameRunKeeps ==
  ASSUME InferInv, SideTypes', NEW a \in Agents, SameRun(a), Told(a)'
  PROVE  InferInv'
<1>0. InferTypes /\ MainTypes /\ exec[a].run \in 0 .. MaxRuns
  BY TypesSplit, ExecEdit, Zenon DEF InferInv, InferTypes
<1>1. InferTypes'
  <2>1. MainTypes'
    <3>1. exec' \in [Agents -> ExecRecords] /\ UNCHANGED <<requests, handler, proxy, reply>>
      BY Zenon DEF SameRun, OnlyExec
    <3>2. ASSUME NEW b \in Agents, exec'[b].pc # "idle" PROVE exec'[b].run # 0
      <4>1. CASE b = a
        BY <4>1, Zenon DEF SameRun
      <4>2. CASE b # a
        BY <1>0, <3>2, <4>2, Zenon DEF SameRun, OnlyExec, MainTypes
      <4>3. QED
        BY <4>1, <4>2, Zenon
    <3>3. QED
      BY <1>0, <3>1, <3>2, Zenon DEF MainTypes
  <2>2. QED
    BY <2>1, Zenon DEF InferTypes, SideTypes, MainTypes
<1>2. OnlyAgent(a)
  BY Zenon DEF OnlyAgent, SameRun, OnlyExec
<1>3. \A q \in Reqs : Linked(q)'
  BY Zenon DEF InferInv, Linked, BothClosed, SameRun
<1>4. Queued'
  <2>1. ASSUME NEW q \in Reqs,
               q[2] > exec'[q[1]].run \/ (q[2] = exec'[q[1]].run /\ exec'[q[1]].pc = "held")
        PROVE  Unused(q) /\ \A i \in 1 .. Len(requests) : requests[i].req # q
    <3>1. q[1] \in Agents
      BY Zenon DEF Reqs
    <3>2. q[2] > exec[q[1]].run \/ (q[2] = exec[q[1]].run /\ exec[q[1]].pc = "held")
      BY <2>1, <3>1, Zenon DEF SameRun, OnlyExec
    <3>3. QED
      BY <3>2, Zenon DEF InferInv, Queued
  <2>2. QED
    BY <2>1, SMTT(30) DEF InferInv, Queued, Unused, SameRun
<1>5. Kept(a)'
  <2>1. Kept(a) /\ Req(a)' = Req(a)
    BY Zenon DEF InferInv, Req, SameRun
  <2>2. QED
    BY <2>1, Zenon DEF Kept, Relayed, SameRun
<1>6. QED
  BY <1>1, <1>2, <1>3, <1>4, <1>5, OneAgentKeeps, Zenon

\* The finalize deadline is armed, or passes; the slot is given back.
LEMMA QuietAgentKeeps ==
  ASSUME InferenceAssumption, InferInv, NEW a \in Agents,
         ReadNothing(a) \/ FinalizeDeadline(a) \/ GiveBack(a)
  PROVE  InferInv'
<1> DEFINE e == exec[a]
<1>0. InferTypes /\ SideTypes /\ MainTypes /\ e \in ExecRecords /\ Told(a)
  BY TypesSplit, Zenon DEF InferInv, InferTypes
<1>1. CASE ReadNothing(a)
  <2>1. /\ e.pc = "waiting" /\ e.run # 0 /\ exec' = [exec EXCEPT ![a] = [e EXCEPT !.armed = TRUE]]
        /\ UNCHANGED <<slots, requests, handler, proxy, reply, listener, signal, preempted, used>>
    BY <1>0, <1>1, Zenon DEF ReadNothing, brokerVars, MainTypes
  <2>2. OnlyExec(a) /\ ExecFields(exec'[a], e.pc, e.run, TRUE, e.text, e.calls, e.outcome)
    <3>1. ExecFields([e EXCEPT !.armed = TRUE], e.pc, e.run, TRUE, e.text, e.calls, e.outcome)
      BY <1>0, ExecEdit, Zenon
    <3>2. QED
      BY <1>0, <2>1, <3>1, ExecPut, Zenon
  <2>3. SameRun(a) /\ exec'[a].pc = "waiting"
    BY <2>1, <2>2, Zenon DEF SameRun, ExecFields
  <2>4. SideTypes' /\ Told(a)'
    BY <1>0, <2>1, <2>3, Zenon DEF SideTypes, Told
  <2>5. QED
    BY <2>3, <2>4, SameRunKeeps, Zenon
<1>2. CASE FinalizeDeadline(a)
  <2> DEFINE x == [e EXCEPT !.pc = "returned"]
             y == [x EXCEPT !.outcome = "preempted"]
  <2>1. /\ e.pc = "waiting" /\ e.run # 0 /\ exec' = [exec EXCEPT ![a] = y]
        /\ listener' = [listener EXCEPT ![a] = "off"]
        /\ UNCHANGED <<slots, requests, handler, proxy, reply, signal, preempted, used>>
    BY <1>0, <1>2, Zenon DEF FinalizeDeadline, Return, brokerVars, MainTypes
  <2>2. ExecFields(x, "returned", e.run, e.armed, e.text, e.calls, e.outcome)
    BY <1>0, ExecEdit, Zenon
  <2> HIDE DEF x
  <2>3. ExecFields(y, "returned", e.run, e.armed, e.text, e.calls, "preempted")
    <3>1. /\ x \in ExecRecords /\ x.pc = "returned" /\ x.run = e.run /\ x.armed = e.armed
          /\ x.text = e.text /\ x.calls = e.calls
      BY <2>2, Zenon DEF ExecFields
    <3>2. ExecFields(y, x.pc, x.run, x.armed, x.text, x.calls, "preempted")
      BY <3>1, ExecEdit, Zenon
    <3>3. QED
      BY <3>1, <3>2, Zenon
  <2> HIDE DEF y
  <2>4. OnlyExec(a) /\ ExecFields(exec'[a], "returned", e.run, e.armed, e.text, e.calls, "preempted")
    BY <1>0, <2>1, <2>3, ExecPut, Zenon
  <2>5. SameRun(a) /\ exec'[a].outcome = "preempted"
    BY <2>1, <2>4, Zenon DEF SameRun, ExecFields
  <2>6. SideTypes' /\ Told(a)'
    BY <1>0, <2>1, <2>5, Zenon DEF SideTypes, Told
  <2>7. QED
    BY <2>5, <2>6, SameRunKeeps, Zenon
<1>3. CASE GiveBack(a)
  <2>1. /\ e.pc = "returned" /\ e.run # 0 /\ exec' = [exec EXCEPT ![a] = [e EXCEPT !.pc = "idle"]]
        /\ slots' = [slots EXCEPT ![e.slot] = Free]
        /\ UNCHANGED <<requests, handler, proxy, reply, listener, signal, preempted, used>>
    BY <1>0, <1>3, Zenon DEF GiveBack, brokerVars, MainTypes
  <2>2. OnlyExec(a) /\ ExecFields(exec'[a], "idle", e.run, e.armed, e.text, e.calls, e.outcome)
    <3>1. ExecFields([e EXCEPT !.pc = "idle"], "idle", e.run, e.armed, e.text, e.calls, e.outcome)
      BY <1>0, ExecEdit, Zenon
    <3>2. QED
      BY <1>0, <2>1, <3>1, ExecPut, Zenon
  <2>3. SameRun(a) /\ exec'[a].pc = "idle"
    BY <2>1, <2>2, Zenon DEF SameRun, ExecFields
  <2>4. SideTypes'
    BY <1>0, <2>1, Zenon DEF SideTypes, Free
  <2>5. Told(a)'
    BY <2>3, Zenon DEF Told
  <2>6. QED
    BY <2>3, <2>4, <2>5, SameRunKeeps, Zenon
<1>4. QED
  BY <1>1, <1>2, <1>3, Zenon

\* One message read: the next of its kind, or the end after everything else.
ReadsOne(a, r) ==
    /\ OnlyExec(a) /\ exec[a].pc = "waiting" /\ exec'[a].pc # "held" /\ exec'[a].run = exec[a].run
    /\ r = Req(a) /\ reply[r] # <<>> /\ reply' = [reply EXCEPT ![r] = Tail(reply[r])]
    /\ UNCHANGED <<slots, requests, handler, proxy, signal, preempted, used>>
    /\ LET msg == Head(reply[r])
       IN  \/ /\ msg[1] = "done" /\ exec'[a].pc = "returned"
              /\ exec'[a].text = exec[a].text /\ exec'[a].calls = exec[a].calls
              /\ exec'[a].armed = exec[a].armed /\ exec'[a].outcome = AfterDone(exec[a])
              /\ listener' = [listener EXCEPT ![a] = "off"]
           \/ /\ msg[1] = "token" /\ exec'[a].pc = "waiting" /\ listener' = listener
              /\ exec'[a].text = Append(exec[a].text, msg[2]) /\ exec'[a].calls = exec[a].calls
           \/ /\ msg[1] = "tool" /\ exec'[a].pc = "waiting" /\ listener' = listener
              /\ exec'[a].calls = Append(exec[a].calls, msg[2]) /\ exec'[a].text = exec[a].text

LEMMA ReadEffect ==
  ASSUME InferTypes, NEW a \in Agents, NEW r \in Reqs, r = Req(a), ReadReply(a)
  PROVE  ReadsOne(a, r)
<1> DEFINE e == exec[a]
           msg == Head(reply[r])
           armed == e.armed \/ a \in preempted
<1>0. e \in ExecRecords /\ reply[r] \in Seq(Messages) /\ e.text \in Seq(Nat) /\ e.calls \in Seq(Nat)
  BY ExecEdit, Zenon DEF InferTypes
<1>1. /\ e.pc = "waiting" /\ reply[r] # <<>> /\ reply' = [reply EXCEPT ![r] = Tail(reply[r])]
      /\ UNCHANGED <<slots, requests, handler, proxy, signal, preempted, used>>
  BY Zenon DEF ReadReply, brokerVars
<1>2. msg \in Messages
  BY <1>0, <1>1, SMTT(30)
<1>3. msg[2] \in Nat /\ armed \in BOOLEAN
  BY <1>2, Zenon DEF Messages
<1>4. Append(e.text, msg[2]) \in Seq(Nat) /\ Append(e.calls, msg[2]) \in Seq(Nat)
  BY <1>0, <1>3, SMTT(30)
<1> HIDE DEF msg, armed
<1>5. CASE msg[1] = "done" /\ Return(a, e, AfterDone(e))
  <2> DEFINE x == [e EXCEPT !.pc = "returned"]
             y == [x EXCEPT !.outcome = AfterDone(e)]
  <2>1. exec' = [exec EXCEPT ![a] = y] /\ listener' = [listener EXCEPT ![a] = "off"]
    BY <1>5, Zenon DEF Return
  <2>2. ExecFields(x, "returned", e.run, e.armed, e.text, e.calls, e.outcome)
    BY <1>0, ExecEdit, Zenon
  <2> HIDE DEF x
  <2>3. ExecFields(y, "returned", e.run, e.armed, e.text, e.calls, AfterDone(e))
    <3>1. /\ x \in ExecRecords /\ x.pc = "returned" /\ x.run = e.run /\ x.armed = e.armed
          /\ x.text = e.text /\ x.calls = e.calls
      BY <2>2, Zenon DEF ExecFields
    <3>2. AfterDone(e) \in {"none", "ok", "preempted"}
      BY Zenon DEF AfterDone
    <3>3. ExecFields(y, x.pc, x.run, x.armed, x.text, x.calls, AfterDone(e))
      BY <3>1, <3>2, ExecEdit, Zenon
    <3>4. QED
      BY <3>1, <3>3, Zenon
  <2> HIDE DEF y
  <2>4. OnlyExec(a) /\ ExecFields(exec'[a], "returned", e.run, e.armed, e.text, e.calls, AfterDone(e))
    BY <2>1, <2>3, ExecPut, Zenon
  <2>5. QED
    BY <1>1, <1>5, <2>1, <2>4, Zenon DEF ReadsOne, ExecFields, msg
<1>6. CASE /\ msg[1] = "token" /\ UNCHANGED listener
           /\ exec' = [exec EXCEPT ![a].text = Append(@, msg[2]), ![a].armed = armed]
  <2> DEFINE x == [e EXCEPT !.text = Append(e.text, msg[2])]
             y == [x EXCEPT !.armed = armed]
  <2>1. exec' = [exec EXCEPT ![a] = y]
    BY <1>6, Zenon DEF InferTypes
  <2>2. ExecFields(x, e.pc, e.run, e.armed, Append(e.text, msg[2]), e.calls, e.outcome)
    BY <1>0, <1>4, ExecEdit, Zenon
  <2> HIDE DEF x
  <2>3. ExecFields(y, e.pc, e.run, armed, Append(e.text, msg[2]), e.calls, e.outcome)
    <3>1. /\ x \in ExecRecords /\ x.pc = e.pc /\ x.run = e.run
          /\ x.text = Append(e.text, msg[2]) /\ x.calls = e.calls /\ x.outcome = e.outcome
      BY <2>2, Zenon DEF ExecFields
    <3>2. ExecFields(y, x.pc, x.run, armed, x.text, x.calls, x.outcome)
      BY <1>3, <3>1, ExecEdit, Zenon
    <3>3. QED
      BY <3>1, <3>2, Zenon
  <2> HIDE DEF y
  <2>4. OnlyExec(a) /\ ExecFields(exec'[a], e.pc, e.run, armed, Append(e.text, msg[2]), e.calls, e.outcome)
    BY <2>1, <2>3, ExecPut, Zenon
  <2>5. QED
    BY <1>1, <1>6, <2>4, Zenon DEF ReadsOne, ExecFields, msg
<1>7. CASE /\ msg[1] = "tool" /\ UNCHANGED listener
           /\ exec' = [exec EXCEPT ![a].calls = Append(@, msg[2]), ![a].armed = armed]
  <2> DEFINE x == [e EXCEPT !.calls = Append(e.calls, msg[2])]
             y == [x EXCEPT !.armed = armed]
  <2>1. exec' = [exec EXCEPT ![a] = y]
    BY <1>7, Zenon DEF InferTypes
  <2>2. ExecFields(x, e.pc, e.run, e.armed, e.text, Append(e.calls, msg[2]), e.outcome)
    BY <1>0, <1>4, ExecEdit, Zenon
  <2> HIDE DEF x
  <2>3. ExecFields(y, e.pc, e.run, armed, e.text, Append(e.calls, msg[2]), e.outcome)
    <3>1. /\ x \in ExecRecords /\ x.pc = e.pc /\ x.run = e.run
          /\ x.calls = Append(e.calls, msg[2]) /\ x.text = e.text /\ x.outcome = e.outcome
      BY <2>2, Zenon DEF ExecFields
    <3>2. ExecFields(y, x.pc, x.run, armed, x.text, x.calls, x.outcome)
      BY <1>3, <3>1, ExecEdit, Zenon
    <3>3. QED
      BY <3>1, <3>2, Zenon
  <2> HIDE DEF y
  <2>4. OnlyExec(a) /\ ExecFields(exec'[a], e.pc, e.run, armed, e.text, Append(e.calls, msg[2]), e.outcome)
    BY <2>1, <2>3, ExecPut, Zenon
  <2>5. QED
    BY <1>1, <1>7, <2>4, Zenon DEF ReadsOne, ExecFields, msg
<1>8. QED
  BY <1>5, <1>6, <1>7, Zenon DEF ReadReply, msg, armed

LEMMA ReadKeeps ==
  ASSUME InferenceAssumption, InferInv, NEW a \in Agents, ReadReply(a)
  PROVE  InferInv'
<1> DEFINE e == exec[a]
<1>0. /\ InferTypes /\ SideTypes /\ MainTypes /\ e \in ExecRecords
      /\ e.text \in Seq(Nat) /\ e.calls \in Seq(Nat)
  BY TypesSplit, ExecEdit, Zenon DEF InferInv, InferTypes
<1>1. e.pc = "waiting" /\ e.run # 0
  BY <1>0, Zenon DEF ReadReply, MainTypes
<1>p. PICK r \in Reqs : r = Req(a) /\ r[1] = a /\ r[2] = e.run
  BY <1>0, <1>1, CurrentRequest, Zenon
<1> DEFINE rep == reply[r]
           new == Tail(reply[r])
<1>2. ReadsOne(a, r)
  BY <1>0, <1>p, ReadEffect, Zenon
<1>3. rep \in Seq(Messages) /\ rep # <<>> /\ reply \in [Reqs -> Seq(Messages)]
  BY <1>0, <1>2, Zenon DEF InferTypes, ReadsOne
<1>4. /\ new \in Seq(Messages) /\ Len(rep) \in Nat /\ Len(rep) > 0 /\ Head(rep) = rep[1]
      /\ Len(new) = Len(rep) - 1 /\ \A i \in 1 .. Len(new) : new[i] = rep[i + 1]
      /\ Head(rep) \in Messages
  BY <1>3, SMTT(30)
<1>5. reply'[r] = new /\ \A q \in Reqs : q # r => reply'[q] = reply[q]
  BY <1>2, <1>3, Zenon DEF ReadsOne
<1>6. Req(a)' = r /\ exec'[a].run = e.run
  BY <1>2, <1>p, Zenon DEF ReadsOne, Req
<1>7. InferTypes'
  <2>1. SideTypes'
    BY <1>0, <1>2, Zenon DEF SideTypes, ReadsOne
  <2>2. reply' \in [Reqs -> Seq(Messages)]
    BY <1>2, <1>3, <1>4, Zenon DEF ReadsOne
  <2>3. MainTypes'
    BY <1>0, <1>1, <1>2, <2>2, Zenon DEF MainTypes, ReadsOne, OnlyExec
  <2>4. QED
    BY <2>1, <2>3, Zenon DEF InferTypes, SideTypes, MainTypes
<1>8. OnlyAgent(a)
  BY <1>2, <1>5, <1>p, Zenon DEF OnlyAgent, ReadsOne, OnlyExec
<1>9. Linked(r) /\ a \notin Silent
  BY <1>3, <1>p, Zenon DEF InferInv, Linked
<1>10. ASSUME NEW q \in Reqs PROVE Linked(q)'
  <2>1. CASE q # r
    BY <1>2, <1>5, <2>1, SMTT(30) DEF InferInv, Linked, BothClosed, ReadsOne
  <2>2. CASE q = r
    <3>1. ASSUME NEW i \in 1 .. Len(new), new[i][1] = "done"
          PROVE  i = Len(new) /\ handler[r].pc \in {"finished", "rejected"}
      <4>1. i + 1 \in 1 .. Len(rep) /\ rep[i + 1][1] = "done"
        BY <1>4, <3>1, SMTT(30)
      <4>2. i + 1 = Len(rep) /\ handler[r].pc \in {"finished", "rejected"}
        BY <1>9, <4>1, Zenon DEF Linked
      <4>3. QED
        BY <1>4, <4>2, SMTT(30)
    <3>2. handler' = handler /\ proxy' = proxy /\ used' = used
      BY <1>2, Zenon DEF ReadsOne
    <3>3. QED
      BY <1>5, <1>9, <1>p, <2>2, <3>1, <3>2, Zenon DEF Linked, BothClosed
  <2>3. QED
    BY <2>1, <2>2, ZenonT(30)
<1>11. Queued'
  <2>1. ASSUME NEW q \in Reqs, Unused(q) PROVE Unused(q)'
    <3>1. q # r
      BY <1>3, <2>1, Zenon DEF Unused
    <3>2. QED
      BY <1>2, <1>5, <2>1, <3>1, Zenon DEF Unused, ReadsOne
  <2>2. ASSUME NEW i \in 1 .. Len(requests) PROVE requests[i].req \in Reqs
    <3>1. requests[i] \in Entries
      BY <1>0, SMTT(30) DEF MainTypes
    <3>2. QED
      BY <3>1, Zenon DEF Entries
  <2>3. ASSUME NEW q \in Reqs,
               q[2] > exec'[q[1]].run \/ (q[2] = exec'[q[1]].run /\ exec'[q[1]].pc = "held")
        PROVE  Unused(q) /\ \A i \in 1 .. Len(requests) : requests[i].req # q
    <3>1. q[1] \in Agents
      BY Zenon DEF Reqs
    <3>2. q[2] > exec[q[1]].run \/ (q[2] = exec[q[1]].run /\ exec[q[1]].pc = "held")
      BY <1>2, <2>3, <3>1, Zenon DEF ReadsOne, OnlyExec
    <3>3. QED
      BY <3>2, Zenon DEF InferInv, Queued
  <2>4. requests' = requests
    BY <1>2, Zenon DEF ReadsOne
  <2>5. QED
    BY <2>1, <2>2, <2>3, <2>4, Zenon DEF InferInv, Queued, Unused
<1>12. Kept(a)'
  <2>1. used' = used /\ handler' = handler /\ proxy' = proxy
    BY <1>2, Zenon DEF ReadsOne
  <2>2. SUFFICES ASSUME used.lost = 0
                 PROVE  \E p, q \in Nat : /\ Flow("token", exec'[a].text, new, p)
                                          /\ Flow("tool", exec'[a].calls, new, q)
                                          /\ Relayed(r, p, q)
    BY <1>5, <1>6, <2>1, Zenon DEF Kept, Relayed
  <2>3. PICK p \in Nat, q \in Nat :
           Flow("token", e.text, rep, p) /\ Flow("tool", e.calls, rep, q) /\ Relayed(r, p, q)
    BY <1>1, <1>p, <2>2, Zenon DEF InferInv, Kept
  <2>4. /\ Head(rep)[1] = "token" => Flow("token", Append(e.text, Head(rep)[2]), new, p)
        /\ Head(rep)[1] # "token" => Flow("token", e.text, new, p)
    BY <1>0, <1>3, <2>3, FlowRead, Zenon
  <2>5. /\ Head(rep)[1] = "tool" => Flow("tool", Append(e.calls, Head(rep)[2]), new, q)
        /\ Head(rep)[1] # "tool" => Flow("tool", e.calls, new, q)
    BY <1>0, <1>3, <2>3, FlowRead, Zenon
  <2>6. Flow("token", exec'[a].text, new, p) /\ Flow("tool", exec'[a].calls, new, q)
    BY <1>2, <2>4, <2>5, Zenon DEF ReadsOne
  <2>7. QED
    BY <2>3, <2>6, Zenon
<1>13. Told(a)'
  <2>1. CASE Head(rep)[1] = "done"
    <3>1. 1 = Len(rep) /\ handler[r].pc \in {"finished", "rejected"}
      <4>1. 1 \in 1 .. Len(rep) /\ rep[1][1] = "done"
        BY <1>4, <2>1
      <4>2. QED
        BY <1>9, <4>1, Zenon DEF Linked
    <3>2. new = <<>>
      BY <1>4, <3>1, SMTT(30)
    <3>3. /\ exec'[a].pc = "returned" /\ exec'[a].armed = e.armed
          /\ exec'[a].outcome = AfterDone(e) /\ handler' = handler
      BY <1>2, <2>1, Zenon DEF ReadsOne
    <3>4. QED
      BY <1>5, <1>6, <1>9, <3>1, <3>2, <3>3, Zenon DEF Told, AfterDone
  <2>2. CASE Head(rep)[1] # "done"
    BY <1>2, <2>2, Zenon DEF Told, ReadsOne
  <2>3. QED
    BY <2>1, <2>2, Zenon
<1>14. QED
  BY <1>7, <1>8, <1>10, <1>11, <1>12, <1>13, OneAgentKeeps, Zenon

-----------------------------------------------------------------------------
(* The exchange on a slot: the theorem *)

LEMMA InferInit == InferenceAssumption /\ Init => InferInv
<1> SUFFICES ASSUME InferenceAssumption, Init PROVE InferInv
  BY Zenon
<1>1. Idle \in ExecRecords /\ Idle.pc = "idle" /\ Idle.run = 0
  BY SMTT(30) DEF Idle, ExecRecords, InferenceAssumption
<1>2. NoProxy \in ProxyRecords /\ NoProxy.pc = "none"
  BY SMTT(30) DEF NoProxy, ProxyRecords
<1>3. NoHandler \in HandlerRecords /\ NoHandler.pc = "none"
  BY Zenon DEF NoHandler, HandlerRecords
<1>4. InferTypes
  <2>1. SideTypes
    BY Zenon DEF Init, SideTypes, Free
  <2>2. MainTypes
    BY <1>1, <1>2, <1>3 DEF Init, MainTypes
  <2>3. QED
    BY <2>1, <2>2, TypesSplit, Zenon
<1>5. Shape(NoProxy)
  BY SMTT(30) DEF Shape, NoProxy, EmT, EmC, Chan, InferenceAssumption
<1>6. \A r \in Reqs : Linked(r)
  BY <1>2, <1>3, <1>5, SMTT(30) DEF Init, Linked
<1>7. Queued
  BY <1>3, SMTT(30) DEF Init, Queued, Unused
<1>8. OneBusy
  BY <1>3, Zenon DEF Init, OneBusy, Busy
<1>9. \A a \in Agents : Kept(a) /\ Told(a)
  BY <1>1, Zenon DEF Init, Kept, Told
<1>10. QED
  BY <1>4, <1>6, <1>7, <1>8, <1>9, Zenon DEF InferInv

LEMMA InferStep == InferenceAssumption /\ InferInv /\ [Next]_vars => InferInv'
<1> SUFFICES ASSUME InferenceAssumption, InferInv, [Next]_vars PROVE InferInv'
  BY Zenon
<1>1. ASSUME NEW s \in Slots, NEW a \in Agents, GetSlot(a, s) PROVE InferInv'
  BY <1>1, GetSlotKeeps, Zenon
<1>2. ASSUME NEW s \in Slots, Commit(s) \/ Preempt(s) \/ TakeBack(s) PROVE InferInv'
  BY <1>2, SideStep, Zenon
<1>3. ASSUME NEW a \in Agents, Subscribe(a) \/ SetPreempted(a) PROVE InferInv'
  BY <1>3, SideStep, Zenon
<1>4. ASSUME NEW a \in Agents, StartExecute(a) PROVE InferInv'
  BY <1>4, StartKeeps, Zenon
<1>5. ASSUME NEW a \in Agents, ReadReply(a) PROVE InferInv'
  BY <1>5, ReadKeeps, Zenon
<1>6. ASSUME NEW a \in Agents, ReadNothing(a) \/ FinalizeDeadline(a) \/ GiveBack(a) PROVE InferInv'
  BY <1>6, QuietAgentKeeps, Zenon
<1>7. ASSUME HandleLLMRequest PROVE InferInv'
  BY <1>7, HandleKeeps, Zenon
<1>8. ASSUME NEW r \in Reqs, RelayToken(r) \/ RelayToolCall(r) PROVE InferInv'
  BY <1>8, RelayTokenKeeps, RelayToolCallKeeps, Zenon
<1>9. ASSUME NEW r \in Reqs, FinishRelay(r) \/ DrainTokens(r) \/ FinishDrain(r) PROVE InferInv'
  BY <1>9, FinishRelayKeeps, DrainKeeps, Zenon
<1>10. ASSUME NEW r \in Reqs, Proxy(r) PROVE InferInv'
  BY <1>10, ReaderKeeps, Zenon
<1>11. ASSUME CrashBroker PROVE InferInv'
  BY <1>11, CrashKeeps, Zenon
<1>12. ASSUME UNCHANGED vars PROVE InferInv'
  BY <1>12, SideStep, Zenon
<1>13. QED
  BY <1>1, <1>2, <1>3, <1>4, <1>5, <1>6, <1>7, <1>8, <1>9, <1>10, <1>11, <1>12, Zenon
     DEF Next, Broker

\* What a finished answer is made of.
LEMMA InferEnough == InferenceAssumption /\ InferInv => ExchangeSound
<1> SUFFICES ASSUME InferenceAssumption, InferInv PROVE ExchangeSound
  BY Zenon
<1>0. InferTypes /\ TokenCap \in Nat /\ ToolCap \in Nat
  BY Zenon DEF InferInv, InferenceAssumption
<1>1. TypeOK
  <2>1. ASSUME NEW r \in Reqs
        PROVE  Len(proxy[r].tokenCh) <= TokenCap /\ Len(proxy[r].toolCh) <= ToolCap
    BY Zenon DEF InferInv, Linked, Shape, Chan
  <2>2. QED
    BY <1>0, <2>1, Zenon DEF TypeOK, InferTypes
<1>2. OneStreamPerSlot
  BY Zenon DEF InferInv, OneBusy, OneStreamPerSlot
<1>3. ASSUME NEW a \in Agents, exec[a].run # 0, used.lost = 0
      PROVE  \E p, q \in Nat : /\ Flow("token", exec[a].text, reply[Req(a)], p)
                               /\ Flow("tool", exec[a].calls, reply[Req(a)], q)
                               /\ Relayed(Req(a), p, q)
  BY <1>3, Zenon DEF InferInv, Kept
<1>4. ASSUME NEW a \in Agents, exec[a].pc # "idle"
      PROVE  /\ exec[a].run # 0 /\ Req(a) \in Reqs /\ proxy[Req(a)] \in ProxyRecords
             /\ exec[a].text \in Seq(Nat) /\ exec[a].calls \in Seq(Nat) /\ Linked(Req(a))
  <2>1. exec[a].run # 0
    BY <1>0, <1>4, Zenon DEF InferTypes
  <2>2. Req(a) \in Reqs
    BY <1>0, <2>1, CurrentRequest, Zenon
  <2>3. QED
    BY <1>0, <2>1, <2>2, ExecEdit, Zenon DEF InferInv, InferTypes
<1>5. ASSUME NEW got \in Seq(Nat), NEW kind, NEW rep, NEW p \in Nat, Flow(kind, got, rep, p)
      PROVE  got = Upto(Len(got)) /\ Len(got) <= p /\ (rep = <<>> => Len(got) = p)
  <2>1. Len(got) \in Nat /\ Len(got) <= p
    BY <1>5, SMTT(30) DEF Flow
  <2>2. got = Upto(Len(got))
    BY <1>5 DEF Flow, Upto
  <2>3. ASSUME rep = <<>>, Len(got) # p PROVE FALSE
    <3>1. p \in (Len(got) + 1) .. p
      BY <2>1, <2>3, SMTT(30)
    <3>2. PICK i \in 1 .. Len(rep) : rep[i][1] = kind
      BY <1>5, <3>1, Zenon DEF Flow
    <3>3. QED
      BY <2>3, <3>2
  <2>4. QED
    BY <2>1, <2>2, <2>3, Zenon
<1>6. ASSUME NEW a \in Agents, exec[a].pc = "returned", exec[a].outcome = "ok", Whole(Req(a))
      PROVE  /\ exec[a].text = Upto(proxy[Req(a)].tokens)
             /\ exec[a].calls = Upto(proxy[Req(a)].tools)
  <2>1. /\ exec[a].run # 0 /\ Linked(Req(a)) /\ used.lost = 0 /\ handler[Req(a)].pc = "finished"
        /\ exec[a].text \in Seq(Nat) /\ exec[a].calls \in Seq(Nat)
    BY <1>4, <1>6, Zenon DEF Whole
  <2>2. a \notin Silent /\ reply[Req(a)] = <<>> /\ Req(a)[1] = a
    BY <1>6, Zenon DEF InferInv, Told, Req
  <2>3. PICK p \in Nat, q \in Nat : /\ Flow("token", exec[a].text, reply[Req(a)], p)
                                    /\ Flow("tool", exec[a].calls, reply[Req(a)], q)
                                    /\ Relayed(Req(a), p, q)
    BY <1>3, <2>1, Zenon
  <2>4. BothClosed(Req(a))
    BY <2>1, Zenon DEF Linked
  <2>5. p = EmT(proxy[Req(a)]) - 0 /\ q = EmC(proxy[Req(a)]) - 0
    BY <2>1, <2>2, <2>3, <2>4, Zenon DEF Relayed, BothClosed
  <2>6. EmT(proxy[Req(a)]) = proxy[Req(a)].tokens /\ EmC(proxy[Req(a)]) = proxy[Req(a)].tools
    BY <2>4, Zenon DEF EmT, EmC, BothClosed
  <2>7. proxy[Req(a)].tokens \in Nat /\ proxy[Req(a)].tools \in Nat
    BY <1>4, <1>6, ProxyEdit, Zenon
  <2>8. p = proxy[Req(a)].tokens /\ q = proxy[Req(a)].tools
    BY <2>5, <2>6, <2>7
  <2>9. /\ exec[a].text = Upto(Len(exec[a].text)) /\ Len(exec[a].text) = p
        /\ exec[a].calls = Upto(Len(exec[a].calls)) /\ Len(exec[a].calls) = q
    BY <1>5, <2>1, <2>2, <2>3, SMTT(30)
  <2>10. QED
    BY <2>8, <2>9, Zenon
<1>7. ASSUME NEW a \in Agents, exec[a].pc = "returned"
      PROVE  /\ used.lost = 0 =>
                  /\ Len(exec[a].calls) <= proxy[Req(a)].tools \/ used.crashes > 0
                  /\ exec[a].calls = Upto(Len(exec[a].calls))
             /\ exec[a].armed => exec[a].outcome = "preempted"
  <2>1. exec[a].armed => exec[a].outcome = "preempted"
    BY <1>7, Zenon DEF InferInv, Told
  <2>2. ASSUME used.lost = 0
        PROVE  /\ Len(exec[a].calls) <= proxy[Req(a)].tools \/ used.crashes > 0
               /\ exec[a].calls = Upto(Len(exec[a].calls))
    <3>1. /\ exec[a].run # 0 /\ Linked(Req(a)) /\ proxy[Req(a)] \in ProxyRecords
          /\ exec[a].calls \in Seq(Nat)
      BY <1>4, <1>7, Zenon
    <3>2. PICK p \in Nat, q \in Nat : /\ Flow("tool", exec[a].calls, reply[Req(a)], q)
                                      /\ Relayed(Req(a), p, q)
      BY <1>3, <2>2, <3>1, Zenon
    <3>3. exec[a].calls = Upto(Len(exec[a].calls)) /\ Len(exec[a].calls) <= q
      BY <1>5, <3>1, <3>2, Zenon
    <3>4. /\ proxy[Req(a)].tools \in Nat /\ proxy[Req(a)].emitted \in Nat
          /\ Len(proxy[Req(a)].toolCh) \in Nat
      <4>1. /\ proxy[Req(a)].tools \in Nat /\ proxy[Req(a)].emitted \in Nat
            /\ proxy[Req(a)].toolCh \in Seq(Nat)
        BY <3>1, ProxyEdit, Zenon
      <4>2. QED
        BY <4>1
    <3>5. EmC(proxy[Req(a)]) <= proxy[Req(a)].tools /\ EmC(proxy[Req(a)]) \in Nat
      BY <3>1, <3>4 DEF Linked, Shape, EmC
    <3>6. q <= proxy[Req(a)].tools \/ used.crashes > 0
      <4>1. CASE handler[Req(a)].pc = "crashed"
        BY <3>1, <4>1, Zenon DEF Linked
      <4>2. CASE Req(a)[1] \in Silent
        BY <3>2, <3>4, <4>2, SMTT(30) DEF Relayed
      <4>3. CASE handler[Req(a)].pc # "crashed" /\ Req(a)[1] \notin Silent
        BY <3>2, <3>4, <3>5, <4>3, SMTT(30) DEF Relayed
      <4>4. QED
        BY <4>1, <4>2, <4>3, Zenon
    <3>7. Len(exec[a].calls) \in Nat
      BY <3>1
    <3>8. QED
      BY <3>3, <3>4, <3>6, <3>7, SMTT(30)
  <2>3. QED
    BY <2>1, <2>2, Zenon
<1>8. AnswerComplete
  BY <1>6, Zenon DEF AnswerComplete
<1>9. PreemptionHonest
  BY <1>7, Zenon DEF PreemptionHonest
<1>10. QED
  BY <1>1, <1>2, <1>8, <1>9, Zenon DEF ExchangeSound

(***************************************************************************)
(* For any agents, slots and number of runs, whatever llama-server emits   *)
(* and whatever the capacities of the channels, and although the broker    *)
(* may crash, slots may be taken back and publishes may fail: an Execute   *)
(* (runtime.go) that reports success over a relayed answer                 *)
(* (handleLLMRequest, broker.go) has the whole text and every tool call,   *)
(* in order; a preempted one has a prefix of the calls and never reports   *)
(* success; and no two answers are generated on one slot at a time.        *)
(***************************************************************************)
THEOREM ExchangeIsSound == ASSUME InferenceAssumption PROVE Spec => []ExchangeSound
<1>1. Init => InferInv
  BY InferInit, Zenon
<1>2. InferInv /\ [Next]_vars => InferInv'
  BY InferStep, Zenon
<1>3. InferInv => ExchangeSound
  BY InferEnough, Zenon
<1>4. QED
  BY <1>1, <1>2, <1>3, PTL DEF Spec

=============================================================================
