------------------------------ MODULE Transcript ------------------------------
(***************************************************************************)
(* How a conversation is written down and read back: the items of the      *)
(* Responses API as clients send them, the responses the gateway stores    *)
(* (internal/gateway/responses.go), the two ways history is rebuilt from   *)
(* them (GetSessionMessages in internal/response/store.go, chainToMessages *)
(* in the gateway) and the canonical form that is hashed to recognise a    *)
(* replayed conversation (internal/response/hash.go).                      *)
(*                                                                         *)
(* A conversation grows turn by turn.  The client keeps what it sent and   *)
(* what it was shown, and may re-encode it each time it replays it.  A     *)
(* text is a sequence of words; SHA-256 is taken to be injective.          *)
(***************************************************************************)
EXTENDS Naturals, Sequences, SequencesExt, TLC

CONSTANTS Texts, MaxTurns

VARIABLES client,   \* the items the client replays
          stored,   \* the session's responses
          indexed,  \* the canonical form last written to the stitch index
          said      \* what was said, in order: the reference

vars == <<client, stored, indexed, said>>

Empty == <<>>
Str(text) == [kind |-> "string", text |-> text]
Parts(ps) == [kind |-> "parts", parts |-> ps]
Part(type, text) == [type |-> type, text |-> text]
Item(type, role, content) == [type |-> type, role |-> role, content |-> content]

Init == client = <<>> /\ stored = <<>> /\ indexed = <<>> /\ said = <<>>

-----------------------------------------------------------------------------
(* hash.go *)

TextTypes == {"", "input_text", "output_text", "text"}

\* Texts joined by a single space; empty and unknown parts are skipped.
Join(ts) == FoldLeft(LAMBDA acc, t : acc \o (IF acc = Empty THEN t
                                             ELSE <<" ">> \o t), Empty, ts)

FlattenContent(c) ==
    IF c.kind = "string" THEN c.text
    ELSE LET shown == SelectSeq(c.parts, LAMBDA p : p.type \in TextTypes
                                                    /\ p.text # Empty)
         IN  Join([i \in DOMAIN shown |-> shown[i].text])

Lower == ("user" :> "user") @@ ("User" :> "user") @@ ("" :> "user")
         @@ ("assistant" :> "assistant")

\* StitchHash, before the digest.
Canonical_KeepEmpty(items) ==
    [i \in DOMAIN items |-> <<Lower[items[i].role], FlattenContent(items[i].content)>>]
Canonical(items) ==
    LET kept == SelectSeq(items, LAMBDA it : FlattenContent(it.content) # Empty)
    IN  [i \in DOMAIN kept |->
            <<Lower[kept[i].role], FlattenContent(kept[i].content)>>]

\* A call or a result of a tool keeps only its type: no role, no content.
OutputItemToInputItem(out) ==
    Item(out.type, IF out.type = "message" THEN "assistant" ELSE "",
         IF out.type = "message" THEN out.content ELSE Parts(<<>>))

-----------------------------------------------------------------------------
(* responses.go *)

currentTurnInput(items) == IF items = <<>> THEN <<>> ELSE <<Last(items)>>

textToOutputItems(text) ==
    <<Item("message", "assistant", Parts(<<Part("output_text", text)>>))>>

clientFacingOutput(items) ==
    SelectSeq(items, LAMBDA it : it.type \notin {"function_call",
                                                  "function_call_output"})

Msg(role, content) == [role |-> role, content |-> content]
Role(it) == IF it.role = "" THEN "user" ELSE it.role

inputItemsToMessages(items) ==
    [i \in DOMAIN items |-> Msg(Role(items[i]), FlattenContent(items[i].content))]

\* Parts are concatenated, without a space.
Concat(ps) == FoldLeft(LAMBDA acc, p : IF p.type \in {"output_text", "text"}
                                       THEN acc \o p.text ELSE acc, Empty, ps)

OutputMessage(out, text) ==
    CASE out.type = "function_call" -> <<Msg("call", Empty)>>
      [] out.type = "function_call_output" -> <<Msg("tool", Empty)>>
      [] OTHER -> IF text = Empty THEN <<>> ELSE <<Msg("assistant", text)>>

OutputText(out) == IF out.type = "message" THEN Concat(out.content.parts) ELSE Empty

chainToMessages_OutputOnly(chain) ==
    FlattenSeq([i \in DOMAIN chain |->
        FlattenSeq([j \in DOMAIN chain[i].output |->
            OutputMessage(chain[i].output[j], OutputText(chain[i].output[j]))])])
chainToMessages(chain) ==
    FlattenSeq([i \in DOMAIN chain |->
        inputItemsToMessages(chain[i].input)
        \o FlattenSeq([j \in DOMAIN chain[i].output |->
              OutputMessage(chain[i].output[j], OutputText(chain[i].output[j]))])])

\* store.go: the same, but empty inputs are dropped as well.
GetSessionMessages_ToolsLast(responses) ==
    LET plain(m) == m.role \notin {"call", "tool"}
        all == chainToMessages(responses)
    IN  SelectSeq(all, LAMBDA m : plain(m) /\ m.content # Empty)
        \o SelectSeq(all, LAMBDA m : ~plain(m))
GetSessionMessages(responses) ==
    FlattenSeq([i \in DOMAIN responses |->
        SelectSeq(inputItemsToMessages(responses[i].input),
                  LAMBDA m : m.content # Empty)
        \o FlattenSeq([j \in DOMAIN responses[i].output |->
              LET out == responses[i].output[j]
              IN  OutputMessage(out, IF out.type = "message"
                                     THEN FlattenContent(out.content)
                                     ELSE Empty)])])

-----------------------------------------------------------------------------
(* A turn. *)

\* What a client may send: a string, one part, or two, one of which is not text.
Encodings == 1..3
Encoded(e, text) == CASE e = 1 -> Str(text)
                      [] e = 2 -> Parts(<<Part("input_text", text)>>)
                      [] e = 3 -> Parts(<<Part("input_image", <<"img">>),
                                          Part("text", text)>>)

\* The client replays its items in an encoding of its choice.
Reencoded(e, items) ==
    [i \in DOMAIN items |-> Item("message", items[i].role,
                                 Encoded(e, FlattenContent(items[i].content)))]

Traces == {<<>>, <<"function_call", "function_call_output">>,
           <<"function_call", "function_call", "function_call_output">>}
ToolItems(trace) == [i \in DOMAIN trace |-> Item(trace[i], "", Parts(<<>>))]
ToolMessages(trace) == [i \in DOMAIN trace |->
    Msg(IF trace[i] = "function_call" THEN "call" ELSE "tool", Empty)]
Spoken(role, text) == IF text = Empty THEN <<>> ELSE <<Msg(role, text)>>

Turn(role, text, trace, answer) ==
    \E past, new \in Encodings :
        LET input == Append(Reencoded(past, client),
                            Item("message", role, Encoded(new, text)))
            output == ToolItems(trace) \o textToOutputItems(answer)
        IN  /\ client' = input \o clientFacingOutput(output)
            /\ stored' = Append(stored, [input |-> currentTurnInput(input),
                                         output |-> output])
            /\ indexed' = Canonical(input \o [i \in DOMAIN output |->
                                        OutputItemToInputItem(output[i])])
            /\ said' = said \o Spoken(Role([role |-> role]), text)
                            \o ToolMessages(trace) \o Spoken("assistant", answer)

Next == /\ Len(stored) < MaxTurns
        /\ \E role \in {"User", ""}, text \in Texts, trace \in Traces,
              answer \in Texts : Turn(role, text, trace, answer)

Spec == Init /\ [][Next]_vars

-----------------------------------------------------------------------------
\* Every turn is stored as one response that ends in one assistant message,
\* and the client is shown messages only.
TypeOK ==
    /\ Len(stored) <= MaxTurns
    /\ \A i \in DOMAIN stored : Last(stored[i].output).type = "message"
    /\ \A i \in DOMAIN client : client[i].type = "message"

\* A client that replays the conversation is recognised: the canonical form of
\* what it will send, in whatever encoding, is the one the gateway indexed,
\* although the indexed one was taken from the stored output with its calls
\* and results of tools.
ReplayRecognised ==
    stored # <<>> => \A e \in Encodings :
                        Canonical(Reencoded(e, client)) = indexed

\* The history read back from the store is what was said, calls and results of
\* tools included, in the order it was said.
HistoryIsSaid == GetSessionMessages(stored) = said

\* Walking the chain (chainToMessages, responses.go) gives the same history as
\* reading the session's list, but for inputs without text.
ChainAgrees ==
    SelectSeq(chainToMessages(stored),
              LAMBDA m : m.role \in {"call", "tool"} \/ m.content # Empty) = said
=============================================================================
