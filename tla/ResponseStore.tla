---------------------------- MODULE ResponseStore ----------------------------
(***************************************************************************)
(* internal/response/store.go and the session decision of                  *)
(* internal/gateway/responses.go: responses linked by previous_response_id,*)
(* the list of responses of each session, and the index from the hash of a *)
(* conversation to its session, by which clients that replay their history *)
(* are stitched to it.  Every Valkey command is a step of its own: a       *)
(* pipeline sends its commands in order but is no transaction.             *)
(*                                                                         *)
(* A turn and the response it saves have one name; a session is named      *)
(* after the turn that minted it.  The hash of a conversation is the       *)
(* sequence of its texts (see Transcript).                                 *)
(***************************************************************************)
EXTENDS Naturals, Sequences, SequencesExt, FiniteSets, Functions

CONSTANTS
    Turns, None,
    Text,           \* what was said in a turn
    AllowReplay,    \* clients may replay history instead of naming a response
    Branching,      \* ... and go on from one answer more than once
    MaxDeletes, MaxExpiries, MaxFaults

\* What the constants satisfy.
ResponseStoreAssumption ==
    /\ DOMAIN Text = Turns /\ None \notin Turns
    /\ {AllowReplay, Branching} \subseteq BOOLEAN
    /\ {MaxDeletes, MaxExpiries, MaxFaults} \subseteq Nat

Absent == [prev |-> None, sess |-> None]
NewTurn == [pc |-> "new", kind |-> "none", base |-> None, sess |-> None,
            prev |-> None, cursor |-> None, chain |-> <<>>]
NotDeleting == [pc |-> "idle", sess |-> None, ids |-> <<>>, broken |-> {}]

VARIABLES
    resp,       \* response:{id}, Absent when there is no such hash
    list,       \* session:{id}:responses
    index,      \* session_hash:{hash} -> session
    turn,       \* the gateway's handler of each turn
    conv,       \* the conversation as the client of the turn sees it
    known,      \* responses returned to clients
    saves,      \* the order in which responses were written
    del,        \* the DELETE /v1/sessions/{id} in progress
    used        \* [deletes, expiries, faults] so far

vars == <<resp, list, index, turn, conv, known, saves, del, used>>
store == <<resp, list, index, saves>>

Spend(what, limit) == used[what] < limit /\ used' = [used EXCEPT ![what] = @ + 1]
Stored(i) == resp[i] # Absent
Texts(c) == [i \in 1..Len(c) |-> Text[c[i]]]

Init ==
    /\ resp = [i \in Turns |-> Absent] /\ list = [s \in Turns |-> <<>>]
    /\ index = <<>> /\ turn = [t \in Turns |-> NewTurn]
    /\ conv = [t \in Turns |-> <<>>] /\ known = {} /\ saves = <<>>
    /\ del = NotDeleting /\ used = [deletes |-> 0, expiries |-> 0, faults |-> 0]

-----------------------------------------------------------------------------
(* decideSession. *)

Decide(t, d) == turn' = [turn EXCEPT ![t] = d]

\* One input item and no previous response: a new session.
Fresh(t) ==
    /\ turn[t].pc = "new"
    /\ conv' = [conv EXCEPT ![t] = <<t>>]
    /\ Decide(t, [NewTurn EXCEPT !.pc = "save", !.kind = "fresh", !.sess = t])
    /\ UNCHANGED <<store, known, del, used>>

\* Without Branching, clients go on from an answer at most once.
MayGoOn(u) == Branching \/ \A v \in Turns : turn[v].base # u

\* LookupSessionByPrefixHash over the replayed history; a miss mints a session.
Replay(t, u) ==
    LET key == Texts(conv[u])
        hit == key \in DOMAIN index
    IN  /\ AllowReplay /\ turn[t].pc = "new" /\ u \in known
        /\ MayGoOn(u)
        /\ conv' = [conv EXCEPT ![t] = Append(conv[u], t)]
        /\ Decide(t, [NewTurn EXCEPT
                        !.pc = IF hit THEN "last" ELSE "save",
                        !.kind = IF hit THEN "stitched" ELSE "minted",
                        !.base = u, !.sess = IF hit THEN index[key] ELSE t])
        /\ UNCHANGED <<store, known, del, used>>

\* GetLastResponseID of the session that was found.
LastOf_First(l) == IF l = <<>> THEN None ELSE Head(l)
LastOf(l) == IF l = <<>> THEN None ELSE Last(l)

GetLastResponseID(t) ==
    /\ turn[t].pc = "last"
    /\ Decide(t, [turn[t] EXCEPT !.pc = "save",
                                 !.prev = LastOf(list[turn[t].sess])])
    /\ UNCHANGED <<store, conv, known, del, used>>

\* InheritSessionID from the response the client names.
InheritSession_Fresh(t, u) == t
InheritSession(t, u) == resp[u].sess

Chained(t, u) ==
    /\ turn[t].pc = "new" /\ u \in known /\ MayGoOn(u)
    /\ conv' = [conv EXCEPT ![t] = Append(conv[u], t)]
    /\ Decide(t, IF Stored(u)
                 THEN [NewTurn EXCEPT !.pc = "walk", !.kind = "chained",
                          !.base = u, !.prev = u, !.cursor = u,
                          !.sess = InheritSession(t, u)]
                 ELSE [NewTurn EXCEPT !.pc = "rejected"])
    /\ UNCHANGED <<store, known, del, used>>

ChainEnds_AtMissing(c) == c = None \/ ~Stored(c)
ChainEnds(c) == c = None

\* One Get of WalkChain; a missing response or a cycle is an error.
WalkChain(t) ==
    LET c == turn[t].cursor
    IN  /\ turn[t].pc = "walk"
        /\ Decide(t, CASE ChainEnds(c) -> [turn[t] EXCEPT !.pc = "save"]
                       [] ~ChainEnds(c) /\ Stored(c) /\ c \notin ToSet(turn[t].chain)
                            -> [turn[t] EXCEPT !.chain = Append(@, c),
                                               !.cursor = resp[c].prev]
                       [] OTHER -> [turn[t] EXCEPT !.pc = "rejected"])
        /\ UNCHANGED <<store, conv, known, del, used>>

-----------------------------------------------------------------------------
(* Save and writeStitchIndex, once the answer is there. *)

SaveOrder_ListFirst == [save |-> "list", push |-> "hash"]
SaveOrder == [save |-> "hash", push |-> "list"]

WriteHash(t) == /\ resp' = [resp EXCEPT ![t] = [prev |-> turn[t].prev,
                                                sess |-> turn[t].sess]]
                /\ saves' = Append(saves, t)
                /\ UNCHANGED <<list, index>>
ListKey(t) == turn[t].sess
WriteList(t) == /\ list' = [list EXCEPT ![ListKey(t)] = Append(@, t)]
                /\ UNCHANGED <<resp, saves, index>>

SaveCommand(t) ==
    /\ turn[t].pc \in {"save", "push"}
    /\ IF SaveOrder[turn[t].pc] = "hash" THEN WriteHash(t) ELSE WriteList(t)
    /\ Decide(t, [turn[t] EXCEPT !.pc = IF @ = "save" THEN "push" ELSE "index"])
    /\ UNCHANGED <<conv, known, del, used>>

\* The pipeline breaks off: logged, the client still gets its answer.
SaveFails(t) ==
    /\ turn[t].pc \in {"save", "push"} /\ Spend("faults", MaxFaults)
    /\ Decide(t, [turn[t] EXCEPT !.pc = "end"])
    /\ known' = known \cup {t}
    /\ UNCHANGED <<store, conv, del>>

\* The index is keyed by what the client sent and the answer: all of a
\* replayed conversation, only this turn of a chained one.
IndexKey(t) == IF turn[t].kind = "chained" THEN Texts(<<t>>) ELSE Texts(conv[t])

WriteStitchIndex(t) ==
    /\ turn[t].pc = "index"
    /\ index' = [k \in DOMAIN index \cup {IndexKey(t)} |->
                    IF k = IndexKey(t) THEN turn[t].sess ELSE index[k]]
    /\ Decide(t, [turn[t] EXCEPT !.pc = "end"])
    /\ known' = known \cup {t}
    /\ UNCHANGED <<resp, list, saves, conv, del, used>>

ExpireIndex(k) ==
    /\ Spend("expiries", MaxExpiries)
    /\ index' = Restrict(index, DOMAIN index \ {k})
    /\ UNCHANGED <<resp, list, saves, turn, conv, known, del>>

-----------------------------------------------------------------------------
(* handleDeleteSession. *)

SessionExists(s) == list[s] # <<>>

\* SessionExists, then the LRANGE of DeleteSession.
DeleteSession(s) ==
    /\ del.pc = "idle" /\ SessionExists(s) /\ Spend("deletes", MaxDeletes)
    /\ del' = [del EXCEPT !.pc = "hashes", !.sess = s, !.ids = list[s]]
    /\ UNCHANGED <<store, turn, conv, known>>

DeleteHash ==
    /\ del.pc = "hashes" /\ del.ids # <<>>
    /\ resp' = [resp EXCEPT ![Head(del.ids)] = Absent]
    /\ del' = [del EXCEPT !.ids = Tail(@)]
    /\ UNCHANGED <<list, index, saves, turn, conv, known, used>>

DeleteList ==
    /\ del.pc = "hashes" /\ del.ids = <<>>
    /\ list' = [list EXCEPT ![del.sess] = <<>>]
    /\ del' = [NotDeleting EXCEPT !.broken = del.broken]
    /\ UNCHANGED <<resp, index, saves, turn, conv, known, used>>

\* The pipeline breaks off: 500, and the list may name deleted responses.
DeleteFails ==
    /\ del.pc = "hashes" /\ Spend("faults", MaxFaults)
    /\ del' = [NotDeleting EXCEPT !.broken = del.broken \cup {del.sess}]
    /\ UNCHANGED <<store, turn, conv, known>>

Next ==
    \/ \E t \in Turns :
         \/ Fresh(t) \/ GetLastResponseID(t) \/ WalkChain(t)
         \/ SaveCommand(t) \/ SaveFails(t) \/ WriteStitchIndex(t)
         \/ DeleteSession(t)
         \/ \E u \in Turns : Replay(t, u) \/ Chained(t, u)
    \/ DeleteHash \/ DeleteList \/ DeleteFails
    \/ \E k \in DOMAIN index : ExpireIndex(k)

Spec == Init /\ [][Next]_vars

-----------------------------------------------------------------------------
\* The variables keep their types: a response and its list name one session.
TypeOK ==
    /\ \A i \in Turns : Stored(i) => resp[i].sess = turn[i].sess
    /\ \A s \in Turns : /\ IsInjective(list[s])
                        /\ \A i \in ToSet(list[s]) : turn[i].sess = s
    /\ known \subseteq Turns /\ IsInjective(saves)

\* A previous_response_id always points to a response of the same session
\* that was written earlier, whatever turns run at the same time: chains are
\* acyclic and never leave their session, so WalkChain's cycle error cannot
\* happen.
ChainSound ==
    \A i \in 1..Len(saves) :
        LET p == turn[saves[i]].prev
        IN  p # None => /\ \E j \in 1..(i - 1) : saves[j] = p
                        /\ turn[p].sess = turn[saves[i]].sess

\* A response named by a session's list has its hash, except while that
\* session is being deleted or after its deletion broke off: readers of the
\* list find what it names.
ListedIsStored ==
    \A s \in Turns : \A i \in ToSet(list[s]) :
        Stored(i) \/ del.sess = s \/ s \in del.broken

\* The history a chained turn is answered with is the conversation its client
\* saw, or the turn is rejected: also while sessions are deleted.
ChainIsConversation ==
    \A t \in Turns :
        turn[t].kind = "chained" /\ turn[t].pc \in {"save", "push", "index", "end"}
            => Append(Reverse(turn[t].chain), t) = conv[t]

\* A client that replays its conversation, going on from its last answer, is
\* stitched into one session whose chain is that conversation, as if it had
\* named the response.
StitchedLinks ==
    \A t \in Turns :
        turn[t].kind = "stitched" /\ turn[t].pc \in {"push", "index", "end"}
            => /\ turn[t].prev = turn[t].base
               /\ turn[t].sess = turn[turn[t].base].sess
=============================================================================
