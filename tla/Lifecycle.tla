------------------------------ MODULE Lifecycle ------------------------------
(***************************************************************************)
(* What a consumer of a Valkey stream promises about a message, seen from  *)
(* outside: it is queued, taken once, in publication order, and then       *)
(* either handled or lost, never both and never again.  The promise ends   *)
(* when somebody destroys the consumer group; ConsumeStream implements it. *)
(***************************************************************************)
EXTENDS Naturals

CONSTANT Ids            \* the messages, numbered in publication order

VARIABLES
    fate,       \* fate[i]: where message i is in its life
    destroyed   \* whether the group was ever destroyed

Fates == {"new", "queued", "taken", "done", "lost"}

\* The moves one message may make.
Moves == {<<"new", "queued">>, <<"queued", "taken">>, <<"queued", "lost">>,
          <<"taken", "done">>, <<"taken", "lost">>}

Init == fate = [i \in Ids |-> "new"] /\ destroyed = FALSE

\* A step moves any number of messages; taking a message leaves none that was
\* published before it in the queue.
Advance ==
    /\ \A i \in Ids : fate'[i] # fate[i] => <<fate[i], fate'[i]>> \in Moves
    /\ \A i, j \in Ids :
         i < j /\ fate[j] = "queued" /\ fate'[j] = "taken"
            => fate'[i] \notin {"new", "queued"}

Step ==
    /\ fate' \in [Ids -> Fates] /\ destroyed' \in {destroyed, TRUE}
    /\ ~destroyed' => Advance

Settled(i) == fate[i] \in {"done", "lost"}

Spec == Init /\ [][Step]_<<fate, destroyed>>

\* And none stays in the queue for ever, if the consumer keeps running.
Settles == \A i \in Ids : fate[i] = "queued" ~> Settled(i) \/ destroyed
=============================================================================
