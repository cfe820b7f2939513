----------------------------- MODULE LogHistory -----------------------------
(***************************************************************************)
(* GET /v1/logs/history (internal/gateway/logs.go): the newest entries of  *)
(* every log stream that match the filters, merged by their "time" field   *)
(* and cut to the limit.                                                   *)
(*                                                                         *)
(* The "time" of an entry is text: RFC3339Nano drops the trailing zeros of *)
(* the fraction and ends in Z, and the merge compares the text.  Here a    *)
(* time has two fractional digits of base TimeBase.                        *)
(***************************************************************************)
EXTENDS Naturals, Sequences, FiniteSets, SequencesExt

CONSTANTS
    Services,     \* services whose streams exist
    TimeBase,     \* number of values of a digit
    Clock,        \* the times lines can carry, as <<digit, digit>>
    Levels,       \* the levels lines carry, a subset of those below
    Correlations, \* correlation ids, as sequences of characters
    Filters,      \* the query parameters of a request
    Factor,       \* entries read per entry asked for (4)
    MaxEntries    \* bound: length of a stream

\* What the constants satisfy.
LogHistoryAssumption ==
    /\ Clock \subseteq (0 .. TimeBase - 1) \X (0 .. TimeBase - 1)
    /\ Factor \in Nat \ {0} /\ MaxEntries \in Nat

VARIABLE streams  \* service -> its entries, oldest first

\* A record the gateway can decode, or one it cannot.
Entries == [time : Clock, level : Levels, corr : Correlations, decodes : BOOLEAN]

Init == streams = [s \in Services |-> <<>>]

Earlier(t, u) == t[1] < u[1] \/ (t[1] = u[1] /\ t[2] < u[2])

\* A service logs: its lines carry times that do not go back.
Log(s, e) ==
    /\ Len(streams[s]) < MaxEntries
    /\ streams[s] # <<>> => ~Earlier(e.time, Last(streams[s]).time)
    /\ streams' = [streams EXCEPT ![s] = Append(@, e)]

Next == \E s \in Services, e \in Entries : Log(s, e)

Spec == Init /\ [][Next]_streams

-----------------------------------------------------------------------------
(* The request. *)

logLevels == [DEBUG |-> 0, INFO |-> 1, WARN |-> 2, ERROR |-> 3]
Known(level) == level \in DOMAIN logLevels

\* filterMatches.  An empty criterion lets everything through, and so does a
\* level that neither side knows.
filterMatches_Above(e, f) ==
    /\ (f.level # "" /\ Known(f.level) /\ Known(e.level))
            => logLevels[e.level] > logLevels[f.level]
    /\ IsPrefix(f.corr, e.corr)
filterMatches(e, f) ==
    /\ (f.level # "" /\ Known(f.level) /\ Known(e.level))
            => logLevels[e.level] >= logLevels[f.level]
    /\ IsPrefix(f.corr, e.corr)

\* XREVRANGE: the newest Factor * limit entries, newest first.
Window(s, limit) ==
    LET n == Len(streams[s])
        k == IF Factor * limit < n THEN Factor * limit ELSE n
    IN [i \in 1 .. k |-> [entry |-> streams[s][n - i + 1], service |-> s, id |-> n - i + 1]]

\* readStreamHistory: of those, the first limit that decode and match.
readStreamHistory(s, f) ==
    LET hits == SelectSeq(Window(s, f.limit),
                    LAMBDA r : r.entry.decodes /\ filterMatches(r.entry, f))
    IN SubSeq(hits, 1, IF Len(hits) < f.limit THEN Len(hits) ELSE f.limit)

\* The text of a time: its digits up to the last that is not zero, then Z,
\* which sorts after every digit.
Text(t) ==
    IF t[2] # 0 THEN <<t[1], t[2], TimeBase>>
    ELSE IF t[1] # 0 THEN <<t[1], TimeBase, TimeBase>>
    ELSE <<TimeBase, TimeBase, TimeBase>>

TextBefore(t, u) ==
    LET a == Text(t) b == Text(u)
    IN \E i \in 1 .. 3 : a[i] < b[i] /\ \A j \in 1 .. i - 1 : a[j] = b[j]

\* The rows of all services, as handleLogHistory appends them.
Gathered(f) ==
    LET ss == SetToSeq(Services)
    IN FlattenSeq([i \in DOMAIN ss |-> readStreamHistory(ss[i], f)])

\* sort.SliceStable by the text of the time.
StableSort(rows) ==
    LET before(i, j) == \/ TextBefore(rows[i].entry.time, rows[j].entry.time)
                        \/ /\ ~TextBefore(rows[j].entry.time, rows[i].entry.time)
                           /\ i < j
        perm == SetToSortSeq(DOMAIN rows, before)
    IN [i \in DOMAIN rows |-> rows[perm[i]]]

\* The newest limit rows of the merge.
Trimmed_Oldest(rows, limit) == SubSeq(rows, 1, limit)
Trimmed(rows, limit) == SubSeq(rows, Len(rows) - limit + 1, Len(rows))

handleLogHistory(f) ==
    LET rows == StableSort(Gathered(f))
    IN IF Len(rows) > f.limit THEN Trimmed(rows, f.limit) ELSE rows

-----------------------------------------------------------------------------
(* Properties *)

Rows(f) == {handleLogHistory(f)[i] : i \in DOMAIN handleLogHistory(f)}
Matching(f) ==
    {r \in UNION {{[entry |-> streams[s][i], service |-> s, id |-> i] :
                    i \in DOMAIN streams[s]} : s \in Services} :
        r.entry.decodes /\ filterMatches(r.entry, f)}

\* The streams hold records, and a response never exceeds its limit.
TypeOK ==
    /\ streams \in [Services -> Seq(Entries)]
    /\ \A f \in Filters : Len(handleLogHistory(f)) <= f.limit

\* A response holds the newest matching entries: when the scanned window is
\* the whole stream, no entry that matches and is left out is later than one
\* that is in, and nothing is left out while there is room (logs.go,
\* handleLogHistory, readStreamHistory).
HistoryNewest ==
    \A f \in Filters :
        (\A s \in Services : Len(streams[s]) <= Factor * f.limit) =>
            \A r \in Matching(f) \ Rows(f) :
                /\ Cardinality(Rows(f)) = f.limit
                /\ \A q \in Rows(f) : ~Earlier(q.entry.time, r.entry.time)

\* A stricter filter never finds an entry that a weaker one hides, and never
\* hides one that carries exactly the level and correlation id it asks for
\* (logs.go, filterMatches).
FilterMonotone ==
    \A f, g \in Filters :
        (/\ f.limit = g.limit /\ IsPrefix(g.corr, f.corr)
         /\ g.level = "" \/ (Known(f.level) /\ Known(g.level)
                             /\ logLevels[g.level] <= logLevels[f.level]))
            => /\ Matching(f) \subseteq Matching(g)
               /\ \A r \in Matching(g) : r.entry.level = f.level /\ IsPrefix(f.corr, r.entry.corr)
                                            => r \in Matching(f)
=============================================================================
