---------------------------- MODULE CappedOutput ----------------------------
(***************************************************************************)
(* What of a subprocess's output reaches the envelope (cappedBuffer in     *)
(* internal/exec/runner.go).  The process writes chunks of bytes; Write    *)
(* keeps the first Cap of them, and String trims the kept bytes to text.   *)
(*                                                                         *)
(* A byte is "a" (a character of its own), "L" (the first byte of a        *)
(* two-byte character), "c" (a continuation byte) or "x" (no UTF-8 at all).*)
(***************************************************************************)
EXTENDS Naturals, Sequences, FiniteSetsExt

CONSTANTS
    Cap,        \* StdoutCapBytes or StderrCapBytes
    Bytes,      \* the bytes a process may write
    MaxTotal    \* bound: bytes written

\* What the constants satisfy.
CappedOutputAssumption ==
    /\ Cap \in Nat /\ MaxTotal \in Nat /\ Bytes \subseteq {"a", "L", "c", "x"}

VARIABLES
    written,    \* everything the process wrote, as the .stdout file holds it
    buf,        \* cappedBuffer.buf
    truncated   \* cappedBuffer.truncated

outputVars == <<written, buf, truncated>>

OutputInit == written = <<>> /\ buf = <<>> /\ truncated = FALSE

\* utf8.Valid: characters of one byte, and L followed by c.
Valid(s) ==
    \A i \in DOMAIN s :
        \/ s[i] = "a"
        \/ s[i] = "L" /\ i < Len(s) /\ s[i + 1] = "c"
        \/ s[i] = "c" /\ i > 1 /\ s[i - 1] = "L"

Room_OneMore == Cap + 1 - Len(buf)
Room == Cap - Len(buf)

\* Write: all of the chunk, the part of it that fits, or nothing.
Over_Full(p) == Room = 0
Over(p) == Room <= 0 \/ Len(p) > Room

Write(p) ==
    /\ Len(written) + Len(p) <= MaxTotal
    /\ written' = written \o p
    /\ buf' = IF Room <= 0 THEN buf ELSE buf \o SubSeq(p, 1, Min({Len(p), Room}))
    /\ truncated' = (truncated \/ Over(p))

\* String: the longest valid prefix, unless only the empty one is valid.
Trimmed_Whole(data) == data
Trimmed(data) ==
    LET good == {i \in 1 .. Len(data) : Valid(SubSeq(data, 1, i))} IN
    IF Valid(data) \/ good = {} THEN data ELSE SubSeq(data, 1, Max(good))

Text == Trimmed(buf)

Chunks == UNION {[1 .. n -> Bytes] : n \in 1 .. 3}
OutputNext == \E p \in Chunks : Write(p)
OutputSpec == OutputInit /\ [][OutputNext]_outputVars

-----------------------------------------------------------------------------
(* Properties *)

\* However the output was cut into writes, the buffer holds its first Cap
\* bytes.
OutputTypeOK == buf = SubSeq(written, 1, Min({Cap, Len(written)}))

\* The flag is raised exactly when the process wrote more than the cap.
TruncatedExact == truncated <=> Len(written) > Cap

\* Text that the process wrote as valid UTF-8 is never handed over broken:
\* the cap may cut one character in two, and then only its bytes are lost.
\* (A cap smaller than the first character keeps its bytes as they are.)
WholeCharacters ==
    Valid(written) /\ Len(buf) >= 2 => Valid(Text) /\ Len(buf) - Len(Text) <= 1

\* The truncation flag says exactly that output was lost to the cap, however it
\* was split into writes, and valid text is handed over without half a
\* character at the cut (runner.go, cappedBuffer).
OutputExact == OutputTypeOK /\ TruncatedExact /\ WholeCharacters
=============================================================================
