------------------------------- MODULE Indent -------------------------------
(***************************************************************************)
(* pkg/indent: a writer that puts a prefix before each line.  Entry.Print  *)
(* and the node printer give such a writer another as the one below it, so *)
(* here is a stack of them, with an io.Writer at the bottom (level 0) that *)
(* may take only some of the bytes and then returns an error.  The callers *)
(* do not look at the errors and go on writing.                            *)
(***************************************************************************)
EXTENDS Naturals, FiniteSets, SequencesExt

CONSTANTS
    Levels,     \* how many writers there are above the io.Writer
    Prefix,     \* the prefix of each of them
    Buffers,    \* what may be written
    MaxText     \* bound: bytes written in all

ASSUME LevelsAssumption ==
    /\ Levels \in Nat \ {0}
    /\ DOMAIN Prefix = 1 .. Levels
    /\ \A k \in 1 .. Levels : Prefix[k] # <<>> /\ "\n" \notin ToSet(Prefix[k])

VARIABLES
    partial,    \* for each writer: the next line's prefix has been written
    calls,      \* the calls of Write in progress, innermost last
    answer,     \* what the last call returned; "none" when a call is to be made
    text,       \* what has been written to the outermost writer
    sent,       \* what the io.Writer has taken
    failed      \* the io.Writer has returned an error

vars == <<partial, calls, answer, text, sent, failed>>

NL == "\n"

\* SplitAfter without an empty last line.
LineEnds(buf) == {i \in DOMAIN buf : buf[i] = NL \/ i = Len(buf)}
SplitAfter(buf) ==
    LET ends == SetToSortSeq(LineEnds(buf), <)
        first(j) == IF j = 1 THEN 1 ELSE ends[j - 1] + 1
    IN  [j \in DOMAIN ends |-> SubSeq(buf, first(j), ends[j])]

Join(lines, sep) ==
    Head(lines) \o FlattenSeq([j \in DOMAIN Tail(lines) |-> sep \o lines[j + 1]])

\* String and Bytes.
String(indent, s) == IF s = <<>> THEN s ELSE Join(<<<<>>>> \o SplitAfter(s), indent)

\* The lines Write joins: an empty one before them has the prefix put first.
\* Mutant: the prefix is put first always.
AlwaysFirst(buf, within) == <<<<>>>> \o SplitAfter(buf)
Lines(buf, within) == IF within THEN SplitAfter(buf) ELSE AlwaysFirst(buf, within)

\* actualWrittenSize: what is left of the count after each line and its prefix.
\* Mutant: the prefix is not taken off.
Unprefixed(remain, prefix) == remain
Addition(remain, prefix) == IF remain > prefix THEN remain - prefix ELSE 0
ActualWrittenSize(underlay, prefix, lines) ==
    LET Count(sum, line) ==
            LET addition == Addition(sum.remain, prefix)
            IN  IF line = <<>> THEN sum
                ELSE IF addition <= Len(line)
                     THEN [actual |-> sum.actual + addition, remain |-> 0]
                     ELSE [actual |-> sum.actual + Len(line), remain |-> addition - Len(line)]
    IN  FoldLeft(Count, [actual |-> 0, remain |-> underlay], lines).actual

-----------------------------------------------------------------------------
Top == calls[Len(calls)]
Joined(c) == Join(c.lines, Prefix[c.level])

\* What is written does not end its line.
Unfinished(joined) == Last(joined) # NL

NoAnswer == [count |-> 0, taken |-> 0, error |-> FALSE, waits |-> TRUE]

Call(k, buf) ==
    LET c == [level |-> k, buf |-> buf, within |-> partial[k], lines |-> Lines(buf, partial[k])]
    IN  /\ calls' = Append(calls, c)
        /\ partial' = [partial EXCEPT ![k] = Unfinished(Joined(c))]

Init ==
    /\ partial = [k \in 1 .. Levels |-> FALSE]
    /\ calls = <<>> /\ answer = NoAnswer
    /\ text = <<>> /\ sent = <<>> /\ failed = FALSE

\* An empty buffer changes nothing.
Write ==
    \E buf \in Buffers \ {<<>>} :
        /\ calls = <<>> /\ Len(text) + Len(buf) <= MaxText
        /\ Call(Levels, buf)
        /\ text' = text \o buf /\ answer' = NoAnswer
        /\ UNCHANGED <<sent, failed>>

WriteBelow ==
    /\ calls # <<>> /\ answer.waits /\ Top.level > 1
    /\ Call(Top.level - 1, Joined(Top))
    /\ UNCHANGED <<answer, text, sent, failed>>

\* The io.Writer takes everything, or returns an error and has taken n bytes.
Take(n, error) ==
    /\ sent' = sent \o SubSeq(Joined(Top), 1, n)
    /\ answer' = [count |-> n, taken |-> n, error |-> error, waits |-> FALSE]
    /\ failed' = (failed \/ error)
    /\ UNCHANGED <<partial, calls, text>>

AtBottom == calls # <<>> /\ answer.waits /\ Top.level = 1

TakeAll == AtBottom /\ Take(Len(Joined(Top)), FALSE)
TakeSome == AtBottom /\ \E n \in 0 .. Len(Joined(Top)) : Take(n, TRUE)

\* Which bytes of a call's buffer are among the first n of what it wrote below.
Starts(c, i) == {j \in 1 .. i : IF j = 1 THEN ~ c.within ELSE c.buf[j - 1] = NL}
Taken(c, n) ==
    {i \in DOMAIN c.buf : i + Len(Prefix[c.level]) * Cardinality(Starts(c, i)) <= n}

Return ==
    /\ calls # <<>> /\ ~ answer.waits
    /\ answer' =
           [answer EXCEPT
               !.count = IF answer.error
                         THEN ActualWrittenSize(@, Len(Prefix[Top.level]), Top.lines)
                         ELSE Len(Top.buf),
               !.taken = Cardinality(Taken(Top, @))]
    /\ calls' = Front(calls)
    /\ UNCHANGED <<partial, text, sent, failed>>

Next == Write \/ WriteBelow \/ TakeAll \/ TakeSome \/ Return

Spec == Init /\ [][Next]_vars

-----------------------------------------------------------------------------
\* Each byte that begins a line has the prefix before it.
Indented(s, indent) ==
    FlattenSeq([i \in DOMAIN s |->
        (IF i = 1 \/ s[i - 1] = NL THEN indent ELSE <<>>) \o <<s[i]>>])

AllPrefixes(s) ==
    FoldLeft(LAMBDA t, k : Indented(t, Prefix[k]), s, Reverse([k \in 1 .. Levels |-> k]))
Strings(s) ==
    FoldLeft(LAMBDA t, k : String(Prefix[k], t), s, Reverse([k \in 1 .. Levels |-> k]))

\* As long as nothing fails, what has reached the io.Writer when no call is in
\* progress is all that has been written with each line's prefixes before it,
\* wherever the lines were cut into buffers, and String makes the same of it
\* (TestIndent and TestWriter of indent_test.go, for one writer).
LinesIndented ==
    calls = <<>> /\ ~ failed => sent = AllPrefixes(text) /\ Strings(text) = AllPrefixes(text)

\* The count that Write returns is never more than the bytes of the buffer that
\* have got to the io.Writer, at any level, also after earlier writes have failed.
\* Without an error it is all of them.  (It may be less: when the line was begun by
\* an earlier call, actualWrittenSize subtracts a prefix that was not written.)
NeverOvercounted ==
    ~ answer.waits =>
        /\ answer.count <= answer.taken
        /\ ~ answer.error => answer.count = answer.taken
=============================================================================
