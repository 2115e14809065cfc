------------------------------- MODULE Lexer -------------------------------
(***************************************************************************)
(* The lexer of pkg/yang/lex.go.  It moves over the text of a file, and    *)
(* each call of its state function sends tokens into a channel: one token, *)
(* or as many errors as a string in double quotes has.  What the channel   *)
(* has no room for is dropped.                                             *)
(*                                                                         *)
(* A position in the text stands for the line and column of a token.       *)
(***************************************************************************)
EXTENDS Integers, SequencesExt, FiniteSetsExt

CONSTANTS
    Text,       \* the texts that a file may hold: sequences of characters
    MaxErrors,  \* maxErrors, which is also the capacity of the channel
    TabStop     \* the width of a tab

ASSUME LexerAssumption ==
    /\ Text \subseteq Seq(STRING)
    /\ MaxErrors \in Nat \ {0} /\ TabStop \in Nat \ {0}

VARIABLES
    input,      \* what the lexer reads, empty after too many errors
    pos,        \* the position of the next character
    tcol,       \* the column, tabs expanded, as far as the lexer keeps count
    state,      \* "ground", "quoted" or "nil"
    string,     \* lexQString: where it began, its indent and text, whether past the indent
    items,      \* the channel of tokens
    errcnt,     \* the errors so far
    inPattern,  \* set while the parser asks for the argument of a pattern
    lexed       \* history: every token, also one that was dropped

lexerVars == <<input, pos, tcol, state, string, items, errcnt, inPattern, lexed>>

-----------------------------------------------------------------------------
Eof == "eof"
White == {" ", "\t", "\r", "\n"}
Stops == White \cup {";", "\"", "'", "{", "}", Eof}

At(p) == IF p <= Len(input) THEN input[p] ELSE Eof

\* The position from p on where the predicate first holds, and whether s starts at p.
First(p, Holds(_)) == Min({q \in p .. Len(input) : Holds(q)} \cup {Len(input) + 1})
Starts(s, p) == \A n \in DOMAIN s : At(p + n - 1) = s[n]

\* l.next: the column after c, and after the text from p to before q.
Column(t, c) ==
    CASE c = "\n" -> 0
      [] c = "\t" -> (t \div TabStop + 1) * TabStop
      [] OTHER -> t + 1
ColumnAt(t, p, q) == FoldLeft(Column, t, SubSeq(input, p, q - 1))

Token(code, text, from, to) == [code |-> code, text |-> text, from |-> from, to |-> to]

\* emitText into the channel.
Sent(t) == IF Len(items) < MaxErrors THEN Append(items, t) ELSE items

Emit(t) ==
    /\ items' = Sent(t)
    /\ lexed' = Append(lexed, t)

\* Errorf, whose error is at p: after too many the input is cleared.
TooMany == errcnt = MaxErrors
Errorf(p) ==
    /\ Emit(Token("error", <<>>, p, p))
    /\ errcnt' = IF errcnt <= MaxErrors THEN errcnt + 1 ELSE errcnt
    /\ input' = IF TooMany THEN <<>> ELSE input

Moved(p) == IF TooMany THEN 1 ELSE p

-----------------------------------------------------------------------------
(* lexGround.  It skips white space first; Here is where the token starts. *)

NoString == [from |-> 0, indent |-> 0, text |-> <<>>, over |-> TRUE]

\* newLexer.
Terminated(t) == IF t # <<>> /\ Last(t) # "\n" THEN Append(t, "\n") ELSE t

LexerInit ==
    /\ input \in {Terminated(t) : t \in Text}
    /\ pos = 1 /\ tcol = 0 /\ state = "ground"
    /\ string = NoString
    /\ items = <<>> /\ errcnt = 0 /\ inPattern = FALSE
    /\ lexed = <<>>

InGround == state = "ground" /\ items = <<>>

Here == First(pos, LAMBDA q : input[q] \notin White)
HereColumn == ColumnAt(tcol, pos, Here)

\* Mutant: the lexer does not stop.
NotStopped == "ground"
Stopped == "nil"

EndOfText ==
    /\ InGround /\ At(Here) = Eof
    /\ pos' = Here /\ tcol' = HereColumn
    /\ state' = Stopped
    /\ UNCHANGED <<input, string, items, errcnt, inPattern, lexed>>

Punctuation ==
    /\ InGround /\ At(Here) \in {";", "{", "}"}
    /\ Emit(Token(At(Here), <<>>, Here, Here + 1))
    /\ pos' = Here + 1 /\ tcol' = HereColumn + 1
    /\ UNCHANGED <<input, state, string, errcnt, inPattern>>

\* What skipTo passes is not counted in tcol, only the quotes are.
SingleQuoted ==
    /\ InGround /\ At(Here) = "'"
    /\ LET end == First(Here + 1, LAMBDA q : input[q] = "'")
       IN  IF At(end) = "'"
           THEN /\ Emit(Token("string", SubSeq(input, Here + 1, end - 1), Here, end + 1))
                /\ pos' = end + 1 /\ tcol' = HereColumn + 2
                /\ UNCHANGED <<input, state, errcnt>>
           ELSE /\ Errorf(Here)
                /\ pos' = Moved(Here + 1) /\ tcol' = HereColumn + 1 /\ state' = "nil"
    /\ UNCHANGED <<string, inPattern>>

\* The end of the comment that starts at p: the newline, or after "*/", which the first
\* star of the comment may begin.
CommentEnd(p) ==
    IF At(p + 1) = "/"
    THEN First(p, LAMBDA q : input[q] = "\n")
    ELSE First(p + 1, LAMBDA q : Starts(<<"*", "/">>, q)) + 2

IsComment(p) == At(p) = "/" /\ At(p + 1) \in {"/", "*"}

Comment ==
    /\ InGround /\ IsComment(Here)
    /\ IF CommentEnd(Here) <= Len(input)
       THEN /\ pos' = CommentEnd(Here)
            /\ tcol' = HereColumn + (IF At(Here + 1) = "/" THEN 1 ELSE 3)
            /\ UNCHANGED <<input, state, items, errcnt, lexed>>
       ELSE /\ Errorf(Here)
            /\ pos' = Moved(Here + 1) /\ tcol' = HereColumn + 1 /\ state' = "nil"
    /\ UNCHANGED <<string, inPattern>>

\* lexUnquoted, which also reads a lone "+".
Unquoted ==
    /\ InGround /\ At(Here) \notin Stops /\ ~ IsComment(Here)
    /\ LET end == First(Here + 1, LAMBDA q : input[q] \in Stops)
       IN  /\ Emit(Token("unquoted", SubSeq(input, Here, end - 1), Here, end))
           /\ pos' = end /\ tcol' = ColumnAt(HereColumn, Here, end)
    /\ UNCHANGED <<input, state, string, errcnt, inPattern>>

Quote ==
    /\ InGround /\ At(Here) = "\""
    /\ pos' = Here + 1 /\ tcol' = HereColumn + 1
    /\ state' = "quoted"
    /\ string' = [from |-> Here, indent |-> HereColumn + 1, text |-> <<>>, over |-> TRUE]
    /\ UNCHANGED <<input, items, errcnt, inPattern, lexed>>

-----------------------------------------------------------------------------
(* lexQString, one turn of its loop at a time *)

Blank == {" ", "\t"}
Escapes == [n |-> "\n", t |-> "\t"] @@ ("\"" :> "\"") @@ ("\\" :> "\\")

Advance(n) == pos' = pos + n /\ tcol' = ColumnAt(tcol, pos, pos + n)

Unterminated ==
    /\ state = "quoted" /\ At(pos) = Eof
    /\ Errorf(string.from)
    /\ pos' = Moved(pos)
    /\ state' = "nil" /\ string' = NoString
    /\ UNCHANGED <<tcol, inPattern>>

Unquote ==
    /\ state = "quoted" /\ At(pos) = "\""
    /\ Emit(Token("string", string.text, string.from, pos + 1))
    /\ Advance(1)
    /\ state' = "ground" /\ string' = NoString
    /\ UNCHANGED <<input, errcnt, inPattern>>

Trimmed(text) ==
    SubSeq(text, 1, Max({0} \cup {i \in DOMAIN text : text[i] \notin Blank}))

LineBreak ==
    /\ state = "quoted" /\ At(pos) = "\n"
    /\ string' = [string EXCEPT !.text = Append(Trimmed(@), "\n"), !.over = FALSE]
    /\ Advance(1)
    /\ UNCHANGED <<input, state, items, errcnt, inPattern, lexed>>

\* Whether a blank, which ends at column t, belongs to the indentation of its line.
\* Mutant: a blank in the column after the quote does as well.
InIndentToo(t) == ~ string.over /\ t <= string.indent + 1
InIndent(t) == ~ string.over /\ t <= string.indent

Indentation ==
    /\ state = "quoted" /\ At(pos) \in Blank
    /\ Advance(1)
    /\ InIndent(tcol')
    /\ UNCHANGED <<input, state, string, items, errcnt, inPattern, lexed>>

Character ==
    /\ state = "quoted" /\ At(pos) \notin {Eof, "\"", "\n", "\\"}
    /\ Advance(1)
    /\ At(pos) \in Blank => ~ InIndent(tcol')
    /\ string' = [string EXCEPT !.text = Append(@, At(pos)), !.over = TRUE]
    /\ UNCHANGED <<input, state, items, errcnt, inPattern, lexed>>

Escape ==
    /\ state = "quoted" /\ At(pos) = "\\" /\ At(pos + 1) \in DOMAIN Escapes
    /\ string' = [string EXCEPT !.text = Append(@, Escapes[At(pos + 1)]), !.over = TRUE]
    /\ Advance(2)
    /\ UNCHANGED <<input, state, items, errcnt, inPattern, lexed>>

\* Any other escape is kept with its backslash, and is an error outside patterns.  The
\* text ends with a newline, so that a character follows.
OtherEscape ==
    /\ state = "quoted" /\ At(pos) = "\\" /\ At(pos + 1) \notin DOMAIN Escapes
    /\ string' = [string EXCEPT !.text = @ \o <<"\\", At(pos + 1)>>, !.over = TRUE]
    /\ IF inPattern
       THEN Advance(2) /\ UNCHANGED <<input, items, errcnt, lexed>>
       ELSE /\ Errorf(pos)
            /\ pos' = Moved(pos + 2) /\ tcol' = ColumnAt(tcol, pos, pos + 2)
    /\ UNCHANGED <<state, inPattern>>

\* A step of NextToken, when the channel has nothing to return.
Lex ==
    \/ EndOfText \/ Punctuation \/ SingleQuoted \/ Comment \/ Unquoted \/ Quote
    \/ Unterminated \/ Unquote \/ LineBreak \/ Indentation \/ Character
    \/ Escape \/ OtherEscape

-----------------------------------------------------------------------------
(* What a string in double quotes means, said of the text it was written as *)

\* Of the string whose opening quote is at q: whether the character at i is escaped, and
\* whether it is a backslash that escapes the next.
Escaped(q, i) == (i - 1 - Max({q} \cup {j \in q + 1 .. i - 1 : input[j] # "\\"})) % 2 = 1
Escaping(q, i) == input[i] = "\\" /\ ~ Escaped(q, i)
Known(q, i) == Escaping(q, i) /\ input[i + 1] \in DOMAIN Escapes

LineStart(p) == Max({0} \cup {j \in 1 .. p - 1 : input[j] = "\n"}) + 1
ColumnOf(p) == ColumnAt(0, LineStart(p), p + 1)

Breaks(q, e) == {i \in q + 1 .. e - 1 : input[i] = "\n" /\ ~ Escaped(q, i)}

\* What the character at i adds to the text.
Meaning(q, i) ==
    IF Escaped(q, i) /\ Known(q, i - 1) THEN Escapes[input[i]] ELSE input[i]

\* White space after a line break, up to the column of the quote.
Leading(q, e, i) ==
    /\ ColumnOf(i) <= ColumnOf(q)
    /\ \E b \in Breaks(q, e) :
          b < i /\ \A j \in b + 1 .. i : input[j] \in Blank /\ ~ Escaped(q, j)

\* White space before a line break.
Trailing(q, e, i) ==
    \E b \in Breaks(q, e) :
        i < b /\ \A j \in i .. b - 1 : Known(q, j) \/ Meaning(q, j) \in Blank

Dequoted(q, e) ==
    LET kept == SelectSeq([n \in 1 .. e - q - 1 |-> q + n], LAMBDA i :
                    ~ Known(q, i) /\ ~ Leading(q, e, i) /\ ~ Trailing(q, e, i))
    IN  [n \in DOMAIN kept |-> Meaning(q, kept[n])]

IsQuoted(t) == t.code = "string" /\ input[t.from] = "\""

\* No comment and no string in single quotes ends on the line before q.
Counted(q) ==
    \A j \in LineStart(q) .. q - 1 : input[j] # "'" /\ ~ Starts(<<"*", "/">>, j)

\* A string in double quotes has the text that the standard gives it, in the comment above
\* lexQString: over any lines, tabs and escapes.  The lexer loses count of the column of
\* the quote, and so of the indentation, after a comment or a string in single quotes on
\* the same line.
StringText ==
    errcnt <= MaxErrors =>
        \A k \in DOMAIN lexed :
            LET t == lexed[k] IN
            IsQuoted(t) /\ Counted(t.from) => t.text = Dequoted(t.from, t.to - 1)
=============================================================================
