------------------------------- MODULE Parser -------------------------------
(***************************************************************************)
(* Parse of pkg/yang/parse.go: from the tokens of the lexer to a forest of *)
(* statements.  next() looks up to two tokens ahead for strings that are   *)
(* concatenated, and pushes back those that are not.  nextStatement        *)
(* recurses into the statements between braces; after an error it goes on, *)
(* so that one call reports as many errors as it can.                      *)
(*                                                                         *)
(* The recursion of nextStatement is the sequence of the statements whose  *)
(* braces are open.  One behaviour is one call of Parse.                   *)
(***************************************************************************)
EXTENDS Lexer

CONSTANT Pattern  \* the keyword "pattern"

ASSUME ParserAssumption == Pattern \in Seq(STRING)

VARIABLES
    tokens,     \* tokens pushed back, the next one last
    held,       \* the string that next() has read, and the "+" after it
    got,        \* what next() has returned: nothing yet, or one token
    want,       \* where nextStatement is: what the next token is to it
    cur,        \* the statement it reads
    open,       \* the statements whose braces are open, outermost first
    forest,     \* the statements that Parse has collected
    depth,      \* statementDepth
    complained, \* whether the parser has written an error
    read        \* history: what next() has returned

parserVars == <<tokens, held, got, want, cur, open, forest, depth, complained, read>>
vars == <<lexerVars, parserVars>>

EofToken == [code |-> "eof", text |-> <<>>, from |-> 0, to |-> 0]
Statement(keyword, arg, subs) == [keyword |-> keyword, arg |-> arg, subs |-> subs]

\* ignoreMe.
IgnoreMe == Statement(<<>>, <<>>, <<>>)

Init ==
    /\ LexerInit
    /\ tokens = <<>> /\ held = <<>> /\ got = <<>>
    /\ want = "keyword" /\ cur = IgnoreMe
    /\ open = <<>> /\ forest = <<>>
    /\ depth = 0 /\ complained = FALSE
    /\ read = <<>>

-----------------------------------------------------------------------------
(* next *)

Asking == want \in {"keyword", "argument", "end"} /\ got = <<>>

LexStep ==
    /\ Asking /\ tokens = <<>>
    /\ Lex
    /\ UNCHANGED parserVars

\* NextToken returns t.
NextToken(t) ==
    /\ Asking /\ tokens = <<>> /\ state # "quoted"
    /\ IF items # <<>>
       THEN t = Head(items) /\ items' = Tail(items)
       ELSE state = "nil" /\ t = EofToken /\ UNCHANGED items
    /\ UNCHANGED <<input, pos, tcol, state, string, errcnt, inPattern, lexed>>
    /\ UNCHANGED <<want, cur, open, forest, depth, complained>>

Ready == IF items # <<>> THEN Head(items) ELSE EofToken

IsString(t) == t.code = "string"
IsPlus(t) == t.code = "unquoted" /\ t.text = <<"+">>

\* next() returns t.
Got(t) ==
    /\ got' = <<t>>
    /\ read' = IF t.code = "eof" THEN read ELSE Append(read, t)

Pop ==
    /\ Asking /\ tokens # <<>>
    /\ Got(Last(tokens)) /\ tokens' = Front(tokens)
    /\ UNCHANGED <<lexerVars, held, want, cur, open, forest, depth, complained>>

SkipError ==
    /\ NextToken(Ready) /\ Ready.code = "error"
    /\ UNCHANGED <<tokens, held, got, read>>

FirstToken ==
    /\ NextToken(Ready) /\ Ready.code # "error"
    /\ held = <<>>
    /\ IF IsString(Ready)
       THEN held' = <<Ready>> /\ UNCHANGED <<got, read>>
       ELSE Got(Ready) /\ UNCHANGED held
    /\ UNCHANGED tokens

\* What is pushed back when t follows the tokens s and is not concatenated.
\* Mutant: in the wrong order.
PushedInOrder(s, t) == IF t.code = "eof" THEN s ELSE s \o <<t>>
Pushed(s, t) == IF t.code = "eof" THEN s ELSE <<t>> \o s

PlusToken ==
    /\ NextToken(Ready) /\ Ready.code # "error"
    /\ Len(held) = 1
    /\ IF IsPlus(Ready)
       THEN held' = Append(held, Ready) /\ UNCHANGED <<tokens, got, read>>
       ELSE /\ tokens' = Pushed(<<>>, Ready)
            /\ Got(held[1]) /\ held' = <<>>

SecondToken ==
    /\ NextToken(Ready) /\ Ready.code # "error"
    /\ Len(held) = 2
    /\ IF IsString(Ready)
       THEN /\ held' = <<Token("string", held[1].text \o Ready.text, held[1].from, Ready.to)>>
            /\ UNCHANGED <<tokens, got, read>>
       ELSE /\ tokens' = Pushed(<<held[2]>>, Ready)
            /\ Got(held[1]) /\ held' = <<>>

-----------------------------------------------------------------------------
(* nextStatement *)

\* next() has returned a token of one of the codes.
Have(codes) == got # <<>> /\ got[1].code \in codes

\* Which of the calls is returned to: the innermost.  Mutant: the outermost.
Outermost(stack) == 1
Caller(stack) == Len(stack)

\* nextStatement returns s to the caller, which is Parse if no braces are open.
Return(stack, s) ==
    /\ want' = "keyword" /\ got' = <<>>
    /\ IF stack = <<>>
       THEN forest' = Append(forest, s) /\ open' = <<>>
       ELSE /\ open' = [stack EXCEPT ![Caller(stack)].subs = Append(@, s)]
            /\ UNCHANGED forest

\* Whether the argument of the keyword is a pattern.  Mutant: of the keyword before.
TakesPatternBefore(keyword) == cur.keyword = Pattern
TakesPattern(keyword) == keyword = Pattern

Keyword ==
    /\ want = "keyword" /\ Have({"unquoted"})
    /\ cur' = Statement(got[1].text, <<>>, <<>>)
    /\ inPattern' = TakesPattern(got[1].text)
    /\ want' = "argument" /\ got' = <<>>
    /\ UNCHANGED <<input, pos, tcol, state, string, items, errcnt, lexed>>
    /\ UNCHANGED <<tokens, held, open, forest, depth, complained, read>>

NoKeyword ==
    /\ want = "keyword" /\ Have({"string", ";", "{"})
    /\ complained' = TRUE
    /\ Return(open, IgnoreMe)
    /\ UNCHANGED <<lexerVars, tokens, held, cur, depth, read>>

\* hitBrace.
CloseBrace ==
    /\ want = "keyword" /\ Have({"}"})
    /\ depth' = depth - 1
    /\ IF open = <<>>
       THEN /\ complained' = TRUE
            /\ want' = "keyword" /\ got' = <<>>
            /\ UNCHANGED <<open, forest>>
       ELSE /\ Return(Front(open), Last(open))
            /\ UNCHANGED complained
    /\ UNCHANGED <<lexerVars, tokens, held, cur, read>>

Argument ==
    /\ want = "argument" /\ got # <<>>
    /\ inPattern' = FALSE
    /\ IF Have({"string", "unquoted"})
       THEN cur' = [cur EXCEPT !.arg = <<got[1].text>>] /\ got' = <<>>
       ELSE UNCHANGED <<cur, got>>
    /\ want' = "end"
    /\ UNCHANGED <<input, pos, tcol, state, string, items, errcnt, lexed>>
    /\ UNCHANGED <<tokens, held, open, forest, depth, complained, read>>

EndStatement ==
    /\ want = "end" /\ Have({";"})
    /\ Return(open, cur)
    /\ UNCHANGED <<lexerVars, tokens, held, cur, depth, complained, read>>

\* Mutant: braces are not counted.
NotDeeper == depth
Deeper == depth + 1

OpenBrace ==
    /\ want = "end" /\ Have({"{"})
    /\ depth' = Deeper
    /\ open' = Append(open, cur)
    /\ want' = "keyword" /\ got' = <<>>
    /\ UNCHANGED <<lexerVars, tokens, held, cur, forest, complained, read>>

NoEnd ==
    /\ want = "end" /\ Have({"string", "unquoted", "}"})
    /\ complained' = TRUE
    /\ Return(open, IgnoreMe)
    /\ UNCHANGED <<lexerVars, tokens, held, cur, depth, read>>

\* Every active call of nextStatement returns nil.
EndOfFile ==
    /\ want \in {"keyword", "end"} /\ Have({"eof"})
    /\ complained' = (complained \/ want = "end")
    /\ want' = "check" /\ got' = <<>>
    /\ UNCHANGED <<lexerVars, tokens, held, cur, open, forest, depth, read>>

\* checkStatementDepthIsZero.
Unclosed == errcnt = 0 /\ ~ complained /\ depth # 0

Check ==
    /\ want = "check"
    /\ complained' = (complained \/ Unclosed)
    /\ want' = "done"
    /\ UNCHANGED <<lexerVars, tokens, held, got, cur, open, forest, depth, read>>

Next ==
    \/ LexStep
    \/ Pop \/ SkipError \/ FirstToken \/ PlusToken \/ SecondToken
    \/ Keyword \/ NoKeyword \/ CloseBrace \/ Argument
    \/ EndStatement \/ OpenBrace \/ NoEnd \/ EndOfFile \/ Check

Spec == Init /\ [][Next]_vars /\ WF_vars(Next)

\* Parse returns the forest, and not an error.
Accepted == want = "done" /\ errcnt = 0 /\ ~ complained

-----------------------------------------------------------------------------
(* Properties *)

Codes == {"string", "unquoted", ";", "{", "}"}

\* The tokens of the text, errors left out.
Lexed == SelectSeq(lexed, LAMBDA t : t.code # "error")

\* The indices of l that the predicate holds for, in order.
Indices(l, Holds(_)) == SelectSeq([k \in DOMAIN l |-> k], Holds)

\* In a sequence of tokens: a string that is concatenated to the string before.
Chained(l, k) == k > 2 /\ IsString(l[k]) /\ IsPlus(l[k - 1]) /\ IsString(l[k - 2])

\* What the grammar sees of a token.
Word(t) == [code |-> t.code, text |-> t.text]
Words(l) == [n \in DOMAIN l |-> Word(l[n])]

\* The words w and the token t, which is concatenated if it is a string after a "+" after
\* a string.
Concatenates(w, t) ==
    IsString(t) /\ Len(w) > 1 /\ IsPlus(w[Len(w)]) /\ IsString(w[Len(w) - 1])
With(w, t) ==
    IF Concatenates(w, t)
    THEN Append(SubSeq(w, 1, Len(w) - 2),
                [code |-> "string", text |-> w[Len(w) - 1].text \o t.text])
    ELSE Append(w, Word(t))

\* The words of the tokens l: of the first k of them.
Concatenated(l) ==
    LET words[k \in 0 .. Len(l)] == IF k = 0 THEN <<>> ELSE With(words[k - 1], l[k])
    IN  words[Len(l)]

(* The grammar: statement = keyword [argument] (";" / "{" *statement "}") *)
Begins(w, i) == i = 1 \/ w[i - 1].code \in {";", "{", "}"}
IsKeyword(w, i) == Begins(w, i) /\ w[i].code = "unquoted"
IsArgument(w, i) == i > 1 /\ IsKeyword(w, i - 1) /\ w[i].code \in {"string", "unquoted"}
IsEnd(w, i) ==
    i > 1 /\ w[i].code \in {";", "{"} /\ (IsKeyword(w, i - 1) \/ IsArgument(w, i - 1))
IsClose(w, i) == Begins(w, i) /\ w[i].code = "}"

Number(w, i, code) == Cardinality({j \in 1 .. i : w[j].code = code})
Nesting(w, i) == Number(w, i, "{") - Number(w, i, "}")

WellFormed(w) ==
    /\ \A i \in DOMAIN w :
          IsKeyword(w, i) \/ IsArgument(w, i) \/ IsEnd(w, i) \/ IsClose(w, i)
    /\ w # <<>> => Last(w).code \in {";", "}"}
    /\ \A i \in DOMAIN w : Nesting(w, i) >= 0
    /\ Nesting(w, Len(w)) = 0

\* Parse accepts a text without lexical errors exactly if what next() returns is a
\* sequence of statements by the grammar: recovery hides no error, and no error is
\* reported for what an earlier one has left behind.
Accepts == want = "done" /\ errcnt = 0 => (Accepted <=> WellFormed(read))

\* For a text that is accepted, or ought to be, next() returns its tokens, all of them
\* and in order, with strings concatenated, whatever was looked ahead at and pushed back.
InOrder ==
    want = "done" /\ errcnt = 0 /\ (Accepted \/ WellFormed(Concatenated(lexed)))
        => Concatenated(lexed) = Words(read)

\* The keyword, argument and nesting of each statement of the text, in order.
Headings(w) ==
    LET keys == Indices(w, LAMBDA i : IsKeyword(w, i))
    IN  [n \in DOMAIN keys |->
            << Nesting(w, keys[n] - 1), w[keys[n]].text,
               IF IsArgument(w, keys[n] + 1) THEN <<w[keys[n] + 1].text>> ELSE <<>> >>]

\* An escape that the standard does not define is an error in every argument except that
\* of a pattern, where it never is, though the argument be concatenated and looked ahead at.
PatternMode ==
    errcnt <= MaxErrors =>
        LET l == Lexed IN
        \A j, k \in DOMAIN l :
            /\ j <= k /\ IsQuoted(l[k]) /\ \A i \in j + 1 .. k : (k - i) % 2 = 0 => Chained(l, i)
            /\ (k - j) % 2 = 0
            /\ IsArgument(l, j)
            =>
            \A i \in l[k].from + 1 .. l[k].to - 2 :
                Escaping(l[k].from, i) /\ ~ Known(l[k].from, i) =>
                    (l[j - 1].text = Pattern <=>
                        \A x \in DOMAIN lexed : lexed[x].code # "error" \/ lexed[x].from # i)

\* Parse returns, whatever the text.
ParseEnds == <>(want = "done")
=============================================================================
