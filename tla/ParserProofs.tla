---------------------------- MODULE ParserProofs ----------------------------
(***************************************************************************)
(* Proofs about Parser, for every set of texts: what next() returns is     *)
(* accepted exactly if it is a sequence of statements by the grammar, and  *)
(* if it is accepted, it is the text, nothing lost and all in order.       *)
(***************************************************************************)
EXTENDS Parser, FiniteSetTheorems, SequenceTheorems, WellFoundedInduction, TLAPS

(* Sequences, whatever their elements; of tokens, with codes from a set. *)
IsSeq(s) == \E S : s \in Seq(S)
TokensOf(s, C) == \E S : s \in Seq(S) /\ \A t \in S : t.code \in C

LEMMA TokensFacts ==
    ASSUME NEW C, NEW s, TokensOf(s, C)
    PROVE  /\ IsSeq(s) /\ Len(s) \in Nat /\ DOMAIN s = 1 .. Len(s)
           /\ \A k \in 1 .. Len(s) : s[k].code \in C
           /\ s # <<>> => /\ Len(s) > 0
                          /\ Head(s).code \in C /\ TokensOf(Tail(s), C)
                          /\ Last(s).code \in C /\ TokensOf(Front(s), C)
           /\ \A t : t.code \in C => /\ TokensOf(Append(s, t), C)
                                     /\ TokensOf(<<t>> \o s, C)
  <1>1. PICK S : s \in Seq(S) /\ \A t \in S : t.code \in C
    BY DEF TokensOf
  <1>2. /\ IsSeq(s) /\ Len(s) \in Nat /\ DOMAIN s = 1 .. Len(s)
        /\ \A k \in 1 .. Len(s) : s[k].code \in C
    <2>1. \A k \in 1 .. Len(s) : s[k] \in S
      BY <1>1
    <2> QED BY <1>1, <2>1 DEF IsSeq
  <1>3. ASSUME s # <<>>
        PROVE  /\ Len(s) > 0
               /\ Head(s).code \in C /\ TokensOf(Tail(s), C)
               /\ Last(s).code \in C /\ TokensOf(Front(s), C)
    <2>1. Len(s) > 0 /\ Head(s) \in S /\ Tail(s) \in Seq(S) /\ s[Len(s)] \in S
      BY <1>1, <1>3
    <2>2. SubSeq(s, 1, Len(s) - 1) \in Seq(S)
      BY <1>1, <2>1
    <2> QED BY <1>1, <2>1, <2>2 DEF TokensOf, Last, Front
  <1>4. ASSUME NEW t, t.code \in C
        PROVE  TokensOf(Append(s, t), C) /\ TokensOf(<<t>> \o s, C)
    <2> DEFINE T == S \cup {t}
    <2>1. s \in Seq(T) /\ <<t>> \in Seq(T) /\ t \in T
      BY <1>1
    <2>2. Append(s, t) \in Seq(T) /\ <<t>> \o s \in Seq(T)
      BY <2>1
    <2>3. \A u \in T : u.code \in C
      BY <1>1, <1>4
    <2> HIDE DEF T
    <2> QED BY <2>2, <2>3 DEF TokensOf
  <1> QED BY <1>2, <1>3, <1>4

LEMMA NoTokens ==
    ASSUME NEW C
    PROVE  /\ TokensOf(<<>>, C) /\ IsSeq(<<>>)
           /\ \A t : t.code \in C => TokensOf(<<t>>, C)
  <1>1. TokensOf(<<>>, C) /\ IsSeq(<<>>)
    <2> DEFINE T == {}
    <2>1. <<>> \in Seq(T) /\ \A u \in T : u.code \in C
      OBVIOUS
    <2> HIDE DEF T
    <2> QED BY <2>1 DEF TokensOf, IsSeq
  <1>2. ASSUME NEW t, t.code \in C PROVE TokensOf(<<t>>, C)
    <2> DEFINE T == {t}
    <2>1. <<t>> \in Seq(T) /\ \A u \in T : u.code \in C
      BY <1>2
    <2> HIDE DEF T
    <2> QED BY <2>1 DEF TokensOf
  <1> QED BY <1>1, <1>2

-----------------------------------------------------------------------------
(* The grammar does not look ahead: what it says of a token stays true when    *)
(* the sequence is extended.                                                   *)

Fits(w, i) == IsKeyword(w, i) \/ IsArgument(w, i) \/ IsEnd(w, i) \/ IsClose(w, i)

LEMMA Stable ==
    ASSUME NEW w, TokensOf(w, Codes), NEW t, t.code \in Codes
    PROVE  /\ Len(Append(w, t)) = Len(w) + 1 /\ Append(w, t)[Len(w) + 1] = t
           /\ \A i \in 1 .. Len(w) :
                /\ Append(w, t)[i] = w[i]
                /\ (Begins(Append(w, t), i) <=> Begins(w, i))
                /\ (IsKeyword(Append(w, t), i) <=> IsKeyword(w, i))
                /\ (IsArgument(Append(w, t), i) <=> IsArgument(w, i))
                /\ (Fits(Append(w, t), i) <=> Fits(w, i))
           /\ (Begins(Append(w, t), Len(w) + 1) <=> Begins(w, Len(w) + 1))
           /\ \A i \in 0 .. Len(w) : Nesting(Append(w, t), i) = Nesting(w, i)
  <1> DEFINE v == Append(w, t)
  <1>1. /\ Len(w) \in Nat /\ Len(v) = Len(w) + 1 /\ v[Len(w) + 1] = t
        /\ \A i \in 1 .. Len(w) : v[i] = w[i]
    <2>1. PICK S : w \in Seq(S)
      BY DEF TokensOf
    <2>2. w \in Seq(S \cup {t})
      BY <2>1
    <2> QED BY <2>2
  <1> HIDE DEF v
  <1>2. ASSUME NEW i \in 1 .. Len(w) + 1 PROVE Begins(v, i) <=> Begins(w, i)
    <2>1. i = 1 \/ v[i - 1] = w[i - 1]
      BY <1>1
    <2> QED BY <2>1, Zenon DEF Begins
  <1>3. \A i \in 1 .. Len(w) : IsKeyword(v, i) <=> IsKeyword(w, i)
    BY <1>1, <1>2 DEF IsKeyword
  <1>4. \A i \in 1 .. Len(w) : IsArgument(v, i) <=> IsArgument(w, i)
    BY <1>1, <1>3 DEF IsArgument
  <1>5. ASSUME NEW i \in 1 .. Len(w) PROVE IsEnd(v, i) <=> IsEnd(w, i)
    <2>1. v[i] = w[i]
      BY <1>1
    <2>2. i > 1 => /\ (IsKeyword(v, i - 1) <=> IsKeyword(w, i - 1))
                   /\ (IsArgument(v, i - 1) <=> IsArgument(w, i - 1))
      BY <1>1, <1>3, <1>4
    <2> QED BY <2>1, <2>2, Zenon DEF IsEnd
  <1>6. ASSUME NEW i \in 1 .. Len(w) PROVE IsClose(v, i) <=> IsClose(w, i)
    <2>1. v[i] = w[i] /\ (Begins(v, i) <=> Begins(w, i))
      BY <1>1, <1>2
    <2> QED BY <2>1, Zenon DEF IsClose
  <1>7. ASSUME NEW i \in 1 .. Len(w) PROVE Fits(v, i) <=> Fits(w, i)
    <2>1. /\ (IsKeyword(v, i) <=> IsKeyword(w, i))
          /\ (IsArgument(v, i) <=> IsArgument(w, i))
          /\ (IsEnd(v, i) <=> IsEnd(w, i))
          /\ (IsClose(v, i) <=> IsClose(w, i))
      BY <1>3, <1>4, <1>5, <1>6
    <2> QED BY <2>1, Zenon DEF Fits
  <1>8. ASSUME NEW i \in 0 .. Len(w), NEW c PROVE Number(v, i, c) = Number(w, i, c)
    <2>1. \A j \in 1 .. i : v[j] = w[j]
      BY <1>1
    <2>2. {j \in 1 .. i : v[j].code = c} = {j \in 1 .. i : w[j].code = c}
      BY <2>1, Zenon
    <2> QED BY <2>2 DEF Number
  <1>9. \A i \in 0 .. Len(w) : Nesting(v, i) = Nesting(w, i)
    BY <1>8, Zenon DEF Nesting
  <1> QED BY <1>1, <1>2, <1>3, <1>4, <1>7, <1>9 DEF v

LEMMA NumberStep ==
    ASSUME NEW w, NEW i \in Nat, NEW c
    PROVE  /\ Number(w, i, c) \in Nat /\ Number(w, 0, c) = 0
           /\ w[i + 1].code = c => Number(w, i + 1, c) = Number(w, i, c) + 1
           /\ w[i + 1].code # c => Number(w, i + 1, c) = Number(w, i, c)
  <1> DEFINE N(n) == {j \in 1 .. n : w[j].code = c}
  <1>1. \A n \in Nat : IsFiniteSet(N(n))
    <2>1. \A n \in Nat : IsFiniteSet(1 .. n)
      BY FS_Interval
    <2> QED BY <2>1, FS_Subset
  <1>2. Cardinality(N(i)) \in Nat
    BY <1>1, FS_CardinalityType
  <1>3. N(0) = {}
    OBVIOUS
  <1>4. CASE w[i + 1].code = c
    <2>1. N(i + 1) = N(i) \cup {i + 1} /\ i + 1 \notin N(i)
      BY <1>4
    <2>2. Cardinality(N(i) \cup {i + 1}) = Cardinality(N(i)) + 1
      BY <1>1, <2>1, FS_AddElement
    <2> QED BY <1>2, <1>3, <1>4, <2>1, <2>2, FS_EmptySet DEF Number
  <1>5. CASE w[i + 1].code # c
    <2>1. N(i + 1) = N(i)
      BY <1>5
    <2> QED BY <1>2, <1>3, <1>5, <2>1, FS_EmptySet DEF Number
  <1> QED BY <1>4, <1>5

LEMMA NestingStep ==
    ASSUME NEW w, NEW i \in Nat
    PROVE  /\ Nesting(w, i) \in Int /\ Nesting(w, 0) = 0
           /\ w[i + 1].code = "{" => Nesting(w, i + 1) = Nesting(w, i) + 1
           /\ w[i + 1].code = "}" => Nesting(w, i + 1) = Nesting(w, i) - 1
           /\ w[i + 1].code \notin {"{", "}"} => Nesting(w, i + 1) = Nesting(w, i)
  <1>1. ASSUME NEW c
        PROVE  /\ Number(w, i, c) \in Nat /\ Number(w, 0, c) = 0
               /\ w[i + 1].code = c => Number(w, i + 1, c) = Number(w, i, c) + 1
               /\ w[i + 1].code # c => Number(w, i + 1, c) = Number(w, i, c)
    BY NumberStep, Zenon
  <1> DEFINE O == Number(w, i, "{")
             C == Number(w, i, "}")
  <1>2. O \in Nat /\ C \in Nat /\ Nesting(w, i) = O - C
    BY <1>1 DEF Nesting
  <1>3. Nesting(w, 0) = 0
    <2>1. Number(w, 0, "{") = 0 /\ Number(w, 0, "}") = 0
      BY <1>1, Zenon
    <2>2. 0 - 0 = 0
      OBVIOUS
    <2> QED BY <2>1, <2>2, Zenon DEF Nesting
  <1>4. w[i + 1].code = "{" => Nesting(w, i + 1) = (O + 1) - C
    BY <1>1 DEF Nesting
  <1>5. w[i + 1].code = "}" => Nesting(w, i + 1) = O - (C + 1)
    BY <1>1 DEF Nesting
  <1>6. w[i + 1].code \notin {"{", "}"} => Nesting(w, i + 1) = O - C
    BY <1>1 DEF Nesting
  <1>7. /\ O - C \in Int
        /\ (O + 1) - C = (O - C) + 1
        /\ O - (C + 1) = (O - C) - 1
    <2> HIDE DEF O, C
    <2> QED BY <1>2
  <1> HIDE DEF O, C
  <1> QED BY <1>2, <1>3, <1>4, <1>5, <1>6, <1>7, Zenon

-----------------------------------------------------------------------------
(* Types.  Statements are trees, of which only the number of open ones matters. *)

TypeInv ==
    /\ TokensOf(items, Codes \cup {"error"})
    /\ TokensOf(tokens, Codes) /\ TokensOf(held, Codes) /\ TokensOf(read, Codes)
    /\ got = <<>> \/ \E t : got = <<t>> /\ t.code \in Codes \cup {"eof"}
    /\ want \in {"keyword", "argument", "end", "check", "done"}
    /\ IsSeq(open) /\ depth \in Int /\ complained \in BOOLEAN

LEMMA TypeInit == Init => TypeInv
  <1> SUFFICES ASSUME Init PROVE TypeInv
    OBVIOUS
  <1>1. /\ items = <<>> /\ tokens = <<>> /\ held = <<>> /\ read = <<>> /\ got = <<>>
        /\ want = "keyword" /\ open = <<>> /\ depth = 0 /\ complained = FALSE
    BY DEF Init, LexerInit
  <1>2. TokensOf(<<>>, Codes) /\ TokensOf(<<>>, Codes \cup {"error"}) /\ IsSeq(<<>>)
    BY NoTokens
  <1>3. /\ TokensOf(items, Codes \cup {"error"})
        /\ TokensOf(tokens, Codes) /\ TokensOf(held, Codes) /\ TokensOf(read, Codes)
        /\ IsSeq(open)
    BY <1>1, <1>2, Zenon
  <1>4. depth \in Int /\ complained \in BOOLEAN
    <2>1. depth \in Int
      BY <1>1
    <2>2. complained \in BOOLEAN
      BY <1>1, Zenon
    <2> QED BY <2>1, <2>2
  <1> QED BY <1>1, <1>3, <1>4, Zenon DEF TypeInv

\* Whatever the lexer does, the channel holds tokens.
LEMMA LexItems ==
    ASSUME TypeInv, Lex
    PROVE  TokensOf(items', Codes \cup {"error"})
  <1> DEFINE C == Codes \cup {"error"}
  <1>1. \A code, text, from, to :
           code \in C => TokensOf(Sent(Token(code, text, from, to)), C)
    <2>1. TokensOf(items, C)
      BY DEF TypeInv
    <2> HIDE DEF C
    <2>2. \A t : t.code \in C => TokensOf(Append(items, t), C)
      BY <2>1, TokensFacts
    <2> QED BY <2>1, <2>2 DEF Sent, Token
  <1>2. /\ "error" \in C /\ "string" \in C /\ "unquoted" \in C
        /\ {";", "{", "}"} \subseteq C
    BY DEF Codes
  <1>3. TokensOf(items, C)
    BY DEF TypeInv
  <1> SUFFICES TokensOf(items', C)
    OBVIOUS
  <1> HIDE DEF C
  <1>4. ASSUME NEW p, Errorf(p) PROVE TokensOf(items', C)
    BY <1>1, <1>2, <1>4 DEF Errorf, Emit
  <1>5. CASE EndOfText \/ Quote \/ LineBreak \/ Indentation \/ Character \/ Escape
    BY <1>3, <1>5 DEF EndOfText, Quote, LineBreak, Indentation, Character, Escape
  <1>6. CASE Punctuation
    BY <1>1, <1>2, <1>6 DEF Punctuation, Emit
  <1>7. CASE SingleQuoted
    BY <1>1, <1>2, <1>4, <1>7 DEF SingleQuoted, Emit
  <1>8. CASE Comment
    BY <1>3, <1>4, <1>8 DEF Comment
  <1>9. CASE Unquoted
    BY <1>1, <1>2, <1>9 DEF Unquoted, Emit
  <1>10. CASE Unterminated
    BY <1>4, <1>10 DEF Unterminated
  <1>11. CASE Unquote
    BY <1>1, <1>2, <1>11 DEF Unquote, Emit
  <1>12. CASE OtherEscape
    BY <1>3, <1>4, <1>12 DEF OtherEscape
  <1> QED BY <1>5, <1>6, <1>7, <1>8, <1>9, <1>10, <1>11, <1>12 DEF Lex

\* next() has returned.
Returned ==
    \E t : /\ got' = <<t>> /\ t.code \in Codes \cup {"eof"}
          /\ read' = IF t.code = "eof" THEN read ELSE Append(read, t)

\* A step of next() changes nothing else that matters.
LEMMA NextSteps ==
    ASSUME TypeInv, LexStep \/ Pop \/ SkipError \/ FirstToken \/ PlusToken \/ SecondToken
    PROVE  /\ want \in {"keyword", "argument", "end"} /\ got = <<>>
           /\ UNCHANGED <<want, open, depth, complained>>
           /\ (got' = <<>> /\ read' = read) \/ Returned
           /\ TokensOf(items', Codes \cup {"error"})
           /\ TokensOf(tokens', Codes) /\ TokensOf(held', Codes)
  <1>1. /\ TokensOf(items, Codes \cup {"error"})
        /\ TokensOf(tokens, Codes) /\ TokensOf(held, Codes)
    BY DEF TypeInv
  <1>2. "string" \in Codes /\ "eof" \notin Codes
    BY DEF Codes
  <1>3. CASE LexStep
    BY <1>1, <1>3, LexItems DEF LexStep, Asking, parserVars
  <1>4. CASE Pop
    <2>1. Last(tokens).code \in Codes /\ TokensOf(Front(tokens), Codes)
      BY <1>1, <1>4, TokensFacts DEF Pop
    <2>2. /\ want \in {"keyword", "argument", "end"} /\ got = <<>>
          /\ UNCHANGED <<want, open, depth, complained, items, held>>
          /\ tokens' = Front(tokens) /\ Got(Last(tokens))
      BY <1>4 DEF Pop, Asking, lexerVars
    <2>3. Returned
      BY <2>1, <2>2 DEF Got, Returned
    <2> QED BY <1>1, <2>1, <2>2, <2>3
  <1>5. ASSUME NextToken(Ready), Ready.code # "error"
        PROVE  /\ want \in {"keyword", "argument", "end"} /\ got = <<>>
               /\ UNCHANGED <<want, open, depth, complained>>
               /\ TokensOf(items', Codes \cup {"error"})
               /\ Ready.code \in Codes \cup {"eof"}
    <2>1. items = <<>> => Ready.code = "eof" /\ UNCHANGED items
      BY <1>5 DEF NextToken, Ready, EofToken
    <2>2. items # <<>> => /\ Ready = Head(items) /\ items' = Tail(items)
                          /\ Head(items).code \in Codes \cup {"error"}
                          /\ TokensOf(Tail(items), Codes \cup {"error"})
      BY <1>1, <1>5, TokensFacts DEF NextToken, Ready
    <2> QED BY <1>1, <1>5, <2>1, <2>2 DEF NextToken, Asking
  <1>6. CASE SkipError
    <2>1. items # <<>>
      BY <1>6 DEF SkipError, Ready, EofToken
    <2>2. TokensOf(Tail(items), Codes \cup {"error"})
      BY <1>1, <2>1, TokensFacts
    <2> QED BY <1>1, <1>6, <2>1, <2>2 DEF SkipError, NextToken, Asking
  <1>7. CASE FirstToken
    <2>1. NextToken(Ready) /\ Ready.code # "error" /\ tokens' = tokens
      BY <1>7 DEF FirstToken
    <2>2. CASE IsString(Ready)
      <3>1. TokensOf(<<Ready>>, Codes)
        BY <1>2, <2>2, NoTokens DEF IsString
      <3> QED BY <1>1, <1>5, <1>7, <2>1, <2>2, <3>1 DEF FirstToken
    <2>3. CASE ~ IsString(Ready)
      <3>1. Got(Ready) /\ held' = held
        BY <1>7, <2>3 DEF FirstToken
      <3>2. Returned
        BY <1>5, <2>1, <3>1 DEF Got, Returned
      <3> QED BY <1>1, <1>5, <2>1, <3>1, <3>2
    <2> QED BY <2>2, <2>3
  <1>8. ASSUME NEW n \in 1 .. 2, Len(held) = n PROVE \A k \in 1 .. n : held[k].code \in Codes
    BY <1>1, <1>8, TokensFacts
  <1>9. ASSUME NEW s, TokensOf(s, Codes), Ready.code \in Codes \cup {"eof"}
        PROVE  TokensOf(Pushed(s, Ready), Codes)
    <2>1. Ready.code \in Codes => TokensOf(<<Ready>> \o s, Codes)
      BY <1>9, TokensFacts
    <2> QED BY <1>9, <2>1 DEF Pushed
  <1>10. CASE PlusToken
    <2>1. NextToken(Ready) /\ Ready.code # "error" /\ Len(held) = 1
      BY <1>10 DEF PlusToken
    <2>2. held[1].code \in Codes
      BY <1>8, <2>1
    <2>3. CASE IsPlus(Ready)
      <3>1. held' = Append(held, Ready) /\ UNCHANGED <<tokens, got, read>> /\ Ready.code \in Codes
        BY <1>10, <2>3 DEF PlusToken, IsPlus, Codes
      <3>2. TokensOf(Append(held, Ready), Codes)
        BY <1>1, <3>1, TokensFacts
      <3> QED BY <1>1, <1>5, <2>1, <3>1, <3>2
    <2>4. CASE ~ IsPlus(Ready)
      <3>1. tokens' = Pushed(<<>>, Ready) /\ Got(held[1]) /\ held' = <<>>
        BY <1>10, <2>4 DEF PlusToken
      <3>2. Returned
        BY <1>2, <2>2, <3>1 DEF Got, Returned
      <3>3. TokensOf(Pushed(<<>>, Ready), Codes)
        BY <1>5, <1>9, <2>1, NoTokens
      <3> QED BY <1>5, <2>1, <3>1, <3>2, <3>3, NoTokens
    <2> QED BY <2>3, <2>4
  <1>11. CASE SecondToken
    <2>1. NextToken(Ready) /\ Ready.code # "error" /\ Len(held) = 2
      BY <1>11 DEF SecondToken
    <2>2. held[1].code \in Codes /\ held[2].code \in Codes
      BY <1>8, <2>1
    <2>3. CASE IsString(Ready)
      <3> DEFINE t == Token("string", held[1].text \o Ready.text, held[1].from, Ready.to)
      <3>1. held' = <<t>> /\ UNCHANGED <<tokens, got, read>>
        BY <1>11, <2>3 DEF SecondToken
      <3>2. t.code \in Codes
        BY <1>2 DEF Token
      <3> HIDE DEF t
      <3>3. TokensOf(<<t>>, Codes)
        BY <3>2, NoTokens
      <3> QED BY <1>1, <1>5, <2>1, <3>1, <3>3
    <2>4. CASE ~ IsString(Ready)
      <3>1. tokens' = Pushed(<<held[2]>>, Ready) /\ Got(held[1]) /\ held' = <<>>
        BY <1>11, <2>4 DEF SecondToken
      <3>2. Returned
        BY <1>2, <2>2, <3>1 DEF Got, Returned
      <3>3. TokensOf(Pushed(<<held[2]>>, Ready), Codes)
        BY <1>5, <1>9, <2>1, <2>2, NoTokens
      <3> QED BY <1>5, <2>1, <3>1, <3>2, <3>3, NoTokens
    <2> QED BY <2>3, <2>4
  <1> QED BY <1>3, <1>4, <1>6, <1>7, <1>10, <1>11

\* nextStatement returns: as many statements are open as in the stack it is given.
LEMMA ReturnOpen ==
    ASSUME NEW stack, IsSeq(stack), NEW s, Return(stack, s)
    PROVE  /\ want' = "keyword" /\ got' = <<>>
           /\ IsSeq(open') /\ Len(open') = Len(stack)
  <1>1. PICK S : stack \in Seq(S)
    BY DEF IsSeq
  <1>2. CASE stack = <<>>
    <2>1. open' = <<>>
      BY <1>2 DEF Return
    <2> QED BY <1>2, <2>1, NoTokens DEF Return
  <1>3. CASE stack # <<>>
    <2> DEFINE u == [stack[Len(stack)] EXCEPT !.subs = Append(@, s)]
    <2>1. open' = [stack EXCEPT ![Len(stack)] = u]
      BY <1>3 DEF Return, Caller
    <2> HIDE DEF u
    <2>2. open' \in Seq(S \cup {u}) /\ Len(open') = Len(stack)
      BY <1>1, <1>3, <2>1
    <2> QED BY <2>2 DEF Return, IsSeq
  <1> QED BY <1>2, <1>3

LEMMA OpenFacts ==
    ASSUME IsSeq(open)
    PROVE  /\ Len(open) \in Nat
           /\ open # <<>> => IsSeq(Front(open)) /\ Len(Front(open)) = Len(open) - 1 /\ Len(open) > 0
           /\ \A s : IsSeq(Append(open, s)) /\ Len(Append(open, s)) = Len(open) + 1
  <1>1. PICK S : open \in Seq(S)
    BY DEF IsSeq
  <1>2. ASSUME NEW s PROVE IsSeq(Append(open, s)) /\ Len(Append(open, s)) = Len(open) + 1
    <2> DEFINE T == S \cup {s}
    <2>1. open \in Seq(T) /\ s \in T
      BY <1>1
    <2> HIDE DEF T
    <2> QED BY <2>1 DEF IsSeq
  <1>3. ASSUME open # <<>>
        PROVE  IsSeq(Front(open)) /\ Len(Front(open)) = Len(open) - 1 /\ Len(open) > 0
    <2>1. Len(open) \in Nat /\ Len(open) > 0
      BY <1>1, <1>3
    <2>2. SubSeq(open, 1, Len(open) - 1) \in Seq(S)
      BY <1>1, <2>1
    <2>3. Len(SubSeq(open, 1, Len(open) - 1)) = Len(open) - 1
      <3> DEFINE k == Len(open) - 1
      <3>1. k \in Int /\ k >= 0 /\ \A i \in 1 .. k : open[i] \in S
        BY <1>1, <2>1
      <3> HIDE DEF k
      <3>2. Len(SubSeq(open, 1, k)) = IF 1 <= k THEN k - 1 + 1 ELSE 0
        BY <3>1, SubSeqProperties
      <3>3. Len(SubSeq(open, 1, k)) = k
        BY <3>1, <3>2
      <3> QED BY <3>3 DEF k
    <2> QED BY <2>1, <2>2, <2>3, Zenon DEF IsSeq, Front
  <1> QED BY <1>1, <1>2, <1>3

Statements ==
    Keyword \/ NoKeyword \/ CloseBrace \/ Argument \/ EndStatement \/ OpenBrace \/ NoEnd
        \/ EndOfFile \/ Check

LEMMA TypeStep ==
    ASSUME TypeInv, [Next]_vars
    PROVE  TypeInv'
  <1>1. CASE LexStep \/ Pop \/ SkipError \/ FirstToken \/ PlusToken \/ SecondToken
    <2>1. /\ UNCHANGED <<want, open, depth, complained>>
          /\ (got' = <<>> /\ read' = read) \/ Returned
          /\ TokensOf(items', Codes \cup {"error"})
          /\ TokensOf(tokens', Codes) /\ TokensOf(held', Codes)
      BY <1>1, NextSteps
    <2>2. TokensOf(read', Codes)
      <3>1. \A t : t.code \in Codes => TokensOf(Append(read, t), Codes)
        BY TokensFacts DEF TypeInv
      <3> QED BY <2>1, <3>1 DEF Returned, TypeInv
    <2> QED BY <2>1, <2>2 DEF TypeInv, Returned
  <1>2. CASE Statements
    <2>1. UNCHANGED <<items, tokens, held, read>>
      BY <1>2 DEF Statements, Keyword, NoKeyword, CloseBrace, Argument, EndStatement, OpenBrace,
         NoEnd, EndOfFile, Check, lexerVars
    <2>2. /\ got' = <<>> \/ got' = got
          /\ want' \in {"keyword", "argument", "end", "check", "done"}
      BY <1>2 DEF Statements, Keyword, NoKeyword, CloseBrace, Argument, EndStatement, OpenBrace,
         NoEnd, EndOfFile, Check, Return, TypeInv
    <2>4. complained' \in BOOLEAN
      <3>1. complained' \in {complained, TRUE} \/ EndOfFile \/ Check
        BY <1>2 DEF Statements, Keyword, NoKeyword, CloseBrace, Argument, EndStatement,
           OpenBrace, NoEnd
      <3>2. (complained \/ want = "end") \in BOOLEAN /\ (complained \/ Unclosed) \in BOOLEAN
        OBVIOUS
      <3> QED BY <3>1, <3>2 DEF EndOfFile, Check, TypeInv
    <2>5. depth' \in {depth, depth + 1, depth - 1}
      BY <1>2 DEF Statements, Keyword, NoKeyword, CloseBrace, Argument, EndStatement, OpenBrace,
         NoEnd, EndOfFile, Check, Deeper
    <2>6. depth' \in Int
      BY <2>5 DEF TypeInv
    <2>3. IsSeq(open')
      <3>1. CASE NoKeyword \/ EndStatement \/ NoEnd
        BY <3>1, ReturnOpen DEF NoKeyword, EndStatement, NoEnd, TypeInv
      <3>2. CASE CloseBrace
        BY <3>2, ReturnOpen, OpenFacts DEF CloseBrace, TypeInv
      <3>3. CASE OpenBrace
        BY <3>3, OpenFacts DEF OpenBrace, TypeInv
      <3>4. CASE Keyword \/ Argument \/ EndOfFile \/ Check
        BY <3>4 DEF Keyword, Argument, EndOfFile, Check, TypeInv
      <3> QED BY <1>2, <3>1, <3>2, <3>3, <3>4 DEF Statements
    <2> QED BY <2>1, <2>2, <2>3, <2>4, <2>6 DEF TypeInv
  <1>3. CASE UNCHANGED vars
    BY <1>3 DEF vars, lexerVars, parserVars, TypeInv
  <1> QED BY <1>1, <1>2, <1>3 DEF Next, Statements

-----------------------------------------------------------------------------
(* What nextStatement has seen so far *)

\* The tokens of read up to m fit, and n braces are open after them; or one does not.
Good(w, m, n) ==
    (\A i \in 1 .. m : Fits(w, i) /\ Nesting(w, i) >= 0) /\ Nesting(w, m) = n
Bad(w, m) == \E i \in 1 .. m : ~ Fits(w, i) \/ Nesting(w, i) < 0

\* A token that next() has returned is examined when it is taken.
Pending == got # <<>> /\ got[1].code # "eof"
Examined == IF Pending THEN Len(read) - 1 ELSE Len(read)

PendingInv ==
    /\ Pending => Len(read) > 0 /\ read[Len(read)].code = got[1].code
    /\ want \in {"check", "done"} => got = <<>>

\* Where nextStatement is, as long as the parser has not complained.
GoodInv ==
    ~ complained =>
        /\ Good(read, Examined, Len(open)) /\ depth = Len(open)
        /\ want \in {"keyword", "check", "done"} => Begins(read, Examined + 1)
        /\ want = "argument" => Examined > 0 /\ IsKeyword(read, Examined)
        /\ want = "end" =>
              /\ Examined > 0
              /\ \/ IsArgument(read, Examined)
                 \/ /\ IsKeyword(read, Examined)
                    /\ got # <<>> /\ got[1].code \notin {"string", "unquoted"}
        /\ want = "done" /\ errcnt = 0 => depth = 0

\* Why it has complained.
BadInv ==
    complained =>
        \/ Bad(read, Examined)
        \/ /\ want \in {"check", "done"}
           /\ read # <<>> /\ Last(read).code \notin {";", "}"}
        \/ want = "done" /\ Nesting(read, Len(read)) # 0

GrammarInv == TypeInv /\ PendingInv /\ GoodInv /\ BadInv

LEMMA Extended ==
    ASSUME NEW w, TokensOf(w, Codes), NEW t, t.code \in Codes, NEW m \in 0 .. Len(w), NEW n
    PROVE  /\ Good(w, m, n) => Good(Append(w, t), m, n)
           /\ Bad(w, m) => Bad(Append(w, t), m)
           /\ Begins(w, m + 1) => Begins(Append(w, t), m + 1)
           /\ m > 0 /\ IsKeyword(w, m) => IsKeyword(Append(w, t), m)
           /\ m > 0 /\ IsArgument(w, m) => IsArgument(Append(w, t), m)
  <1>1. Len(w) \in Nat
    BY TokensFacts
  <1>2. \A i \in 1 .. m : i \in 1 .. Len(w) /\ i \in 0 .. Len(w)
    BY <1>1
  <1>3. \A i \in 1 .. m : /\ Fits(Append(w, t), i) <=> Fits(w, i)
                          /\ Nesting(Append(w, t), i) = Nesting(w, i)
    BY <1>2, Stable
  <1>4. Good(w, m, n) => Good(Append(w, t), m, n)
    BY <1>3, Stable DEF Good
  <1>5. Bad(w, m) => Bad(Append(w, t), m)
    BY <1>3 DEF Bad
  <1>6. Begins(w, m + 1) => Begins(Append(w, t), m + 1)
    <2>1. m + 1 = Len(w) + 1 \/ m + 1 \in 1 .. Len(w)
      BY <1>1
    <2> QED BY <2>1, Stable
  <1>7. m > 0 => m \in 1 .. Len(w)
    BY <1>1
  <1> QED BY <1>4, <1>5, <1>6, <1>7, Stable

LEMMA GoodStep ==
    ASSUME NEW w, NEW m \in Nat, NEW n \in Nat, NEW k, Good(w, m, n), k >= 0,
           Fits(w, m + 1), Nesting(w, m + 1) = k
    PROVE  Good(w, m + 1, k)
  BY DEF Good

-----------------------------------------------------------------------------
(* What the grammar says of the token after m others *)

LEMMA Unfolded ==
    ASSUME NEW w, NEW m \in Nat
    PROVE  /\ Begins(w, m + 1) <=> (m = 0 \/ w[m].code \in {";", "{", "}"})
           /\ IsKeyword(w, m + 1) <=> (Begins(w, m + 1) /\ w[m + 1].code = "unquoted")
           /\ IsArgument(w, m + 1) <=>
                 (m > 0 /\ IsKeyword(w, m) /\ w[m + 1].code \in {"string", "unquoted"})
           /\ IsEnd(w, m + 1) <=>
                 (m > 0 /\ w[m + 1].code \in {";", "{"} /\ (IsKeyword(w, m) \/ IsArgument(w, m)))
           /\ IsClose(w, m + 1) <=> (Begins(w, m + 1) /\ w[m + 1].code = "}")
  <1> DEFINE i == m + 1
  <1>1. i - 1 = m /\ (i = 1 <=> m = 0) /\ (i > 1 <=> m > 0)
    OBVIOUS
  <1> HIDE DEF i
  <1>2. /\ Begins(w, i) <=> (m = 0 \/ w[m].code \in {";", "{", "}"})
        /\ IsKeyword(w, i) <=> (Begins(w, i) /\ w[i].code = "unquoted")
        /\ IsClose(w, i) <=> (Begins(w, i) /\ w[i].code = "}")
    BY <1>1, Zenon DEF Begins, IsKeyword, IsClose
  <1>3. IsArgument(w, i) <=>
           (m > 0 /\ IsKeyword(w, m) /\ w[i].code \in {"string", "unquoted"})
    BY <1>1, Zenon DEF IsArgument
  <1>4. IsEnd(w, i) <=>
           (m > 0 /\ w[i].code \in {";", "{"} /\ (IsKeyword(w, m) \/ IsArgument(w, m)))
    BY <1>1, Zenon DEF IsEnd
  <1> QED BY <1>2, <1>3, <1>4 DEF i

LEMMA Kinds ==
    ASSUME NEW w, NEW m \in Nat
    PROVE  /\ IsKeyword(w, m) => w[m].code = "unquoted"
           /\ IsArgument(w, m) => w[m].code \in {"string", "unquoted"}
           /\ m > 0 => ~ (IsKeyword(w, m) /\ IsArgument(w, m))
  <1>1. /\ IsKeyword(w, m) => w[m].code = "unquoted" /\ Begins(w, m)
        /\ IsArgument(w, m) => w[m].code \in {"string", "unquoted"}
    BY Zenon DEF IsKeyword, IsArgument
  <1>2. ASSUME m > 0 PROVE ~ (IsKeyword(w, m) /\ IsArgument(w, m))
    <2> DEFINE n == m - 1
    <2>1. n \in Nat /\ m = n + 1
      BY <1>2
    <2> HIDE DEF n
    <2>2. IsArgument(w, n + 1) => n > 0 /\ w[n].code = "unquoted"
      BY <2>1, Unfolded, Zenon DEF IsKeyword
    <2>3. IsKeyword(w, n + 1) => n = 0 \/ w[n].code \in {";", "{", "}"}
      BY <2>1, Unfolded, Zenon
    <2>4. n > 0 => n # 0
      BY <2>1
    <2>5. w[n].code = "unquoted" => w[n].code \notin {";", "{", "}"}
      OBVIOUS
    <2> QED BY <2>1, <2>2, <2>3, <2>4, <2>5, Zenon
  <1> QED BY <1>1, <1>2

LEMMA AtKeyword ==
    ASSUME NEW w, NEW m \in Nat, Begins(w, m + 1)
    PROVE  /\ w[m + 1].code = "unquoted" => IsKeyword(w, m + 1)
           /\ w[m + 1].code = "}" => IsClose(w, m + 1)
           /\ w[m + 1].code \in {"string", ";", "{"} => ~ Fits(w, m + 1)
  <1>1. m > 0 => w[m].code \in {";", "{", "}"}
    <2>1. m = 0 \/ w[m].code \in {";", "{", "}"}
      BY Unfolded, Zenon
    <2>2. m > 0 => m # 0
      OBVIOUS
    <2> QED BY <2>1, <2>2, Zenon
  <1>2. m > 0 => ~ IsKeyword(w, m) /\ ~ IsArgument(w, m)
    BY <1>1, Kinds
  <1> QED BY <1>2, Unfolded DEF Fits

LEMMA AtEnd ==
    ASSUME NEW w, NEW m \in Nat, m > 0,
           \/ IsArgument(w, m)
           \/ IsKeyword(w, m) /\ w[m + 1].code \notin {"string", "unquoted"}
    PROVE  /\ w[m].code \in {"string", "unquoted"}
           /\ w[m + 1].code \in {";", "{"} => IsEnd(w, m + 1)
           /\ w[m + 1].code \in {"string", "unquoted", "}"} => ~ Fits(w, m + 1)
  <1>1. w[m].code \in {"string", "unquoted"}
    BY Kinds
  <1>2. ~ Begins(w, m + 1)
    <2>1. m # 0
      OBVIOUS
    <2>2. w[m].code \notin {";", "{", "}"}
      BY <1>1
    <2> QED BY <2>1, <2>2, Unfolded, Zenon
  <1>3. IsArgument(w, m) => ~ IsKeyword(w, m)
    BY Kinds
  <1> QED BY <1>1, <1>2, <1>3, Unfolded DEF Fits

\* One more token that fits.
LEMMA Grown ==
    ASSUME NEW w, NEW m \in Nat, NEW n \in Nat, Good(w, m, n), Fits(w, m + 1)
    PROVE  /\ w[m + 1].code = "{" => Good(w, m + 1, n + 1)
           /\ w[m + 1].code \notin {"{", "}"} => Good(w, m + 1, n)
           /\ w[m + 1].code = "}" /\ n > 0 => Good(w, m + 1, n - 1)
           /\ w[m + 1].code = "}" /\ n = 0 => Bad(w, m + 1)
           /\ w[m + 1].code \in {";", "{", "}"} => Begins(w, (m + 1) + 1)
  <1>1. Nesting(w, m) = n
    BY DEF Good
  <1>2. /\ w[m + 1].code = "{" => Nesting(w, m + 1) = n + 1
        /\ w[m + 1].code = "}" => Nesting(w, m + 1) = n - 1
        /\ w[m + 1].code \notin {"{", "}"} => Nesting(w, m + 1) = n
    BY <1>1, NestingStep
  <1>3. /\ n + 1 >= 0 /\ n >= 0 /\ (n > 0 => n - 1 >= 0) /\ (n = 0 => n - 1 < 0)
        /\ m + 1 \in Nat /\ m + 1 \in 1 .. m + 1
    OBVIOUS
  <1>4. \A k : k >= 0 /\ Nesting(w, m + 1) = k => Good(w, m + 1, k)
    BY GoodStep
  <1>5. w[m + 1].code = "}" /\ n = 0 => Bad(w, m + 1)
    <2>1. w[m + 1].code = "}" /\ n = 0 => Nesting(w, m + 1) < 0
      BY <1>2, <1>3, Zenon
    <2> QED BY <1>3, <2>1, Zenon DEF Bad
  <1>6. w[m + 1].code \in {";", "{", "}"} => Begins(w, (m + 1) + 1)
    BY <1>3, Unfolded, Zenon
  <1> QED BY <1>2, <1>3, <1>4, <1>5, <1>6, Zenon

-----------------------------------------------------------------------------
(* GrammarInv is inductive *)

LEMMA GrammarInit == Init => GrammarInv
  <1> SUFFICES ASSUME Init PROVE GrammarInv
    OBVIOUS
  <1>1. /\ read = <<>> /\ got = <<>> /\ want = "keyword" /\ open = <<>> /\ depth = 0
        /\ ~ complained
    BY DEF Init
  <1>2. Len(read) = 0 /\ Len(open) = 0 /\ Examined = 0 /\ ~ Pending
    BY <1>1 DEF Examined, Pending
  <1>3. Good(read, 0, 0)
    <2>1. \A i \in 1 .. 0 : Fits(read, i) /\ Nesting(read, i) >= 0
      OBVIOUS
    <2>2. Nesting(read, 0) = 0
      BY NestingStep
    <2> QED BY <2>1, <2>2 DEF Good
  <1>4. Begins(read, 0 + 1)
    BY Unfolded
  <1> QED BY <1>1, <1>2, <1>3, <1>4, TypeInit DEF GrammarInv, PendingInv, GoodInv, BadInv

\* A step of next() examines nothing.
LEMMA NextKeeps ==
    ASSUME GrammarInv, LexStep \/ Pop \/ SkipError \/ FirstToken \/ PlusToken \/ SecondToken
    PROVE  PendingInv' /\ GoodInv' /\ BadInv'
  <1>1. /\ want \in {"keyword", "argument", "end"} /\ got = <<>>
        /\ UNCHANGED <<want, open, depth, complained>>
        /\ (got' = <<>> /\ read' = read) \/ Returned
    BY NextSteps DEF GrammarInv
  <1>2. ~ Pending /\ Examined = Len(read)
    BY <1>1 DEF Pending, Examined
  <1>3. TokensOf(read, Codes) /\ Len(read) \in Nat
    BY TokensFacts DEF GrammarInv, TypeInv
  <1>4. /\ ~ complained =>
              /\ Good(read, Len(read), Len(open)) /\ depth = Len(open)
              /\ want = "keyword" => Begins(read, Len(read) + 1)
              /\ want = "argument" => Len(read) > 0 /\ IsKeyword(read, Len(read))
              /\ want = "end" => Len(read) > 0 /\ IsArgument(read, Len(read))
        /\ complained => Bad(read, Len(read))
    BY <1>1, <1>2 DEF GrammarInv, GoodInv, BadInv
  <1>5. CASE UNCHANGED read /\ (got' = <<>> \/ \E t : got' = <<t>> /\ t.code = "eof")
    <2>1. ~ Pending' /\ Examined' = Len(read)
      BY <1>5 DEF Pending, Examined
    <2> QED BY <1>1, <1>4, <1>5, <2>1 DEF PendingInv, GoodInv, BadInv
  <1>6. ASSUME NEW t, got' = <<t>>, t.code \in Codes, read' = Append(read, t)
        PROVE  PendingInv' /\ GoodInv' /\ BadInv'
    <2>1. /\ Len(read') = Len(read) + 1 /\ read'[Len(read')] = t
      BY <1>3, <1>6, Stable
    <2>2. got' # <<>> /\ got'[1].code = t.code /\ t.code # "eof"
      BY <1>6 DEF Codes
    <2>3. Pending' /\ Examined' = Len(read)
      BY <1>3, <2>1, <2>2 DEF Pending, Examined
    <2>4. \A n : /\ Good(read, Len(read), n) => Good(read', Len(read), n)
                 /\ Bad(read, Len(read)) => Bad(read', Len(read))
                 /\ Begins(read, Len(read) + 1) => Begins(read', Len(read) + 1)
                 /\ Len(read) > 0 /\ IsKeyword(read, Len(read)) => IsKeyword(read', Len(read))
                 /\ Len(read) > 0 /\ IsArgument(read, Len(read)) => IsArgument(read', Len(read))
      <3>1. Len(read) \in 0 .. Len(read)
        BY <1>3
      <3> QED BY <1>3, <1>6, <3>1, Extended, Zenon
    <2>5. PendingInv'
      BY <1>1, <1>3, <2>1, <2>2 DEF PendingInv
    <2>6. GoodInv'
      BY <1>1, <1>4, <2>3, <2>4 DEF GoodInv
    <2>7. BadInv'
      BY <1>1, <1>4, <2>3, <2>4 DEF BadInv
    <2> QED BY <2>5, <2>6, <2>7
  <1> QED BY <1>1, <1>5, <1>6 DEF Returned

\* A step of nextStatement examines the token that next() has returned.
LEMMA Taken ==
    ASSUME GrammarInv, Pending, got' = <<>>, UNCHANGED read,
           want' \in {"keyword", "argument", "end"},
           NEW m, m = Len(read) - 1,
           complained => complained',
           \/ complained
           \/ complained' /\ Bad(read, m + 1)
           \/ /\ ~ complained' /\ Good(read, m + 1, Len(open')) /\ depth' = Len(open')
              /\ want' = "keyword" => Begins(read, (m + 1) + 1)
              /\ want' = "argument" => IsKeyword(read, m + 1)
              /\ want' = "end" => IsArgument(read, m + 1)
    PROVE  PendingInv' /\ GoodInv' /\ BadInv'
  <1>1. m \in Nat /\ Len(read) = m + 1 /\ Examined = m
    <2>1. Len(read) \in Nat /\ Len(read) > 0
      BY TokensFacts DEF GrammarInv, TypeInv, PendingInv
    <2> QED BY <2>1 DEF Examined
  <1>2. ~ Pending' /\ Examined' = m + 1 /\ m + 1 > 0
    BY <1>1 DEF Pending, Examined
  <1>3. complained => Bad(read, m + 1)
    <2>1. complained => Bad(read, m)
      BY <1>1 DEF GrammarInv, BadInv, PendingInv, Pending
    <2>2. \A i \in 1 .. m : i \in 1 .. (m + 1)
      BY <1>1
    <2> QED BY <2>1, <2>2, Zenon DEF Bad
  <1>4. PendingInv'
    BY <1>2 DEF PendingInv, Pending
  <1>5. GoodInv'
    BY <1>2 DEF GoodInv
  <1>6. BadInv'
    BY <1>2, <1>3 DEF BadInv
  <1> QED BY <1>4, <1>5, <1>6

LEMMA StatementsKeep ==
    ASSUME GrammarInv, Statements
    PROVE  PendingInv' /\ GoodInv' /\ BadInv'
  <1> DEFINE m == Len(read) - 1
             n == Len(open)
             t == got[1]
  <1>1. Len(read) \in Nat /\ n \in Nat /\ UNCHANGED read
    <2>1. Len(read) \in Nat /\ Len(open) \in Nat
      BY TokensFacts, OpenFacts DEF GrammarInv, TypeInv
    <2>2. UNCHANGED read
      BY DEF Statements, Keyword, NoKeyword, CloseBrace, Argument, EndStatement, OpenBrace,
         NoEnd, EndOfFile, Check
    <2> QED BY <2>1, <2>2
  <1>2. complained => complained'
    <2>1. CASE Keyword \/ NoKeyword \/ CloseBrace \/ Argument \/ EndStatement
      BY <2>1, Zenon DEF Keyword, NoKeyword, CloseBrace, Argument, EndStatement
    <2>2. CASE OpenBrace \/ NoEnd \/ EndOfFile \/ Check
      BY <2>2, Zenon DEF OpenBrace, NoEnd, EndOfFile, Check
    <2> QED BY <2>1, <2>2 DEF Statements
  <1>3. ASSUME Pending PROVE m \in Nat /\ Examined = m /\ m + 1 \in 1 .. m + 1
    <2>1. Len(read) > 0
      BY <1>3 DEF GrammarInv, PendingInv
    <2> QED BY <1>1, <1>3, <2>1 DEF Examined
  <1>4. ASSUME Pending PROVE read[m + 1].code = t.code
    <2>1. Len(read) = m + 1
      BY <1>1
    <2> QED BY <1>4, <2>1 DEF GrammarInv, PendingInv
  <1> HIDE DEF m, n, t
  <1>5. ASSUME Pending, ~ complained
        PROVE  /\ Good(read, m, n) /\ depth = n
               /\ want = "keyword" => Begins(read, m + 1)
               /\ want = "argument" => m > 0 /\ IsKeyword(read, m)
               /\ want = "end" =>
                    /\ m > 0
                    /\ \/ IsArgument(read, m)
                       \/ IsKeyword(read, m) /\ read[m + 1].code \notin {"string", "unquoted"}
    BY <1>3, <1>4, <1>5, Zenon DEF GrammarInv, GoodInv, n, t
  <1>6. ASSUME Pending, ~ Fits(read, m + 1) PROVE Bad(read, m + 1)
    BY <1>3, <1>6, Zenon DEF Bad
  \* A token that completes or begins something fits.
  <1>7. ASSUME Pending, ~ complained,
               \/ want = "keyword" /\ t.code \in {"unquoted", "}"}
               \/ want = "argument" /\ t.code \in {"string", "unquoted"}
               \/ want = "end" /\ t.code \in {";", "{"}
        PROVE  Fits(read, m + 1)
    <2>1. ASSUME want = "keyword" /\ t.code \in {"unquoted", "}"}
          PROVE  IsKeyword(read, m + 1) \/ IsClose(read, m + 1)
      <3>1. Begins(read, m + 1) /\ read[m + 1].code \in {"unquoted", "}"}
        BY <1>4, <1>5, <1>7, <2>1, Zenon
      <3> QED BY <1>3, <1>7, <3>1, AtKeyword
    <2>2. ASSUME want = "argument" /\ t.code \in {"string", "unquoted"}
          PROVE  IsArgument(read, m + 1)
      BY <1>3, <1>4, <1>5, <1>7, <2>2, Unfolded, Zenon
    <2>3. ASSUME want = "end" /\ t.code \in {";", "{"}
          PROVE  IsEnd(read, m + 1)
      BY <1>3, <1>4, <1>5, <1>7, <2>3, AtEnd, Zenon
    <2> QED BY <1>7, <2>1, <2>2, <2>3, Zenon DEF Fits
  \* Any other does not.
  <1>8. ASSUME Pending, ~ complained,
               \/ want = "keyword" /\ t.code \in {"string", ";", "{"}
               \/ want = "end" /\ t.code \in {"string", "unquoted", "}"}
        PROVE  ~ Fits(read, m + 1)
    BY <1>3, <1>4, <1>5, <1>8, AtKeyword, AtEnd, Zenon
  \* What a token that fits makes of what was good.
  <1>9. ASSUME Pending, ~ complained, Fits(read, m + 1)
        PROVE  /\ t.code = "{" => Good(read, m + 1, n + 1)
               /\ t.code \notin {"{", "}"} => Good(read, m + 1, n)
               /\ t.code = "}" /\ n > 0 => Good(read, m + 1, n - 1)
               /\ t.code = "}" /\ n = 0 => Bad(read, m + 1)
               /\ t.code \in {";", "{", "}"} => Begins(read, (m + 1) + 1)
    BY <1>1, <1>3, <1>4, <1>5, <1>9, Grown, Zenon
  <1>10. CASE Keyword
    <2>1. /\ Pending /\ want = "keyword" /\ t.code = "unquoted"
          /\ got' = <<>> /\ want' = "argument" /\ UNCHANGED <<open, depth, complained>>
      BY <1>10 DEF Keyword, Have, Pending, t
    <2>2. ~ complained => IsKeyword(read, m + 1) /\ Good(read, m + 1, n) /\ depth = n
      <3>1. ~ complained => IsKeyword(read, m + 1)
        BY <1>3, <1>4, <1>5, <2>1, AtKeyword
      <3> QED BY <1>5, <1>7, <1>9, <2>1, <3>1
    <2> QED BY <1>1, <1>2, <2>1, <2>2, Taken DEF m, n
  <1>11. CASE NoKeyword
    <2>1. /\ Pending /\ want = "keyword" /\ t.code \in {"string", ";", "{"}
          /\ got' = <<>> /\ want' = "keyword" /\ complained'
      BY <1>11 DEF NoKeyword, Return, Have, Pending, t
    <2>2. ~ complained => Bad(read, m + 1)
      BY <1>6, <1>8, <2>1
    <2> QED BY <1>1, <1>2, <2>1, <2>2, Taken DEF m
  <1>12. CASE CloseBrace
    <2>1. /\ Pending /\ want = "keyword" /\ t.code = "}" /\ depth' = depth - 1
          /\ got' = <<>> /\ want' = "keyword"
      BY <1>12 DEF CloseBrace, Return, Have, Pending, t
    <2>2. CASE open = <<>>
      <3>1. complained' /\ n = 0
        BY <1>12, <2>2 DEF CloseBrace, n
      <3>2. ~ complained => Bad(read, m + 1)
        BY <1>7, <1>9, <2>1, <3>1
      <3> QED BY <1>1, <1>2, <2>1, <3>1, <3>2, Taken DEF m
    <2>3. CASE open # <<>>
      <3>1. Return(Front(open), Last(open)) /\ UNCHANGED complained
        BY <1>12, <2>3 DEF CloseBrace
      <3>2. IsSeq(Front(open)) /\ Len(Front(open)) = n - 1 /\ n > 0
        BY <2>3, OpenFacts DEF GrammarInv, TypeInv, n
      <3>3. Len(open') = n - 1
        BY <3>1, <3>2, ReturnOpen
      <3>4. ~ complained =>
               Good(read, m + 1, n - 1) /\ depth = n /\ Begins(read, (m + 1) + 1)
        BY <1>5, <1>7, <1>9, <2>1, <3>2
      <3> QED BY <1>1, <1>2, <2>1, <3>1, <3>3, <3>4, Taken DEF m
    <2> QED BY <2>2, <2>3
  <1>13. CASE Argument
    <2>1. /\ want = "argument" /\ got # <<>> /\ want' = "end"
          /\ UNCHANGED <<open, depth, complained>>
      BY <1>13 DEF Argument
    <2>2. CASE t.code \in {"string", "unquoted"}
      <3>1. Pending /\ got' = <<>>
        BY <1>13, <2>1, <2>2 DEF Argument, Have, Pending, t
      <3>2. ~ complained => IsArgument(read, m + 1)
        BY <1>3, <1>4, <1>5, <2>1, <2>2, <3>1, Unfolded, Zenon
      <3>3. ~ complained => Good(read, m + 1, n) /\ depth = n
        BY <1>5, <1>7, <1>9, <2>1, <2>2, <3>1
      <3> QED BY <1>1, <1>2, <2>1, <3>1, <3>2, <3>3, Taken DEF m, n
    <2>3. CASE t.code \notin {"string", "unquoted"}
      <3>1. UNCHANGED got
        BY <1>13, <2>3 DEF Argument, Have, t
      <3>2. (Pending' <=> Pending) /\ Examined' = Examined
        BY <1>1, <3>1 DEF Pending, Examined
      <3>3. PendingInv'
        BY <1>1, <2>1, <3>1, <3>2 DEF GrammarInv, PendingInv
      <3>4. GoodInv'
        BY <1>1, <2>1, <2>3, <3>1, <3>2 DEF GrammarInv, GoodInv, t
      <3>5. BadInv'
        BY <1>1, <2>1, <3>2 DEF GrammarInv, BadInv
      <3> QED BY <3>3, <3>4, <3>5
    <2> QED BY <2>2, <2>3
  <1>14. CASE EndStatement
    <2>1. /\ Pending /\ want = "end" /\ t.code = ";"
          /\ Return(open, cur) /\ UNCHANGED <<depth, complained>>
      BY <1>14 DEF EndStatement, Have, Pending, t
    <2>2. got' = <<>> /\ want' = "keyword" /\ Len(open') = n
      BY <2>1, ReturnOpen DEF GrammarInv, TypeInv, n
    <2>3. ~ complained => Good(read, m + 1, n) /\ depth = n /\ Begins(read, (m + 1) + 1)
      BY <1>5, <1>7, <1>9, <2>1
    <2> QED BY <1>1, <1>2, <2>1, <2>2, <2>3, Taken DEF m
  <1>15. CASE OpenBrace
    <2>1. /\ Pending /\ want = "end" /\ t.code = "{" /\ depth' = depth + 1
          /\ open' = Append(open, cur) /\ got' = <<>> /\ want' = "keyword"
          /\ UNCHANGED complained
      BY <1>15 DEF OpenBrace, Deeper, Have, Pending, t
    <2>2. Len(open') = n + 1
      BY <2>1, OpenFacts DEF GrammarInv, TypeInv, n
    <2>3. ~ complained =>
             Good(read, m + 1, n + 1) /\ depth = n /\ Begins(read, (m + 1) + 1)
      BY <1>5, <1>7, <1>9, <2>1
    <2> QED BY <1>1, <1>2, <2>1, <2>2, <2>3, Taken DEF m
  <1>16. CASE NoEnd
    <2>1. /\ Pending /\ want = "end" /\ t.code \in {"string", "unquoted", "}"}
          /\ got' = <<>> /\ want' = "keyword" /\ complained'
      BY <1>16 DEF NoEnd, Return, Have, Pending, t
    <2>2. ~ complained => Bad(read, m + 1)
      BY <1>6, <1>8, <2>1
    <2> QED BY <1>1, <1>2, <2>1, <2>2, Taken DEF m
  <1>17. CASE EndOfFile
    <2>1. /\ ~ Pending /\ want \in {"keyword", "end"} /\ want' = "check" /\ got' = <<>>
          /\ got[1].code = "eof" /\ UNCHANGED <<open, depth>>
      BY <1>17 DEF EndOfFile, Have, Pending
    <2>2. complained' <=> (complained \/ want = "end")
      BY <1>17, Zenon DEF EndOfFile
    <2>3. Examined = Len(read) /\ Examined' = Len(read) /\ ~ Pending'
      BY <1>1, <2>1 DEF Examined, Pending
    <2>4. PendingInv'
      BY <2>1, <2>3 DEF PendingInv
    <2>5. GoodInv'
      BY <1>1, <2>1, <2>2, <2>3 DEF GrammarInv, GoodInv
    <2>6. ~ complained /\ want = "end" => read # <<>> /\ Last(read).code \notin {";", "}"}
      <3>1. SUFFICES ASSUME ~ complained, want = "end"
                     PROVE  read # <<>> /\ Last(read).code \notin {";", "}"}
        OBVIOUS
      <3> DEFINE k == Len(read)
      <3>2. k > 0 /\ (IsArgument(read, k) \/ IsKeyword(read, k))
        BY <2>3, <3>1, Zenon DEF GrammarInv, GoodInv
      <3>3. read[k].code \in {"string", "unquoted"}
        BY <1>1, <3>2, Kinds, Zenon
      <3>4. read # <<>>
        BY <3>2
      <3> QED BY <3>3, <3>4 DEF Last
    <2>7. BadInv'
      <3>1. complained => Bad(read, Len(read))
        BY <2>1, <2>3 DEF GrammarInv, BadInv
      <3> QED BY <1>1, <2>1, <2>2, <2>3, <2>6, <3>1 DEF BadInv
    <2> QED BY <2>4, <2>5, <2>7
  <1>18. CASE Check
    <2>1. want = "check" /\ want' = "done" /\ UNCHANGED <<got, open, depth, errcnt>>
      BY <1>18 DEF Check, lexerVars
    <2>2. complained' <=> (complained \/ (errcnt = 0 /\ ~ complained /\ depth # 0))
      BY <1>18, Zenon DEF Check, Unclosed
    <2>3. got = <<>> /\ Examined = Len(read) /\ Examined' = Len(read) /\ ~ Pending'
      BY <1>1, <2>1 DEF GrammarInv, PendingInv, Pending, Examined
    <2>4. ~ complained => Good(read, Len(read), n) /\ depth = n /\ Begins(read, Len(read) + 1)
      BY <2>1, <2>3, Zenon DEF GrammarInv, GoodInv, n
    <2>5. PendingInv'
      BY <2>1, <2>3 DEF PendingInv
    <2>6. GoodInv'
      BY <1>1, <2>1, <2>2, <2>3, <2>4, Zenon DEF GoodInv, n
    <2>7. BadInv'
      <3>1. ~ complained => Nesting(read, Len(read)) = depth
        BY <2>4 DEF Good
      <3> QED BY <1>1, <2>1, <2>2, <2>3, <3>1 DEF GrammarInv, BadInv
    <2> QED BY <2>5, <2>6, <2>7
  <1> QED BY <1>10, <1>11, <1>12, <1>13, <1>14, <1>15, <1>16, <1>17, <1>18 DEF Statements

LEMMA GrammarStep == GrammarInv /\ [Next]_vars => GrammarInv'
  <1> SUFFICES ASSUME GrammarInv, [Next]_vars PROVE GrammarInv'
    OBVIOUS
  <1>1. TypeInv'
    BY TypeStep DEF GrammarInv
  <1>2. CASE UNCHANGED vars
    <2>1. UNCHANGED <<read, got, want, open, depth, complained, errcnt>>
      BY <1>2 DEF vars, lexerVars, parserVars
    <2>2. (Pending' <=> Pending) /\ Examined' = Examined
      BY <2>1 DEF Pending, Examined
    <2> QED BY <1>1, <2>1, <2>2 DEF GrammarInv, PendingInv, GoodInv, BadInv
  <1> QED BY <1>1, <1>2, NextKeeps, StatementsKeep DEF GrammarInv, Next, Statements

LEMMA GrammarAccepts == GrammarInv => Accepts
  <1> SUFFICES ASSUME GrammarInv, want = "done", errcnt = 0 PROVE Accepted <=> WellFormed(read)
    BY DEF Accepts
  <1> DEFINE k == Len(read)
  <1>1. k \in Nat /\ DOMAIN read = 1 .. k /\ (read # <<>> <=> k > 0)
    <2>1. PICK S : read \in Seq(S)
      BY DEF GrammarInv, TypeInv, TokensOf
    <2> QED BY <2>1
  <1>2. got = <<>> /\ Examined = k
    BY DEF GrammarInv, PendingInv, Pending, Examined
  <1>3. Accepted <=> ~ complained
    BY DEF Accepted
  <1>4. ASSUME complained PROVE ~ WellFormed(read)
    <2>1. \/ Bad(read, k)
          \/ read # <<>> /\ Last(read).code \notin {";", "}"}
          \/ Nesting(read, Len(read)) # 0
      BY <1>2, <1>4 DEF GrammarInv, BadInv
    <2>2. CASE Bad(read, k)
      <3>1. PICK i \in DOMAIN read : ~ Fits(read, i) \/ Nesting(read, i) < 0
        BY <1>1, <2>2 DEF Bad
      <3>2. Nesting(read, i) < 0 => ~ (Nesting(read, i) >= 0)
        <4>1. i \in Nat
          BY <1>1
        <4>2. Nesting(read, i) \in Int
          BY <4>1, NestingStep
        <4> QED BY <4>2
      <3> QED BY <3>1, <3>2, Zenon DEF WellFormed, Fits
    <2> QED BY <2>1, <2>2, Zenon DEF WellFormed
  <1>5. ASSUME ~ complained PROVE WellFormed(read)
    <2>1. Good(read, k, Len(open)) /\ depth = Len(open) /\ depth = 0 /\ Begins(read, k + 1)
      BY <1>2, <1>5, Zenon DEF GrammarInv, GoodInv
    <2>2. \A i \in DOMAIN read : Fits(read, i) /\ Nesting(read, i) >= 0
      BY <1>1, <2>1 DEF Good
    <2>3. Nesting(read, k) = 0
      BY <2>1 DEF Good
    <2>4. read # <<>> => Last(read).code \in {";", "}"}
      <3>1. SUFFICES ASSUME read # <<>> PROVE read[k].code \in {";", "}"}
        BY DEF Last
      <3>2. read[k].code \in {";", "{", "}"}
        <4>1. k # 0
          BY <1>1, <3>1
        <4> QED BY <1>1, <2>1, <4>1, Unfolded, Zenon
      <3>3. read[k].code # "{"
        <4> DEFINE j == k - 1
        <4>1. j \in Nat /\ k = j + 1
          BY <1>1, <3>1
        <4> HIDE DEF j, k
        <4>2. Nesting(read, j) >= 0
          <5>1. j = 0 \/ j \in 1 .. k
            BY <4>1
          <5>2. j = 0 => Nesting(read, j) = 0
            BY <4>1, NestingStep
          <5> QED BY <1>1, <2>2, <5>1, <5>2
        <4>3. Nesting(read, j) \in Int /\ (read[k].code = "{" => Nesting(read, k) = Nesting(read, j) + 1)
          <5>1. /\ Nesting(read, j) \in Int
                /\ read[j + 1].code = "{" => Nesting(read, j + 1) = Nesting(read, j) + 1
            BY <4>1, NestingStep
          <5> QED BY <4>1, <5>1, Zenon
        <4>4. \A x \in Int : x >= 0 => x + 1 # 0
          OBVIOUS
        <4> QED BY <2>3, <4>2, <4>3, <4>4, Zenon
      <3> QED BY <3>2, <3>3
    <2> HIDE DEF k
    <2> QED BY <2>2, <2>3, <2>4, Zenon DEF WellFormed, Fits, k
  <1> QED BY <1>3, <1>4, <1>5

\* Parse accepts a text without lexical errors exactly if what next() returns is a sequence of
\* statements by the grammar, for every set of texts, keyword and bound of the channel.
THEOREM AcceptsCorrect == Spec => []Accepts
  <1>1. Spec => []GrammarInv
    BY GrammarInit, GrammarStep, PTL DEF Spec
  <1> QED BY <1>1, GrammarAccepts, PTL

\* As long as nothing is complained of, statementDepth is the number of statements whose braces
\* are open, and of the braces that next() has returned and that are still to be closed.
Depths == ~ complained => depth = Len(open) /\ depth = Nesting(read, Examined)

THEOREM DepthsCorrect == Spec => []Depths
  <1>1. GrammarInv => Depths
    BY DEF GrammarInv, GoodInv, Good, Depths
  <1>2. Spec => []GrammarInv
    BY GrammarInit, GrammarStep, PTL DEF Spec
  <1> QED BY <1>1, <1>2, PTL

-----------------------------------------------------------------------------
(* Words *)

\* A set of numbers has a least one: induction over the tokens.
LEMMA LeastNatural ==
    ASSUME NEW T, T \subseteq Nat, T # {}
    PROVE  \E n \in T : \A m \in T : n <= m
  <1> DEFINE R == OpToRel(<, Nat)
  <1>1. IsWellFoundedOn(R, Nat)
    BY NatLessThanWellFounded
  <1>2. \A x, y \in Nat : x < y => <<x, y>> \in R
    BY DEF OpToRel
  <1> HIDE DEF R
  <1>3. PICK n \in T : \A m \in T : ~ (<<m, n>> \in R)
    BY <1>1, WFMin
  <1>4. \A m \in T : ~ (m < n)
    BY <1>2, <1>3
  <1>5. n \in Nat /\ \A m \in T : m \in Nat
    OBVIOUS
  <1>6. ASSUME NEW m \in T PROVE n <= m
    BY <1>4, <1>5
  <1> QED BY <1>6

\* c holds the words of the first n tokens of l, and of each number of them before.
Spells(c, l, n) == \A k \in 0 .. n : c[k] = IF k = 0 THEN <<>> ELSE With(c[k - 1], l[k])

LEMMA SpellsExists ==
    ASSUME NEW l, NEW n \in Nat
    PROVE  \E c : Spells(c, l, n)
  <1> DEFINE Some(k) == \E c : Spells(c, l, k)
             T == {k \in Nat : ~ Some(k)}
  <1>1. SUFFICES ASSUME T # {} PROVE FALSE
    OBVIOUS
  <1>2. PICK k \in T : \A m \in T : k <= m
    <2>1. T \subseteq Nat
      OBVIOUS
    <2> HIDE DEF T
    <2> QED BY <1>1, <2>1, LeastNatural
  <1>3. k \in Nat /\ ~ Some(k)
    BY <1>2
  <1>4. k # 0
    <2>1. Spells([i \in {0} |-> <<>>], l, 0)
      BY DEF Spells
    <2> QED BY <1>3, <2>1
  <1>5. k - 1 \in Nat /\ ~ (k <= k - 1)
    BY <1>3, <1>4
  <1>6. PICK c : Spells(c, l, k - 1)
    BY <1>2, <1>5
  <1> DEFINE d == [i \in 0 .. k |-> IF i = k THEN With(c[k - 1], l[k]) ELSE c[i]]
  <1>7. ASSUME NEW i \in 0 .. k PROVE d[i] = IF i = 0 THEN <<>> ELSE With(d[i - 1], l[i])
    <2>1. CASE i = k
      <3>1. i - 1 \in 0 .. k /\ i - 1 # k
        BY <1>3, <1>4, <2>1
      <3> QED BY <1>4, <2>1, <3>1
    <2>2. CASE i # k
      <3>1. i \in 0 .. k - 1
        BY <1>3, <2>2
      <3>2. i # 0 => i - 1 \in 0 .. k /\ i - 1 # k
        BY <1>3, <2>2
      <3>3. c[i] = IF i = 0 THEN <<>> ELSE With(c[i - 1], l[i])
        BY <1>6, <3>1 DEF Spells
      <3> QED BY <2>2, <3>2, <3>3
    <2> QED BY <2>1, <2>2
  <1>8. Spells(d, l, k)
    BY <1>7 DEF Spells
  <1> QED BY <1>3, <1>8

LEMMA SpellsUnique ==
    ASSUME NEW l, NEW n \in Nat, NEW c, Spells(c, l, n), NEW d, Spells(d, l, n)
    PROVE  c[n] = d[n]
  <1> DEFINE T == {k \in 0 .. n : c[k] # d[k]}
  <1>1. SUFFICES ASSUME T # {} PROVE FALSE
    OBVIOUS
  <1>2. PICK k \in T : \A m \in T : k <= m
    <2>1. T \subseteq Nat
      OBVIOUS
    <2> HIDE DEF T
    <2> QED BY <1>1, <2>1, LeastNatural
  <1>3. k \in 0 .. n /\ c[k] # d[k]
    BY <1>2
  <1>4. k # 0
    BY <1>3 DEF Spells
  <1>5. k - 1 \in 0 .. n /\ ~ (k <= k - 1)
    BY <1>3, <1>4
  <1>6. c[k - 1] = d[k - 1]
    BY <1>2, <1>5
  <1> QED BY <1>3, <1>4, <1>6 DEF Spells

\* So Concatenated is what its recursion says.
LEMMA ConcatenatedSpells ==
    ASSUME NEW l, IsSeq(l)
    PROVE  \E c : Spells(c, l, Len(l)) /\ Concatenated(l) = c[Len(l)]
  <1> DEFINE Solves(f) == f = [k \in 0 .. Len(l) |-> IF k = 0 THEN <<>> ELSE With(f[k - 1], l[k])]
             words == CHOOSE f : Solves(f)
  <1>1. Len(l) \in Nat
    BY DEF IsSeq
  <1>2. PICK c : Spells(c, l, Len(l))
    BY <1>1, SpellsExists
  <1> DEFINE g == [k \in 0 .. Len(l) |-> c[k]]
  <1>3. Solves(g)
    <2>1. \A k \in 0 .. Len(l) : g[k] = IF k = 0 THEN <<>> ELSE With(g[k - 1], l[k])
      <3>1. \A k \in 0 .. Len(l) : k # 0 => k - 1 \in 0 .. Len(l)
        BY <1>1
      <3> QED BY <1>2, <3>1 DEF Spells
    <2>2. g = [k \in 0 .. Len(l) |-> g[k]]
      OBVIOUS
    <2> HIDE DEF g
    <2> QED BY <2>1, <2>2
  <1>4. Solves(words)
    BY <1>3
  <1>5. Concatenated(l) = words[Len(l)]
    BY DEF Concatenated
  <1> HIDE DEF words
  <1>6. Spells(words, l, Len(l))
    BY <1>4 DEF Spells
  <1> QED BY <1>5, <1>6

LEMMA ConcatenatedAppend ==
    ASSUME NEW l, IsSeq(l), NEW t
    PROVE  /\ Concatenated(<<>>) = <<>>
           /\ Concatenated(Append(l, t)) = With(Concatenated(l), t)
  <1>1. Concatenated(<<>>) = <<>>
    <2>1. PICK c : Spells(c, <<>>, Len(<<>>)) /\ Concatenated(<<>>) = c[Len(<<>>)]
      BY NoTokens, ConcatenatedSpells
    <2> QED BY <2>1 DEF Spells
  <1> DEFINE m == Append(l, t)
             n == Len(l)
  <1>2. /\ n \in Nat /\ IsSeq(m) /\ Len(m) = n + 1 /\ m[n + 1] = t
        /\ \A k \in 1 .. n : m[k] = l[k]
    <2>1. PICK S : l \in Seq(S)
      BY DEF IsSeq
    <2>2. l \in Seq(S \cup {t})
      BY <2>1
    <2> QED BY <2>2 DEF IsSeq
  <1>3. PICK c : Spells(c, l, n) /\ Concatenated(l) = c[n]
    BY ConcatenatedSpells
  <1> HIDE DEF m, n
  <1>4. PICK d : Spells(d, m, n + 1) /\ Concatenated(m) = d[n + 1]
    BY <1>2, ConcatenatedSpells
  <1>5. Spells(d, l, n)
    <2>1. \A k \in 0 .. n : k \in 0 .. n + 1 /\ (k # 0 => m[k] = l[k])
      BY <1>2
    <2> QED BY <1>4, <2>1 DEF Spells
  <1>6. d[n] = c[n]
    BY <1>2, <1>3, <1>5, SpellsUnique
  <1>7. d[n + 1] = With(d[n], m[n + 1])
    <2>1. n + 1 \in 0 .. n + 1 /\ n + 1 # 0 /\ (n + 1) - 1 = n
      BY <1>2
    <2> QED BY <1>4, <2>1 DEF Spells
  <1> QED BY <1>1, <1>2, <1>3, <1>4, <1>6, <1>7 DEF m

\* Two strings in a row, which the grammar has no place for.
Adjacent(w) == \E k \in 1 .. Len(w) - 1 : IsString(w[k]) /\ IsString(w[k + 1])

\* Nothing is concatenated to what is at the end of w, and nothing is kept for it.
Closed(w) ==
    w # <<>> =>
        /\ ~ IsString(w[Len(w)])
        /\ ~ (Len(w) > 1 /\ IsPlus(w[Len(w)]) /\ IsString(w[Len(w) - 1]))

LEMMA AppendFacts ==
    ASSUME NEW w, IsSeq(w), NEW t
    PROVE  /\ Len(w) \in Nat /\ (w = <<>> <=> Len(w) = 0) /\ DOMAIN w = 1 .. Len(w)
           /\ IsSeq(Append(w, t)) /\ Len(Append(w, t)) = Len(w) + 1
           /\ Append(w, t)[Len(w) + 1] = t
           /\ \A k \in 1 .. Len(w) : Append(w, t)[k] = w[k]
  <1>1. PICK S : w \in Seq(S)
    BY DEF IsSeq
  <1>2. w \in Seq(S \cup {t}) /\ t \in S \cup {t}
    BY <1>1
  <1> DEFINE T == S \cup {t}
  <1>3. Append(w, t) \in Seq(T)
    BY <1>2
  <1>4. IsSeq(Append(w, t))
    <2> HIDE DEF T
    <2> QED BY <1>3 DEF IsSeq
  <1> QED BY <1>1, <1>2, <1>4

LEMMA WordsFacts ==
    ASSUME NEW v, IsSeq(v), NEW t
    PROVE  /\ IsSeq(Words(v)) /\ Len(Words(v)) = Len(v)
           /\ \A k \in 1 .. Len(v) : Words(v)[k] = Word(v[k])
           /\ Words(Append(v, t)) = Append(Words(v), Word(t))
           /\ (IsString(Word(t)) <=> IsString(t)) /\ (IsPlus(Word(t)) <=> IsPlus(t))
  <1>1. /\ Len(v) \in Nat /\ DOMAIN v = 1 .. Len(v)
        /\ IsSeq(Append(v, t)) /\ Len(Append(v, t)) = Len(v) + 1
        /\ DOMAIN Append(v, t) = 1 .. Len(v) + 1
        /\ Append(v, t)[Len(v) + 1] = t
        /\ \A k \in 1 .. Len(v) : Append(v, t)[k] = v[k]
    <2>1. IsSeq(Append(v, t))
      BY AppendFacts
    <2>2. DOMAIN Append(v, t) = 1 .. Len(Append(v, t))
      BY <2>1, AppendFacts
    <2> QED BY <2>1, <2>2, AppendFacts
  <1>2. Words(v) = [k \in 1 .. Len(v) |-> Word(v[k])]
    BY <1>1 DEF Words
  <1> DEFINE S == {Word(v[k]) : k \in 1 .. Len(v)}
  <1>3. Words(v) \in Seq(S) /\ Len(Words(v)) = Len(v)
    BY <1>1, <1>2
  <1>4. IsSeq(Words(v))
    <2> HIDE DEF S
    <2> QED BY <1>3 DEF IsSeq
  <1>5. \A k \in 1 .. Len(v) : Words(v)[k] = Word(v[k])
    BY <1>2
  <1>6. Words(Append(v, t)) = [k \in 1 .. Len(v) + 1 |-> Word(Append(v, t)[k])]
    BY <1>1 DEF Words
  <1>7. /\ DOMAIN Append(Words(v), Word(t)) = 1 .. Len(v) + 1
        /\ Append(Words(v), Word(t))[Len(v) + 1] = Word(t)
        /\ \A k \in 1 .. Len(v) : Append(Words(v), Word(t))[k] = Words(v)[k]
        /\ Append(Words(v), Word(t)) = [k \in 1 .. Len(v) + 1 |-> Append(Words(v), Word(t))[k]]
    <2>1. IsSeq(Append(Words(v), Word(t))) /\ Len(Append(Words(v), Word(t))) = Len(v) + 1
      BY <1>3, <1>4, AppendFacts
    <2>2. DOMAIN Append(Words(v), Word(t)) = 1 .. Len(v) + 1
      BY <2>1, AppendFacts
    <2> DEFINE a == Append(Words(v), Word(t))
    <2>3. a[Len(v) + 1] = Word(t) /\ \A k \in 1 .. Len(v) : a[k] = Words(v)[k]
      BY <1>3, <1>4, AppendFacts
    <2> HIDE DEF a
    <2>4. PICK R : a \in Seq(R)
      BY <2>1 DEF IsSeq, a
    <2>5. Len(a) = Len(v) + 1
      BY <2>1 DEF a
    <2>6. a = [k \in 1 .. Len(v) + 1 |-> a[k]]
      BY <2>4, <2>5
    <2> QED BY <2>2, <2>3, <2>6, Zenon DEF a
  <1>8. \A k \in 1 .. Len(v) + 1 : Append(Words(v), Word(t))[k] = Word(Append(v, t)[k])
    BY <1>1, <1>5, <1>7
  <1>9. Words(Append(v, t)) = Append(Words(v), Word(t))
    BY <1>6, <1>7, <1>8
  <1>10. (IsString(Word(t)) <=> IsString(t)) /\ (IsPlus(Word(t)) <=> IsPlus(t))
    BY DEF Word, IsString, IsPlus
  <1> QED BY <1>3, <1>4, <1>5, <1>9, <1>10

\* A string that is concatenated, and one that is not.
Longer(w, t) == [code |-> "string", text |-> w[Len(w) - 1].text \o t.text]

LEMMA WithFacts ==
    ASSUME NEW w, IsSeq(w), NEW t
    PROVE  /\ IsSeq(With(w, t))
           /\ ~ Concatenates(w, t) => With(w, t) = Append(w, Word(t))
           /\ Concatenates(w, t) =>
                 /\ Len(With(w, t)) = Len(w) - 1
                 /\ With(w, t)[Len(w) - 1] = Longer(w, t)
                 /\ \A k \in 1 .. Len(w) - 2 : With(w, t)[k] = w[k]
           /\ Adjacent(w) => Adjacent(With(w, t))
  <1>1. ~ Concatenates(w, t) => With(w, t) = Append(w, Word(t))
    BY DEF With
  <1>2. ASSUME Concatenates(w, t)
        PROVE  /\ Len(With(w, t)) = Len(w) - 1 /\ IsSeq(With(w, t))
               /\ With(w, t)[Len(w) - 1] = Longer(w, t)
               /\ \A k \in 1 .. Len(w) - 2 : With(w, t)[k] = w[k]
    <2>1. PICK S : w \in Seq(S)
      BY DEF IsSeq
    <2>2. Len(w) \in Nat /\ Len(w) > 1
      BY <1>2, <2>1 DEF Concatenates
    <2> DEFINE u == SubSeq(w, 1, Len(w) - 2)
    <2>3. u \in Seq(S) /\ Len(u) = Len(w) - 2 /\ \A k \in 1 .. Len(w) - 2 : u[k] = w[k]
      <3>1. PICK n \in Nat : n = Len(w) - 2
        BY <2>2
      <3>2. /\ SubSeq(w, 1, n) \in Seq(S) /\ Len(SubSeq(w, 1, n)) = n
            /\ \A k \in 1 .. n : SubSeq(w, 1, n)[k] = w[k]
        BY <2>1, <2>2, <3>1, SubSeqProperties
      <3> QED BY <3>1, <3>2
    <2>4. With(w, t) = Append(u, Longer(w, t))
      BY <1>2 DEF With, Longer
    <2> HIDE DEF u
    <2>5. IsSeq(u)
      BY <2>3 DEF IsSeq
    <2> QED BY <2>2, <2>3, <2>4, <2>5, AppendFacts
  <1>3. IsSeq(With(w, t))
    <2>1. IsSeq(Append(w, Word(t)))
      BY AppendFacts
    <2> QED BY <1>1, <1>2, <2>1
  <1>4. ASSUME Adjacent(w) PROVE Adjacent(With(w, t))
    <2>1. PICK k \in 1 .. Len(w) - 1 : IsString(w[k]) /\ IsString(w[k + 1])
      BY <1>4 DEF Adjacent
    <2>2. Len(w) \in Nat
      BY AppendFacts
    <2>3. CASE ~ Concatenates(w, t)
      <3>1. /\ Len(With(w, t)) = Len(w) + 1
            /\ With(w, t)[k] = w[k] /\ With(w, t)[k + 1] = w[k + 1]
        BY <1>1, <2>1, <2>2, <2>3, AppendFacts
      <3>2. k \in 1 .. Len(With(w, t)) - 1
        BY <2>1, <2>2, <3>1
      <3> QED BY <2>1, <3>1, <3>2 DEF Adjacent
    <2>4. CASE Concatenates(w, t)
      <3>1. ~ IsString(w[Len(w)])
        BY <2>4 DEF Concatenates, IsPlus, IsString
      <3>2. k + 1 # Len(w)
        BY <2>1, <3>1
      <3>3. k \in 1 .. Len(w) - 2
        BY <2>1, <2>2, <3>2
      <3>4. IsString(With(w, t)[k])
        BY <1>2, <2>1, <2>4, <3>3
      <3>5. IsString(With(w, t)[k + 1])
        <4>1. CASE k + 1 = Len(w) - 1
          BY <1>2, <2>4, <4>1 DEF Longer, IsString
        <4>2. CASE k + 1 # Len(w) - 1
          <5>1. k + 1 \in 1 .. Len(w) - 2
            BY <2>2, <3>3, <4>2
          <5> QED BY <1>2, <2>1, <2>4, <5>1
        <4> QED BY <4>1, <4>2
      <3>6. k \in 1 .. Len(With(w, t)) - 1
        BY <1>2, <2>2, <2>4, <3>3
      <3> QED BY <3>4, <3>5, <3>6 DEF Adjacent
    <2> QED BY <2>3, <2>4
  <1> QED BY <1>1, <1>2, <1>3, <1>4

LEMMA NotWellFormed ==
    ASSUME NEW w, IsSeq(w), Adjacent(w)
    PROVE  ~ WellFormed(w)
  <1>1. Len(w) \in Nat /\ DOMAIN w = 1 .. Len(w)
    BY AppendFacts
  <1>2. PICK k \in 1 .. Len(w) - 1 : IsString(w[k]) /\ IsString(w[k + 1])
    BY DEF Adjacent
  <1>3. k + 1 \in DOMAIN w /\ (k + 1) - 1 = k
    BY <1>1, <1>2
  <1>4. w[k].code = "string" /\ w[k + 1].code = "string"
    BY <1>2 DEF IsString
  <1> DEFINE j == k + 1
  <1>5. j \in DOMAIN w /\ j - 1 = k /\ w[j].code = "string"
    BY <1>3, <1>4
  <1> HIDE DEF j
  <1>6. ~ IsKeyword(w, j) /\ ~ IsClose(w, j) /\ ~ IsKeyword(w, k)
    BY <1>4, <1>5 DEF IsKeyword, IsClose
  <1>7. ~ IsEnd(w, j) /\ ~ IsArgument(w, j)
    BY <1>5, <1>6 DEF IsEnd, IsArgument
  <1> QED BY <1>5, <1>6, <1>7, Zenon DEF WellFormed

-----------------------------------------------------------------------------
(* The order of the tokens *)

\* What next() has read and not returned, in order, and all it has read in words.
OwedOf(pushed, ahead) == IF pushed = <<>> THEN ahead ELSE Reverse(pushed)
Owed == OwedOf(tokens, held)
Seen == read \o Owed
Spelt == Words(Seen)

Exhausted == state = "nil" /\ items = <<>>
AtEof == got # <<>> /\ got[1].code = "eof"

\* The channel holds a token at most, and next() has returned the end of the text only
\* when there is none to come.
ChannelInv ==
    /\ items = <<>> \/ \E t : items = <<t>> /\ t.code \in Codes
    /\ state = "quoted" => items = <<>>
    /\ AtEof \/ want \in {"check", "done"} => Exhausted /\ Owed = <<>>

\* next() looks ahead, or has tokens that it has pushed back.
LookInv ==
    \/ tokens = <<>> /\ held = <<>>
    \/ tokens = <<>> /\ \E s : held = <<s>> /\ IsString(s)
    \/ tokens = <<>> /\ \E s, p : held = <<s, p>> /\ IsString(s) /\ IsPlus(p)
    \/ held = <<>> /\ \E x : tokens = <<x>>
    \/ held = <<>> /\ \E x, y : tokens = <<x, y>>

\* What next() has read are the words of the tokens of the lexer, unless it has met two
\* strings in a row: it does not look behind a string that it has pushed back.
SpeltInv ==
    \/ Adjacent(Spelt) /\ Adjacent(Concatenated(lexed))
    \/ /\ Concatenated(lexed) = IF items = <<>> THEN Spelt ELSE With(Spelt, Head(items))
       /\ held = <<>> => Exhausted \/ Closed(Spelt)

OrderInv ==
    /\ TypeInv
    /\ IsSeq(lexed) /\ IsSeq(Concatenated(lexed)) /\ errcnt \in Nat
    /\ errcnt = 0 => ChannelInv /\ LookInv /\ SpeltInv

LEMMA ReverseFacts ==
    ASSUME NEW x, NEW y
    PROVE  Reverse(<<x>>) = <<x>> /\ Reverse(<<x, y>>) = <<y, x>>
  BY DEF Reverse

LEMMA Concat ==
    ASSUME NEW v, IsSeq(v), NEW x, NEW y
    PROVE  /\ v \o <<>> = v
           /\ v \o <<x>> = Append(v, x)
           /\ v \o <<x, y>> = Append(Append(v, x), y)
           /\ Append(v, x) \o <<y>> = Append(Append(v, x), y)
           /\ Append(v, x) \o <<>> = Append(v, x)
  <1>1. PICK S : v \in Seq(S)
    BY DEF IsSeq
  <1> DEFINE T == S \cup {x, y}
  <1>2. v \in Seq(T) /\ x \in T /\ y \in T
    BY <1>1
  <1> HIDE DEF T
  <1>3. /\ v \o <<>> = v
        /\ v \o <<x>> = Append(v, x)
    BY <1>2
  <1>4. /\ v \o <<x, y>> = Append(Append(v, x), y)
        /\ Append(v, x) \o <<y>> = Append(Append(v, x), y)
        /\ Append(v, x) \o <<>> = Append(v, x)
    BY <1>2
  <1> QED BY <1>3, <1>4

LEMMA AppendToOne ==
    ASSUME NEW w, IsSeq(w), NEW y
    PROVE  Len(w) = 1 => Append(w, y) = <<w[1], y>>
  <1> DEFINE v == Append(w, y)
  <1>1. /\ IsSeq(v) /\ Len(v) = Len(w) + 1 /\ v[Len(w) + 1] = y
        /\ \A k \in 1 .. Len(w) : v[k] = w[k]
    BY AppendFacts
  <1> HIDE DEF v
  <1>2. SUFFICES ASSUME Len(w) = 1 PROVE v = <<w[1], y>>
    BY DEF v
  <1>3. 1 \in 1 .. Len(w) /\ Len(w) + 1 = 2
    BY <1>2
  <1>4. Len(v) = 2 /\ v[1] = w[1] /\ v[2] = y
    BY <1>1, <1>3
  <1>5. PICK S : v \in Seq(S)
    BY <1>1 DEF IsSeq
  <1> QED BY <1>4, <1>5

LEMMA Singletons ==
    ASSUME NEW x, NEW y
    PROVE  IsSeq(<<x>>) /\ <<x>> \o <<>> = <<x>> /\ <<x>> \o <<y>> = <<x, y>>
  <1>1. IsSeq(<<x>>)
    <2> DEFINE T == {x}
    <2>1. <<x>> \in Seq(T)
      OBVIOUS
    <2> HIDE DEF T
    <2> QED BY <2>1 DEF IsSeq
  <1>2. <<x>> \o <<>> = <<x>>
    BY <1>1, Concat
  <1>3. <<x>> \o <<y>> = <<x, y>>
    <2>1. <<x>> \o <<y>> = Append(<<x>>, y)
      BY <1>1, Concat
    <2>2. Append(<<x>>, y) = <<x, y>>
      <3>1. Len(<<x>>) = 1 /\ <<x>>[1] = x
        OBVIOUS
      <3> QED BY <1>1, <3>1, AppendToOne
    <2> QED BY <2>1, <2>2
  <1> QED BY <1>1, <1>2, <1>3

LEMMA OwedIs ==
    ASSUME NEW r, IsSeq(r), NEW pushed, NEW ahead
    PROVE  LET v == r \o OwedOf(pushed, ahead) IN
           /\ pushed = <<>> /\ ahead = <<>> => v = r
           /\ \A s : pushed = <<>> /\ ahead = <<s>> => v = Append(r, s)
           /\ \A s, p : pushed = <<>> /\ ahead = <<s, p>> => v = Append(Append(r, s), p)
           /\ \A x : pushed = <<x>> => v = Append(r, x)
           /\ \A x, y : pushed = <<x, y>> => v = Append(Append(r, y), x)
  <1> DEFINE v == r \o OwedOf(pushed, ahead)
  <1>1. ASSUME pushed = <<>> PROVE v = r \o ahead
    BY <1>1 DEF OwedOf
  <1>2. ASSUME NEW x, pushed = <<x>> PROVE v = Append(r, x)
    <2>1. OwedOf(pushed, ahead) = <<x>>
      BY <1>2, ReverseFacts DEF OwedOf
    <2> QED BY <2>1, Concat
  <1>3. ASSUME NEW x, NEW y, pushed = <<x, y>> PROVE v = Append(Append(r, y), x)
    <2>1. OwedOf(pushed, ahead) = <<y, x>>
      BY <1>3, ReverseFacts DEF OwedOf
    <2> QED BY <2>1, Concat
  <1> HIDE DEF v
  <1>4. pushed = <<>> /\ ahead = <<>> => v = r
    BY <1>1, Concat
  <1>5. \A s : pushed = <<>> /\ ahead = <<s>> => v = Append(r, s)
    BY <1>1, Concat
  <1>6. \A s, p : pushed = <<>> /\ ahead = <<s, p>> => v = Append(Append(r, s), p)
    BY <1>1, Concat
  <1> QED BY <1>2, <1>3, <1>4, <1>5, <1>6 DEF v

\* Without an error a step of the lexer sends one token, into an empty channel, or none.
LEMMA LexSends ==
    ASSUME errcnt \in Nat, Lex
    PROVE  /\ UNCHANGED lexed \/ \E t : lexed' = Append(lexed, t)
           /\ errcnt' \in Nat /\ (errcnt' = 0 => errcnt = 0)
           /\ errcnt' = 0 /\ ChannelInv =>
                 /\ state # "nil"
                 /\ state' = "quoted" => items' = <<>>
                 /\ \/ UNCHANGED <<items, lexed>>
                    \/ /\ items = <<>>
                       /\ \E t : t.code \in Codes /\ items' = <<t>> /\ lexed' = Append(lexed, t)
  <1>1. MaxErrors \in Nat /\ MaxErrors > 0
    BY LexerAssumption
  <1>2. ASSUME NEW t, Emit(t)
        PROVE  lexed' = Append(lexed, t) /\ (items = <<>> => items' = <<t>>)
    <2>1. Len(<<>>) = 0 /\ Append(<<>>, t) = <<t>>
      OBVIOUS
    <2> QED BY <1>1, <1>2, <2>1 DEF Emit, Sent
  <1>3. ASSUME NEW p, Errorf(p)
        PROVE  /\ \E t : lexed' = Append(lexed, t)
               /\ errcnt' \in Nat /\ errcnt' # 0
    <2>1. \E t : lexed' = Append(lexed, t)
      BY <1>2, <1>3 DEF Errorf
    <2>2. errcnt' = IF errcnt <= MaxErrors THEN errcnt + 1 ELSE errcnt
      BY <1>3 DEF Errorf
    <2> QED BY <1>1, <2>1, <2>2
  <1>4. {"string", "unquoted", ";", "{", "}"} \subseteq Codes
    BY DEF Codes
  <1>5. CASE EndOfText \/ Quote \/ LineBreak \/ Indentation \/ Character \/ Escape
    <2>1. UNCHANGED <<items, lexed, errcnt>>
      BY <1>5 DEF EndOfText, Quote, LineBreak, Indentation, Character, Escape
    <2>2. /\ state # "nil"
          /\ items = <<>> \/ state = "quoted"
      BY <1>5 DEF EndOfText, Quote, LineBreak, Indentation, Character, Escape, InGround
    <2> QED BY <2>1, <2>2 DEF ChannelInv
  <1>6. CASE Punctuation
    <2> DEFINE t == Token(At(Here), <<>>, Here, Here + 1)
    <2>1. /\ Emit(t) /\ items = <<>> /\ state = "ground" /\ UNCHANGED <<state, errcnt>>
          /\ At(Here) \in {";", "{", "}"}
      BY <1>6 DEF Punctuation, InGround
    <2>2. t.code \in Codes
      BY <1>4, <2>1 DEF Token
    <2> HIDE DEF t
    <2> QED BY <1>2, <2>1, <2>2
  <1>7. CASE SingleQuoted
    <2>1. PICK end : end = First(Here + 1, LAMBDA q : input[q] = "'")
      OBVIOUS
    <2> DEFINE t == Token("string", SubSeq(input, Here + 1, end - 1), Here, end + 1)
    <2>2. \/ Emit(t) /\ items = <<>> /\ state = "ground" /\ UNCHANGED <<state, errcnt>>
          \/ Errorf(Here)
      BY <1>7, <2>1 DEF SingleQuoted, InGround
    <2>3. t.code \in Codes
      BY <1>4 DEF Token
    <2> HIDE DEF t
    <2> QED BY <1>2, <1>3, <2>2, <2>3
  <1>8. CASE Comment
    <2>1. \/ items = <<>> /\ state = "ground" /\ UNCHANGED <<items, lexed, state, errcnt>>
          \/ Errorf(Here)
      BY <1>8 DEF Comment, InGround
    <2> QED BY <1>3, <2>1
  <1>9. CASE Unquoted
    <2>1. PICK end : end = First(Here + 1, LAMBDA q : input[q] \in Stops)
      OBVIOUS
    <2> DEFINE t == Token("unquoted", SubSeq(input, Here, end - 1), Here, end)
    <2>2. Emit(t) /\ items = <<>> /\ state = "ground" /\ UNCHANGED <<state, errcnt>>
      BY <1>9, <2>1 DEF Unquoted, InGround
    <2>3. t.code \in Codes
      BY <1>4 DEF Token
    <2> HIDE DEF t
    <2> QED BY <1>2, <2>2, <2>3
  <1>10. CASE Unterminated
    BY <1>3, <1>10 DEF Unterminated
  <1>11. CASE Unquote
    <2> DEFINE t == Token("string", string.text, string.from, pos + 1)
    <2>1. Emit(t) /\ state = "quoted" /\ state' = "ground" /\ UNCHANGED errcnt
      BY <1>11 DEF Unquote
    <2>2. t.code \in Codes
      BY <1>4 DEF Token
    <2> HIDE DEF t
    <2> QED BY <1>2, <2>1, <2>2 DEF ChannelInv
  <1>12. CASE OtherEscape
    <2>1. \/ state = "quoted" /\ UNCHANGED <<state, items, lexed, errcnt>>
          \/ Errorf(pos)
      BY <1>12 DEF OtherEscape
    <2> QED BY <1>3, <2>1 DEF ChannelInv
  <1> QED BY <1>5, <1>6, <1>7, <1>8, <1>9, <1>10, <1>11, <1>12 DEF Lex

LEMMA AtTheEnd ==
    ASSUME NEW w, IsSeq(w), NEW x
    PROVE  /\ Adjacent(w) => Adjacent(Append(w, x))
           /\ w # <<>> /\ IsString(w[Len(w)]) /\ IsString(x) => Adjacent(Append(w, x))
           /\ (w = <<>> \/ ~ IsString(w[Len(w)]) \/ ~ IsPlus(x)) /\ ~ IsString(x) =>
                 Closed(Append(w, x))
           /\ Closed(w) => ~ Concatenates(w, x)
           /\ w # <<>> /\ IsString(w[Len(w)]) => ~ Concatenates(w, x)
  <1> DEFINE v == Append(w, x)
  <1>1. /\ Len(w) \in Nat /\ (w = <<>> <=> Len(w) = 0) /\ Len(v) = Len(w) + 1
        /\ v[Len(w) + 1] = x /\ \A k \in 1 .. Len(w) : v[k] = w[k]
    BY AppendFacts
  <1> HIDE DEF v
  <1>2. Adjacent(w) => Adjacent(v)
    <2>1. SUFFICES ASSUME NEW k \in 1 .. Len(w) - 1, IsString(w[k]), IsString(w[k + 1])
                   PROVE  Adjacent(v)
      BY DEF Adjacent
    <2>2. k \in 1 .. Len(w) /\ k + 1 \in 1 .. Len(w) /\ k \in 1 .. Len(v) - 1
      BY <1>1
    <2> QED BY <1>1, <2>1, <2>2 DEF Adjacent
  <1>3. w # <<>> /\ IsString(w[Len(w)]) /\ IsString(x) => Adjacent(v)
    <2>1. SUFFICES ASSUME w # <<>>, IsString(w[Len(w)]), IsString(x) PROVE Adjacent(v)
      OBVIOUS
    <2>2. Len(w) \in 1 .. Len(v) - 1 /\ Len(w) \in 1 .. Len(w)
      BY <1>1, <2>1
    <2>3. IsString(v[Len(w)]) /\ IsString(v[Len(w) + 1])
      BY <1>1, <2>1, <2>2
    <2> QED BY <2>2, <2>3 DEF Adjacent
  <1>4. (w = <<>> \/ ~ IsString(w[Len(w)]) \/ ~ IsPlus(x)) /\ ~ IsString(x) => Closed(v)
    <2>1. SUFFICES ASSUME w = <<>> \/ ~ IsString(w[Len(w)]) \/ ~ IsPlus(x), ~ IsString(x)
                   PROVE  Closed(v)
      OBVIOUS
    <2>2. v[Len(v)] = x /\ (Len(v) > 1 => v[Len(v) - 1] = w[Len(w)] /\ w # <<>>)
      BY <1>1
    <2> QED BY <2>1, <2>2 DEF Closed
  <1>5. Closed(w) => ~ Concatenates(w, x)
    BY <1>1 DEF Closed, Concatenates
  <1>6. w # <<>> /\ IsString(w[Len(w)]) => ~ Concatenates(w, x)
    BY DEF Concatenates, IsString, IsPlus
  <1> QED BY <1>2, <1>3, <1>4, <1>5, <1>6 DEF v

\* next() has read the token that the channel holds, or has met the end of the text.
ReadsOn ==
    /\ LookInv'
    /\ AtEof' => Exhausted' /\ Owed' = <<>>
    /\ \/ Exhausted /\ Exhausted' /\ Spelt' = Spelt
       \/ \E t :
             /\ items = <<t>>
             /\ \/ /\ Spelt' = Append(Spelt, Word(t)) /\ (held = <<>> \/ ~ Concatenates(Spelt, t))
                   /\ held' = <<>> =>
                         Adjacent(Spelt') \/ Closed(Spelt') \/ (held = <<>> /\ ~ IsString(t))
                \/ Spelt' = With(Spelt, t) /\ held' # <<>>

LEMMA ReadyIs ==
    ASSUME ChannelInv, NextToken(Ready)
    PROVE  /\ tokens = <<>> /\ items' = <<>> /\ UNCHANGED <<lexed, state, errcnt, want>>
           /\ \/ Exhausted /\ Exhausted' /\ Ready = EofToken
              \/ items = <<Ready>> /\ Ready.code \in Codes
  <1>1. \/ items = <<>> /\ items' = <<>> /\ state = "nil" /\ Ready = EofToken
        \/ \E t : items = <<t>> /\ t.code \in Codes /\ Ready = t /\ items' = <<>>
    <2>1. items = <<>> => items' = <<>> /\ state = "nil" /\ Ready = EofToken
      BY DEF NextToken, Ready
    <2>2. \A t : items = <<t>> => Ready = t /\ items' = <<>>
      BY DEF NextToken, Ready
    <2> QED BY <2>1, <2>2 DEF ChannelInv
  <1>2. tokens = <<>> /\ UNCHANGED <<lexed, state, errcnt, want>>
    BY DEF NextToken
  <1> QED BY <1>1, <1>2 DEF Exhausted

LEMMA FirstReads ==
    ASSUME IsSeq(read), ChannelInv, FirstToken
    PROVE  ReadsOn
  <1>1. /\ tokens = <<>> /\ tokens' = <<>> /\ held = <<>>
        /\ \/ Exhausted /\ Exhausted' /\ Ready = EofToken
           \/ items = <<Ready>> /\ Ready.code \in Codes
    BY ReadyIs DEF FirstToken
  <1> DEFINE t == Ready
  <1>2. \/ IsString(t) /\ held' = <<t>> /\ UNCHANGED <<got, read>>
        \/ ~ IsString(t) /\ Got(t) /\ held' = <<>>
    BY <1>1 DEF FirstToken
  <1> HIDE DEF t
  <1>3. Seen = read /\ Spelt = Words(read)
    BY <1>1, OwedIs DEF Seen, Owed, Spelt
  <1>4. CASE IsString(t)
    <2>1. held' = <<t>> /\ UNCHANGED <<got, read>>
      BY <1>2, <1>4
    <2>2. Seen' = Append(read, t)
      BY <1>1, <2>1, OwedIs DEF Seen, Owed
    <2>3. Spelt' = Append(Spelt, Word(t))
      BY <1>3, <2>2, WordsFacts DEF Spelt
    <2>4. t # EofToken
      BY <1>4 DEF IsString, EofToken
    <2>5. ~ AtEof'
      BY <2>1 DEF AtEof, NextToken, FirstToken, Asking
    <2> QED BY <1>1, <1>4, <2>1, <2>3, <2>4, <2>5 DEF ReadsOn, LookInv, t
  <1>5. CASE ~ IsString(t)
    <2>1. Got(t) /\ held' = <<>>
      BY <1>2, <1>5
    <2>2. CASE t = EofToken
      <3>1. Exhausted /\ Exhausted'
        BY <1>1, <2>2 DEF t, EofToken, Codes
      <3>2. read' = read
        BY <2>1, <2>2 DEF Got, EofToken
      <3>3. Seen' = read /\ Owed' = <<>>
        BY <1>1, <2>1, <3>2, OwedIs DEF Seen, Owed, OwedOf
      <3> QED BY <1>1, <1>3, <2>1, <3>1, <3>3 DEF ReadsOn, LookInv, Spelt
    <2>3. CASE t # EofToken
      <3>1. items = <<t>> /\ t.code \in Codes
        BY <1>1, <2>3 DEF t
      <3>2. t.code # "eof"
        BY <3>1 DEF Codes
      <3>3. read' = Append(read, t) /\ got' = <<t>>
        BY <2>1, <3>2 DEF Got
      <3>4. IsSeq(read')
        BY <3>3, AppendFacts
      <3>5. Seen' = Append(read, t)
        BY <1>1, <2>1, <3>3, <3>4, OwedIs DEF Seen, Owed
      <3>6. Spelt' = Append(Spelt, Word(t))
        BY <1>3, <3>5, WordsFacts DEF Spelt
      <3>7. ~ AtEof'
        BY <3>2, <3>3 DEF AtEof
      <3> QED BY <1>1, <1>5, <2>1, <3>1, <3>6, <3>7 DEF ReadsOn, LookInv
    <2> QED BY <2>2, <2>3
  <1> QED BY <1>4, <1>5

LEMMA PlusReads ==
    ASSUME IsSeq(read), ChannelInv, LookInv, PlusToken
    PROVE  ReadsOn
  <1> DEFINE t == Ready
  <1>1. /\ tokens = <<>>
        /\ \/ Exhausted /\ Exhausted' /\ t = EofToken
           \/ items = <<t>> /\ t.code \in Codes
    BY ReadyIs DEF PlusToken
  <1>2. PICK s : held = <<s>> /\ IsString(s)
    <2>1. Len(held) = 1 /\ Len(<<>>) = 0 /\ \A x, y : Len(<<x, y>>) = 2
      BY DEF PlusToken
    <2> QED BY <1>1, <2>1 DEF LookInv
  <1>3. \/ IsPlus(t) /\ held' = Append(held, t) /\ UNCHANGED <<tokens, got, read>>
        \/ ~ IsPlus(t) /\ tokens' = Pushed(<<>>, t) /\ Got(s) /\ held' = <<>>
    BY <1>2 DEF PlusToken
  <1> HIDE DEF t
  <1>4. Seen = Append(read, s) /\ Spelt = Words(Append(read, s))
    <2>1. Seen = Append(read, s)
      BY <1>1, <1>2, OwedIs DEF Seen, Owed
    <2> QED BY <2>1 DEF Spelt
  <1>5. IsSeq(Append(read, s)) /\ Append(read, s) # <<>>
        /\ Append(read, s)[Len(Append(read, s))] = s
    BY AppendFacts
  <1>6. IsSeq(Spelt) /\ Spelt # <<>> /\ IsString(Spelt[Len(Spelt)])
    <2> DEFINE v == Append(read, s)
    <2>1. IsSeq(v) /\ v # <<>> /\ v[Len(v)] = s /\ Spelt = Words(v)
      BY <1>4, <1>5
    <2> HIDE DEF v
    <2>2. Len(v) \in Nat /\ Len(v) # 0
      BY <2>1, AppendFacts
    <2>3. IsSeq(Words(v)) /\ Len(Words(v)) = Len(v) /\ Words(v)[Len(v)] = Word(s)
      BY <2>1, <2>2, WordsFacts
    <2>4. IsString(Word(s))
      BY <1>2 DEF Word, IsString
    <2> QED BY <2>1, <2>2, <2>3, <2>4, AppendFacts
  <1>7. ~ Concatenates(Spelt, t)
    BY <1>6, AtTheEnd
  <1>8. s.code # "eof"
    BY <1>2 DEF IsString
  <1>9. CASE IsPlus(t)
    <2>1. held' = <<s, t>> /\ UNCHANGED <<tokens, got, read>>
      BY <1>2, <1>3, <1>9
    <2>2. t # EofToken
      BY <1>9 DEF IsPlus, EofToken
    <2>3. Seen' = Append(Append(read, s), t)
      BY <1>1, <2>1, OwedIs DEF Seen, Owed
    <2>4. Spelt' = Append(Spelt, Word(t))
      BY <1>4, <1>5, <2>3, WordsFacts DEF Spelt
    <2>5. ~ AtEof'
      BY <2>1 DEF AtEof, NextToken, PlusToken, Asking
    <2> QED BY <1>1, <1>2, <1>7, <1>9, <2>1, <2>2, <2>4, <2>5 DEF ReadsOn, LookInv
  <1>10. CASE ~ IsPlus(t)
    <2>1. tokens' = Pushed(<<>>, t) /\ got' = <<s>> /\ read' = Append(read, s) /\ held' = <<>>
      BY <1>3, <1>8, <1>10 DEF Got
    <2>2. ~ AtEof'
      BY <1>8, <2>1 DEF AtEof
    <2>3. CASE t = EofToken
      <3>1. tokens' = <<>> /\ Exhausted /\ Exhausted'
        BY <1>1, <2>1, <2>3 DEF Pushed, EofToken, Codes
      <3>2. Seen' = Append(read, s)
        BY <1>5, <2>1, <3>1, OwedIs DEF Seen, Owed
      <3> QED BY <1>4, <2>1, <2>2, <3>1, <3>2 DEF ReadsOn, LookInv, Spelt
    <2>4. CASE t # EofToken
      <3>1. items = <<t>> /\ t.code \in Codes
        BY <1>1, <2>4
      <3>2. tokens' = <<t>>
        <4>1. t.code # "eof"
          BY <3>1 DEF Codes
        <4> QED BY <2>1, <4>1, Singletons DEF Pushed
      <3>3. Seen' = Append(Append(read, s), t)
        BY <1>5, <2>1, <3>2, OwedIs DEF Seen, Owed
      <3>4. Spelt' = Append(Spelt, Word(t))
        BY <1>4, <1>5, <3>3, WordsFacts DEF Spelt
      <3>5. Adjacent(Spelt') \/ Closed(Spelt')
        <4>1. (IsString(Word(t)) <=> IsString(t)) /\ (IsPlus(Word(t)) <=> IsPlus(t))
          BY DEF Word, IsString, IsPlus
        <4> QED BY <1>6, <1>10, <3>4, <4>1, AtTheEnd
      <3> QED BY <1>7, <2>1, <2>2, <3>1, <3>2, <3>4, <3>5 DEF ReadsOn, LookInv
    <2> QED BY <2>3, <2>4
  <1> QED BY <1>9, <1>10

LEMMA SecondReads ==
    ASSUME IsSeq(read), ChannelInv, LookInv, SecondToken
    PROVE  ReadsOn
  <1> DEFINE t == Ready
  <1>1. /\ tokens = <<>>
        /\ \/ Exhausted /\ Exhausted' /\ t = EofToken
           \/ items = <<t>> /\ t.code \in Codes
    BY ReadyIs DEF SecondToken
  <1>2. PICK s, p : held = <<s, p>> /\ IsString(s) /\ IsPlus(p)
    <2>1. Len(held) = 2 /\ Len(<<>>) = 0 /\ \A x : Len(<<x>>) = 1
      BY DEF SecondToken
    <2> QED BY <1>1, <2>1 DEF LookInv
  <1> DEFINE u == Token("string", s.text \o t.text, s.from, t.to)
  <1>3. \/ IsString(t) /\ held' = <<u>> /\ UNCHANGED <<tokens, got, read>>
        \/ ~ IsString(t) /\ tokens' = Pushed(<<p>>, t) /\ Got(s) /\ held' = <<>>
    BY <1>2 DEF SecondToken
  <1>4. IsString(u) /\ Word(u) = [code |-> "string", text |-> s.text \o t.text]
    BY DEF Token, IsString, Word
  <1> HIDE DEF t, u
  <1> DEFINE v == Append(read, s)
  <1>5. Seen = Append(v, p)
    BY <1>1, <1>2, OwedIs DEF Seen, Owed
  <1>6. IsSeq(v) /\ Len(v) \in Nat /\ Len(v) # 0 /\ v[Len(v)] = s
        /\ Len(v) = Len(read) + 1 /\ Len(read) \in Nat
    BY AppendFacts
  <1>7.
        /\ Words(v) = Append(Words(read), Word(s)) /\ IsSeq(Words(read)) /\ IsSeq(Words(v))
        /\ Len(Words(read)) = Len(read) /\ Len(Words(v)) = Len(v)
        /\ Words(v)[Len(v)] = Word(s)
    BY <1>6, WordsFacts
  <1> HIDE DEF v
  <1>8. Spelt = Append(Words(v), Word(p))
    BY <1>5, <1>6, WordsFacts DEF Spelt
  <1>9. /\ IsString(Word(s)) /\ IsPlus(Word(p)) /\ ~ IsString(Word(p))
    BY <1>2 DEF Word, IsString, IsPlus
  <1>10. /\ IsSeq(Spelt) /\ Len(Spelt) = Len(v) + 1
         /\ Spelt[Len(v) + 1] = Word(p) /\ Spelt[Len(v)] = Word(s)
         /\ \A k \in 1 .. Len(v) : Spelt[k] = Words(v)[k]
    <2>1. Len(v) \in 1 .. Len(v)
      BY <1>6
    <2> QED BY <1>6, <1>7, <1>8, <2>1, AppendFacts
  <1>11. s.code # "eof"
    BY <1>2 DEF IsString
  <1>12. CASE IsString(t)
    <2>1. held' = <<u>> /\ UNCHANGED <<tokens, got, read>>
      BY <1>3, <1>12
    <2>2. items = <<t>>
      BY <1>1, <1>12 DEF IsString, EofToken
    <2>3. Seen' = Append(read, u)
      BY <1>1, <2>1, OwedIs DEF Seen, Owed
    <2>4. Spelt' = Append(Words(read), Word(u))
      BY <2>3, WordsFacts DEF Spelt
    <2>5. Concatenates(Spelt, t)
      BY <1>6, <1>9, <1>10, <1>12 DEF Concatenates
    <2>6. SubSeq(Spelt, 1, Len(Spelt) - 2) = Words(read)
      <3> DEFINE w == Words(read)
      <3>1. PICK S : w \in Seq(S)
        BY <1>7 DEF IsSeq
      <3> DEFINE T == S \cup {Word(s), Word(p)}
      <3>2. w \in Seq(T) /\ Word(s) \in T /\ Word(p) \in T
        BY <3>1
      <3>3. Spelt = Append(Append(w, Word(s)), Word(p)) /\ Len(Spelt) - 2 = Len(w)
        BY <1>6, <1>7, <1>8, <1>10
      <3> HIDE DEF w, T
      <3>4. SubSeq(Append(Append(w, Word(s)), Word(p)), 1, Len(w)) = w
        BY <3>2
      <3> QED BY <3>3, <3>4 DEF w
    <2>7. Spelt[Len(Spelt) - 1].text = s.text
      BY <1>6, <1>10 DEF Word
    <2>8. With(Spelt, t) = Append(Words(read), Word(u))
      BY <1>4, <2>5, <2>6, <2>7 DEF With
    <2>9. ~ AtEof'
      BY <2>1 DEF AtEof, NextToken, SecondToken, Asking
    <2>10. held' # <<>>
      BY <2>1
    <2> QED BY <1>1, <1>4, <2>1, <2>2, <2>4, <2>8, <2>9, <2>10 DEF ReadsOn, LookInv
  <1>13. CASE ~ IsString(t)
    <2>1. tokens' = Pushed(<<p>>, t) /\ got' = <<s>> /\ read' = v /\ held' = <<>>
      BY <1>3, <1>11, <1>13 DEF Got, v
    <2>2. ~ AtEof'
      BY <1>11, <2>1 DEF AtEof
    <2>3. CASE t = EofToken
      <3>1. tokens' = <<p>> /\ Exhausted /\ Exhausted'
        BY <1>1, <2>1, <2>3 DEF Pushed, EofToken, Codes
      <3>2. Seen' = Append(v, p)
        BY <1>6, <2>1, <3>1, OwedIs DEF Seen, Owed
      <3> QED BY <1>5, <2>1, <2>2, <3>1, <3>2 DEF ReadsOn, LookInv, Spelt
    <2>4. CASE t # EofToken
      <3>1. items = <<t>> /\ t.code \in Codes
        BY <1>1, <2>4
      <3>2. tokens' = <<t, p>>
        <4>1. t.code # "eof"
          BY <3>1 DEF Codes
        <4> QED BY <2>1, <4>1, Singletons DEF Pushed
      <3>3. Seen' = Append(Append(v, p), t)
        BY <1>6, <2>1, <3>2, OwedIs DEF Seen, Owed
      <3>4. IsSeq(Append(v, p))
        BY <1>6, AppendFacts
      <3>5. Spelt' = Append(Spelt, Word(t))
        BY <1>5, <3>3, <3>4, WordsFacts DEF Spelt
      <3>6. ~ IsString(Word(t))
        BY <1>13 DEF Word, IsString
      <3>7. ~ Concatenates(Spelt, t)
        BY <1>13 DEF Concatenates
      <3>8. Closed(Spelt')
        <4>1. ~ IsString(Spelt[Len(Spelt)])
          BY <1>9, <1>10
        <4> QED BY <1>10, <3>5, <3>6, <4>1, AtTheEnd
      <3> QED BY <2>1, <2>2, <3>1, <3>2, <3>5, <3>7, <3>8 DEF ReadsOn, LookInv
    <2> QED BY <2>3, <2>4
  <1> QED BY <1>12, <1>13

LEMMA FrontFacts ==
    ASSUME NEW w, IsSeq(w)
    PROVE  /\ Len(w) = 1 => Front(w) = <<>>
           /\ Len(w) = 2 => Front(w) = <<w[1]>>
  <1>1. PICK S : w \in Seq(S)
    BY DEF IsSeq
  <1> DEFINE v == SubSeq(w, 1, Len(w) - 1)
  <1>2. Len(w) = 1 => v = <<>>
    BY <1>1
  <1>3. ASSUME Len(w) = 2 PROVE v = <<w[1]>>
    <2>1. v \in Seq(S) /\ Len(v) = 1 /\ v[1] = w[1]
      BY <1>1, <1>3
    <2> HIDE DEF v
    <2> QED BY <2>1
  <1> QED BY <1>2, <1>3 DEF Front

\* Pop: a token that was pushed back is returned, and all that has been read stays the same.
LEMMA PopKeeps ==
    ASSUME IsSeq(read), IsSeq(tokens), LookInv, Pop,
           \A k \in 1 .. Len(tokens) : tokens[k].code \in Codes
    PROVE  LookInv' /\ ~ AtEof' /\ held' = <<>> /\ held = <<>> /\ Spelt' = Spelt
  <1>1. /\ tokens # <<>> /\ Got(Last(tokens)) /\ tokens' = Front(tokens) /\ held' = held
    BY DEF Pop
  <1>2. CASE \E x : tokens = <<x>> /\ held = <<>>
    <2>1. PICK x : tokens = <<x>> /\ held = <<>>
      BY <1>2
    <2>2. Last(tokens) = x /\ tokens' = <<>>
      <3>1. IsSeq(<<x>>) /\ Len(<<x>>) = 1 /\ <<x>>[1] = x
        BY Singletons
      <3>2. Front(<<x>>) = <<>>
        BY <3>1, FrontFacts
      <3> QED BY <1>1, <2>1, <3>1, <3>2 DEF Last
    <2>3. x.code # "eof"
      <3>1. 1 \in 1 .. Len(<<x>>) /\ <<x>>[1] = x
        OBVIOUS
      <3>2. x.code \in Codes
        BY <2>1, <3>1
      <3> QED BY <3>2 DEF Codes
    <2>4. read' = Append(read, x) /\ got' = <<x>>
      BY <1>1, <2>2, <2>3 DEF Got
    <2>5. IsSeq(Append(read, x))
      BY AppendFacts
    <2>6. Seen = Append(read, x) /\ Seen' = Append(read, x)
      BY <1>1, <2>1, <2>2, <2>4, <2>5, OwedIs DEF Seen, Owed
    <2> QED BY <1>1, <2>1, <2>2, <2>3, <2>4, <2>6 DEF LookInv, AtEof, Spelt
  <1>3. CASE \E x, y : tokens = <<x, y>> /\ held = <<>>
    <2>1. PICK x, y : tokens = <<x, y>> /\ held = <<>>
      BY <1>3
    <2>2. Last(tokens) = y /\ tokens' = <<x>>
      <3>1. Len(<<x, y>>) = 2 /\ <<x, y>>[2] = y /\ <<x, y>>[1] = x
        OBVIOUS
      <3>2. IsSeq(<<x, y>>)
        BY <2>1
      <3>3. Front(<<x, y>>) = <<x>>
        BY <3>1, <3>2, FrontFacts
      <3> QED BY <1>1, <2>1, <3>1, <3>3 DEF Last
    <2>3. y.code # "eof"
      <3>1. 2 \in 1 .. Len(<<x, y>>) /\ <<x, y>>[2] = y
        OBVIOUS
      <3>2. y.code \in Codes
        BY <2>1, <3>1
      <3> QED BY <3>2 DEF Codes
    <2>4. read' = Append(read, y) /\ got' = <<y>>
      BY <1>1, <2>2, <2>3 DEF Got
    <2>5. IsSeq(Append(read, y))
      BY AppendFacts
    <2>6. Seen = Append(Append(read, y), x)
      BY <2>1, OwedIs DEF Seen, Owed
    <2>7. Seen' = Append(Append(read, y), x)
      BY <2>2, <2>4, <2>5, OwedIs DEF Seen, Owed
    <2> QED BY <1>1, <2>1, <2>2, <2>3, <2>4, <2>6, <2>7 DEF LookInv, AtEof, Spelt
  <1> QED BY <1>1, <1>2, <1>3 DEF LookInv

\* What it means for the order that next() reads a token.
LEMMA ReadingKeeps ==
    ASSUME IsSeq(Spelt), SpeltInv, ReadsOn, items' = <<>>, lexed' = lexed
    PROVE  SpeltInv'
  <1>1. CASE Exhausted /\ Exhausted' /\ Spelt' = Spelt
    <2>1. Concatenated(lexed)' = Concatenated(lexed)
      OBVIOUS
    <2> QED BY <1>1, <2>1 DEF SpeltInv, Exhausted
  <1>2. ASSUME NEW t, items = <<t>>,
               \/ /\ Spelt' = Append(Spelt, Word(t)) /\ (held = <<>> \/ ~ Concatenates(Spelt, t))
                  /\ held' = <<>> =>
                        Adjacent(Spelt') \/ Closed(Spelt') \/ (held = <<>> /\ ~ IsString(t))
               \/ Spelt' = With(Spelt, t) /\ held' # <<>>
        PROVE  SpeltInv'
    <2>1. Head(items) = t /\ items # <<>>
      BY <1>2
    <2>2. CASE Adjacent(Spelt) /\ Adjacent(Concatenated(lexed))
      <3>1. Adjacent(Spelt')
        BY <1>2, <2>2, AtTheEnd, WithFacts
      <3> QED BY <2>2, <3>1 DEF SpeltInv
    <2>3. CASE /\ Concatenated(lexed) = With(Spelt, t)
               /\ held = <<>> => Exhausted \/ Closed(Spelt)
      <3>1. CASE Spelt' = With(Spelt, t) /\ held' # <<>>
        BY <2>3, <3>1 DEF SpeltInv
      <3>2. CASE /\ Spelt' = Append(Spelt, Word(t)) /\ (held = <<>> \/ ~ Concatenates(Spelt, t))
                 /\ held' = <<>> =>
                       Adjacent(Spelt') \/ Closed(Spelt') \/ (held = <<>> /\ ~ IsString(t))
        <4>1. held = <<>> => Closed(Spelt)
          BY <2>1, <2>3 DEF Exhausted
        <4>2. ~ Concatenates(Spelt, t)
          BY <3>2, <4>1, AtTheEnd
        <4>3. Concatenated(lexed) = Spelt'
          BY <2>3, <3>2, <4>2, WithFacts
        <4>4. held' = <<>> => Adjacent(Spelt') \/ Closed(Spelt')
          <5>1. SUFFICES ASSUME held = <<>>, ~ IsString(t) PROVE Closed(Spelt')
            BY <3>2
          <5>2. ~ IsString(Word(t))
            BY <5>1 DEF Word, IsString
          <5>3. Closed(Append(Spelt, Word(t)))
            BY <4>1, <5>1, <5>2, AtTheEnd DEF Closed
          <5> QED BY <3>2, <5>3
        <4> QED BY <4>3, <4>4 DEF SpeltInv
      <3> QED BY <1>2, <3>1, <3>2
    <2> QED BY <2>1, <2>2, <2>3 DEF SpeltInv
  <1> QED BY <1>1, <1>2 DEF ReadsOn

LEMMA OrderInit == Init => OrderInv
  <1> SUFFICES ASSUME Init PROVE OrderInv
    OBVIOUS
  <1>1. TypeInv
    BY TypeInit
  <1>2. /\ lexed = <<>> /\ items = <<>> /\ errcnt = 0 /\ state = "ground" /\ read = <<>>
        /\ tokens = <<>> /\ held = <<>> /\ got = <<>> /\ want = "keyword"
    BY DEF Init, LexerInit
  <1>3. Concatenated(<<>>) = <<>> /\ IsSeq(<<>>)
    BY NoTokens, ConcatenatedAppend
  <1>4. Seen = <<>>
    BY <1>2, <1>3, OwedIs DEF Seen, Owed
  <1>5. Spelt = <<>>
    BY <1>4 DEF Spelt, Words
  <1>6. ChannelInv
    BY <1>2 DEF ChannelInv, AtEof
  <1>7. LookInv
    BY <1>2 DEF LookInv
  <1>8. SpeltInv
    BY <1>2, <1>3, <1>5 DEF SpeltInv, Closed
  <1> QED BY <1>1, <1>2, <1>3, <1>6, <1>7, <1>8 DEF OrderInv

\* nextStatement takes no part in it.
LEMMA StatementsApart ==
    ASSUME Statements
    PROVE  /\ UNCHANGED <<lexed, items, state, errcnt, tokens, held, read>>
           /\ AtEof' \/ want' \in {"check", "done"} => AtEof \/ want \in {"check", "done"}
  <1>1. CASE Keyword \/ NoKeyword \/ CloseBrace \/ EndStatement \/ OpenBrace \/ NoEnd
    <2>1. /\ UNCHANGED <<lexed, items, state, errcnt, tokens, held, read>>
          /\ got' = <<>> /\ want' \in {"keyword", "argument"}
      BY <1>1 DEF Keyword, NoKeyword, CloseBrace, EndStatement, OpenBrace, NoEnd, Return, lexerVars
    <2> QED BY <2>1 DEF AtEof
  <1>2. CASE Argument
    <2>1. /\ UNCHANGED <<lexed, items, state, errcnt, tokens, held, read>>
          /\ got' = <<>> \/ got' = got
          /\ want' = "end"
      BY <1>2 DEF Argument
    <2> QED BY <2>1 DEF AtEof
  <1>3. CASE EndOfFile
    <2>1. /\ UNCHANGED <<lexed, items, state, errcnt, tokens, held, read>>
          /\ got # <<>> /\ got[1].code = "eof"
      BY <1>3 DEF EndOfFile, lexerVars, Have
    <2> QED BY <2>1 DEF AtEof
  <1>4. CASE Check
    BY <1>4 DEF Check, lexerVars
  <1> QED BY <1>1, <1>2, <1>3, <1>4 DEF Statements

LEMMA SpeltIsSeq ==
    ASSUME IsSeq(read), LookInv
    PROVE  IsSeq(Spelt)
  <1>1. \A x, y : IsSeq(Append(read, x)) /\ IsSeq(Append(Append(read, x), y))
    BY AppendFacts
  <1>2. IsSeq(Seen)
    <2>1. CASE tokens = <<>> /\ held = <<>>
      BY <2>1, OwedIs DEF Seen, Owed
    <2>2. CASE tokens = <<>> /\ \E s : held = <<s>>
      <3>1. PICK s : held = <<s>>
        BY <2>2
      <3>2. Seen = Append(read, s)
        BY <2>2, <3>1, OwedIs DEF Seen, Owed
      <3> QED BY <1>1, <3>2
    <2>3. CASE tokens = <<>> /\ \E s, p : held = <<s, p>>
      <3>1. PICK s, p : held = <<s, p>>
        BY <2>3
      <3>2. Seen = Append(Append(read, s), p)
        BY <2>3, <3>1, OwedIs DEF Seen, Owed
      <3> QED BY <1>1, <3>2
    <2>4. CASE \E x : tokens = <<x>>
      <3>1. PICK x : tokens = <<x>>
        BY <2>4
      <3>2. Seen = Append(read, x)
        BY <3>1, OwedIs DEF Seen, Owed
      <3> QED BY <1>1, <3>2
    <2>5. CASE \E x, y : tokens = <<x, y>>
      <3>1. PICK x, y : tokens = <<x, y>>
        BY <2>5
      <3>2. Seen = Append(Append(read, y), x)
        BY <3>1, OwedIs DEF Seen, Owed
      <3> QED BY <1>1, <3>2
    <2> QED BY <2>1, <2>2, <2>3, <2>4, <2>5 DEF LookInv
  <1> QED BY <1>2, WordsFacts DEF Spelt

LEMMA OrderStep == OrderInv /\ [Next]_vars => OrderInv'
  <1> SUFFICES ASSUME OrderInv, [Next]_vars PROVE OrderInv'
    OBVIOUS
  <1>1. TypeInv'
    BY TypeStep DEF OrderInv
  <1>2. TypeInv /\ IsSeq(lexed) /\ IsSeq(Concatenated(lexed)) /\ errcnt \in Nat
    BY DEF OrderInv
  <1>3. ASSUME NEW t, lexed' = Append(lexed, t)
        PROVE  /\ IsSeq(lexed') /\ Concatenated(lexed') = With(Concatenated(lexed), t)
               /\ IsSeq(Concatenated(lexed'))
    <2>1. IsSeq(lexed')
      BY <1>2, <1>3, AppendFacts
    <2>2. Concatenated(lexed') = With(Concatenated(lexed), t)
      BY <1>2, <1>3, ConcatenatedAppend
    <2>3. IsSeq(With(Concatenated(lexed), t))
      BY <1>2, WithFacts
    <2> QED BY <2>1, <2>2, <2>3
  <1>4. IsSeq(read) /\ IsSeq(tokens) /\ \A k \in 1 .. Len(tokens) : tokens[k].code \in Codes
    <2>1. IsSeq(read) /\ IsSeq(tokens)
      BY <1>2, TokensFacts DEF TypeInv
    <2>2. \A k \in 1 .. Len(tokens) : tokens[k].code \in Codes
      BY <1>2, TokensFacts DEF TypeInv
    <2> QED BY <2>1, <2>2
  <1>5. ASSUME UNCHANGED <<lexed, items, state, errcnt, tokens, held, read>>,
               AtEof' \/ want' \in {"check", "done"} => AtEof \/ want \in {"check", "done"}
        PROVE  OrderInv'
    <2>1. IsSeq(lexed') /\ IsSeq(Concatenated(lexed')) /\ errcnt' \in Nat
      BY <1>2, <1>5
    <2>2. Spelt' = Spelt /\ Owed' = Owed /\ (Exhausted' <=> Exhausted)
      BY <1>5 DEF Spelt, Seen, Owed, Exhausted
    <2>3. ChannelInv => ChannelInv'
      BY <1>5, <2>2 DEF ChannelInv
    <2>4. LookInv => LookInv'
      BY <1>5 DEF LookInv
    <2>5. SpeltInv => SpeltInv'
      BY <1>5, <2>2 DEF SpeltInv
    <2> QED BY <1>1, <1>5, <2>1, <2>3, <2>4, <2>5 DEF OrderInv
  <1>6. CASE UNCHANGED vars
    <2>1. UNCHANGED <<lexed, items, state, errcnt, tokens, held, read, got, want>>
      BY <1>6 DEF vars, lexerVars, parserVars
    <2> QED BY <1>5, <2>1 DEF AtEof
  <1>7. CASE Statements
    BY <1>5, <1>7, StatementsApart
  <1>8. CASE LexStep
    <2>1. /\ Lex /\ got = <<>> /\ want \in {"keyword", "argument", "end"}
          /\ UNCHANGED <<tokens, held, read, got, want>>
      BY <1>8 DEF LexStep, Asking, parserVars
    <2>2. /\ UNCHANGED lexed \/ \E t : lexed' = Append(lexed, t)
          /\ errcnt' \in Nat /\ (errcnt' = 0 => errcnt = 0)
      BY <1>2, <2>1, LexSends
    <2>3. IsSeq(lexed') /\ IsSeq(Concatenated(lexed'))
      <3>1. CASE UNCHANGED lexed
        BY <1>2, <3>1
      <3> QED BY <1>3, <2>2, <3>1
    <2>4. ASSUME errcnt' = 0 PROVE ChannelInv' /\ LookInv' /\ SpeltInv'
      <3>1. ChannelInv /\ LookInv /\ SpeltInv
        BY <2>2, <2>4 DEF OrderInv
      <3>2. /\ state # "nil" /\ (state' = "quoted" => items' = <<>>)
            /\ \/ UNCHANGED <<items, lexed>>
               \/ /\ items = <<>>
                  /\ \E t : t.code \in Codes /\ items' = <<t>> /\ lexed' = Append(lexed, t)
        BY <1>2, <2>1, <2>4, <3>1, LexSends
      <3>3. ~ AtEof' /\ want' \notin {"check", "done"}
        BY <2>1 DEF AtEof
      <3>4. ChannelInv'
        BY <3>1, <3>2, <3>3 DEF ChannelInv
      <3>5. LookInv'
        BY <2>1, <3>1 DEF LookInv
      <3>6. Spelt' = Spelt /\ ~ Exhausted
        BY <2>1, <3>2 DEF Spelt, Seen, Owed, Exhausted
      <3>7. CASE UNCHANGED <<items, lexed>>
        <4>1. SpeltInv'
          BY <2>1, <3>1, <3>6, <3>7 DEF SpeltInv
        <4> QED BY <3>4, <3>5, <4>1
      <3>8. CASE /\ items = <<>>
                 /\ \E t : t.code \in Codes /\ items' = <<t>> /\ lexed' = Append(lexed, t)
        <4>1. PICK t : items' = <<t>> /\ lexed' = Append(lexed, t)
          BY <3>8
        <4>2. Concatenated(lexed') = With(Concatenated(lexed), t)
          BY <1>3, <4>1
        <4>3. Head(items') = t /\ items' # <<>>
          BY <4>1
        <4>4. CASE Adjacent(Spelt) /\ Adjacent(Concatenated(lexed))
          <5>1. Adjacent(With(Concatenated(lexed), t))
            BY <1>2, <4>4, WithFacts
          <5>2. Adjacent(Concatenated(lexed')) /\ Adjacent(Spelt')
            BY <3>6, <4>2, <4>4, <5>1
          <5>3. SpeltInv'
            BY <5>2 DEF SpeltInv
          <5> QED BY <3>4, <3>5, <5>3
        <4>5. CASE Concatenated(lexed) = Spelt /\ (held = <<>> => Closed(Spelt))
          <5>1. Concatenated(lexed') = With(Spelt', Head(items')) /\ (held' = <<>> => Closed(Spelt'))
            BY <2>1, <3>6, <4>2, <4>3, <4>5
          <5>2. SpeltInv'
            BY <4>3, <5>1 DEF SpeltInv
          <5> QED BY <3>4, <3>5, <5>2
        <4> QED BY <3>1, <3>6, <3>8, <4>4, <4>5 DEF SpeltInv
      <3> QED BY <3>2, <3>7, <3>8
    <2> QED BY <1>1, <2>2, <2>3, <2>4 DEF OrderInv
  <1>9. ASSUME lexed' = lexed, errcnt' = errcnt,
               errcnt = 0 /\ ChannelInv /\ LookInv /\ SpeltInv => ChannelInv' /\ LookInv' /\ SpeltInv'
        PROVE  OrderInv'
    <2>1. IsSeq(lexed') /\ IsSeq(Concatenated(lexed')) /\ errcnt' \in Nat
      BY <1>2, <1>9
    <2> QED BY <1>1, <1>9, <2>1 DEF OrderInv
  <1>10. CASE Pop
    <2>1. /\ UNCHANGED <<lexed, items, state, errcnt, want>>
          /\ want \in {"keyword", "argument", "end"}
      BY <1>10 DEF Pop, Asking, lexerVars
    <2>2. ASSUME ChannelInv, LookInv, SpeltInv PROVE ChannelInv' /\ LookInv' /\ SpeltInv'
      <3>1. LookInv' /\ ~ AtEof' /\ held' = <<>> /\ held = <<>> /\ Spelt' = Spelt
        BY <1>4, <1>10, <2>2, PopKeeps
      <3>2. ChannelInv'
        BY <2>1, <2>2, <3>1 DEF ChannelInv
      <3>3. SpeltInv'
        BY <2>1, <2>2, <3>1 DEF SpeltInv, Exhausted
      <3> QED BY <3>1, <3>2, <3>3
    <2> QED BY <1>9, <2>1, <2>2
  <1>11. CASE SkipError
    <2>1. NextToken(Ready) /\ Ready.code = "error" /\ UNCHANGED <<lexed, errcnt>>
      BY <1>11 DEF SkipError, NextToken
    <2>2. ~ ChannelInv
      <3>1. SUFFICES ASSUME ChannelInv PROVE FALSE
        OBVIOUS
      <3>2. Ready = EofToken \/ Ready.code \in Codes
        BY <2>1, <3>1, ReadyIs
      <3> QED BY <2>1, <3>2 DEF EofToken, Codes
    <2> QED BY <1>9, <2>1, <2>2
  <1>12. CASE FirstToken \/ PlusToken \/ SecondToken
    <2>1. /\ NextToken(Ready) /\ want \in {"keyword", "argument", "end"}
          /\ UNCHANGED <<lexed, state, errcnt, want>>
      BY <1>12 DEF FirstToken, PlusToken, SecondToken, NextToken, Asking
    <2>2. ASSUME ChannelInv, LookInv, SpeltInv PROVE ChannelInv' /\ LookInv' /\ SpeltInv'
      <3>1. ReadsOn
        BY <1>4, <1>12, <2>2, FirstReads, PlusReads, SecondReads
      <3>2. items' = <<>>
        BY <2>1, <2>2, ReadyIs
      <3>3. ChannelInv'
        BY <2>1, <3>1, <3>2 DEF ChannelInv, ReadsOn
      <3>4. IsSeq(Spelt)
        BY <1>4, <2>2, SpeltIsSeq
      <3>5. SpeltInv'
        BY <2>1, <2>2, <3>1, <3>2, <3>4, ReadingKeeps
      <3> QED BY <3>1, <3>3, <3>5 DEF ReadsOn
    <2> QED BY <1>9, <2>1, <2>2
  <1> QED BY <1>6, <1>7, <1>8, <1>10, <1>11, <1>12 DEF Next, Statements

\* For a text that is accepted, or ought to be, next() returns its tokens, all of them and
\* in order, with strings concatenated: for every set of texts, whatever was looked ahead at
\* and pushed back.
THEOREM InOrderCorrect == Spec => []InOrder
  <1>1. Spec => []OrderInv
    BY OrderInit, OrderStep, PTL DEF Spec
  <1>2. OrderInv /\ Accepts => InOrder
    <2>1. SUFFICES ASSUME OrderInv, Accepts, want = "done", errcnt = 0,
                          Accepted \/ WellFormed(Concatenated(lexed))
                   PROVE  Concatenated(lexed) = Words(read)
      BY DEF InOrder
    <2>2. Exhausted /\ Owed = <<>> /\ SpeltInv /\ IsSeq(Concatenated(lexed)) /\ LookInv
      BY <2>1 DEF OrderInv, ChannelInv
    <2>3. IsSeq(read)
      BY <2>1, TokensFacts DEF OrderInv, TypeInv
    <2>4. Seen = read
      BY <2>2, <2>3, Concat DEF Seen
    <2>5. ~ Adjacent(Concatenated(lexed)) \/ ~ Adjacent(Spelt)
      <3>1. CASE WellFormed(Concatenated(lexed))
        BY <2>2, <3>1, NotWellFormed
      <3>2. CASE Accepted
        <4>1. WellFormed(read)
          BY <2>1, <3>2 DEF Accepts
        <4>2. ~ Adjacent(read)
          BY <2>3, <4>1, NotWellFormed
        <4>3. Adjacent(Words(read)) => Adjacent(read)
          <5>1. /\ Len(Words(read)) = Len(read) /\ Len(read) \in Nat
                /\ \A k \in 1 .. Len(read) : Words(read)[k] = Word(read[k])
            BY <2>3, WordsFacts, AppendFacts
          <5>2. SUFFICES ASSUME NEW k \in 1 .. Len(read) - 1,
                                IsString(Words(read)[k]), IsString(Words(read)[k + 1])
                         PROVE  Adjacent(read)
            BY <5>1 DEF Adjacent
          <5>3. k \in 1 .. Len(read) /\ k + 1 \in 1 .. Len(read)
            BY <5>1
          <5>4. IsString(Word(read[k])) /\ IsString(Word(read[k + 1]))
            BY <5>1, <5>2, <5>3
          <5>5. IsString(read[k]) /\ IsString(read[k + 1])
            BY <5>4 DEF IsString, Word
          <5> QED BY <5>5 DEF Adjacent
        <4> QED BY <2>4, <4>2, <4>3 DEF Spelt
      <3> QED BY <2>1, <3>1, <3>2
    <2>6. items = <<>>
      BY <2>2 DEF Exhausted
    <2> QED BY <2>2, <2>4, <2>5, <2>6 DEF SpeltInv, Spelt
  <1> QED BY <1>1, <1>2, AcceptsCorrect, PTL
=============================================================================
