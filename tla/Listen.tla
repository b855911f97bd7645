-------------------------------- MODULE Listen --------------------------------
(***************************************************************************)
(* observeListen (wasmpg/listen.go): which channels does a statement text  *)
(* LISTEN to or UNLISTEN from?  The multiplexer cannot ask the one backend *)
(* session who listens, so it reads it off the statements going past.      *)
(*                                                                         *)
(* A text is a sequence of cells: a punctuation character, "nl", "sp", a   *)
(* digit, or a letter, the keywords among the letters.                     *)
(***************************************************************************)
EXTENDS Naturals, Sequences, SequencesExt, FiniteSetsExt

CONSTANTS LowerOf,  \* [letters -> letters]: folding to lower case
          Digits

Quotes == {"'", "\""}
Blanks == {"sp", "nl"}

ASSUME LettersAssumption ==
    /\ {"listen", "unlisten"} \subseteq DOMAIN LowerOf
    /\ \A c \in DOMAIN LowerOf : LowerOf[c] \in DOMAIN LowerOf
    /\ Digits \cap DOMAIN LowerOf = {}
    /\ (Digits \cup DOMAIN LowerOf)
         \cap (Quotes \cup Blanks \cup {"$", ";", "-", "/", "*", "NUL"}) = {}

isIdentByte(c) == c \in DOMAIN LowerOf \cup Digits \cup {"$"}
ToLower(s) == [i \in DOMAIN s |-> IF s[i] \in DOMAIN LowerOf THEN LowerOf[s[i]] ELSE s[i]]

From(s, i) == SubSeq(s, i, Len(s))
Starts(s, i, p) == IsPrefix(p, From(s, i))

\* The position behind the first p at or after i, or behind the whole text.
Past(s, i, p) ==
    LET at == {j \in i..Len(s) : Starts(s, j, p)}
    IN  IF at = {} THEN Len(s) + 1 ELSE Min(at) + Len(p)

-----------------------------------------------------------------------------
\* Cutting a text into statements

\* The quote that closes the one at i, or the end of the text: a doubled quote
\* closes nothing.
ClosingQuote(s, i) ==
    LET quote(j) == j <= Len(s) /\ s[j] = s[i]
        close[j \in 1..Len(s) + 2] ==
          CASE j > Len(s)                  -> Len(s) + 1
            [] quote(j) /\ quote(j + 1)    -> close[j + 2]
            [] quote(j) /\ ~quote(j + 1)   -> j
            [] OTHER                       -> close[j + 1]
    IN  close[i + 1]

skipQuoted(s, i) == Min({ClosingQuote(s, i), Len(s)}) + 1

\* The `$` that ends an opening tag at i: no `$` and no leading digit in it.
TagEnds(s, i) ==
    {j \in i + 1..Len(s) :
       /\ s[j] = "$" /\ s[i + 1] \notin Digits
       /\ \A k \in i + 1..j - 1 : s[k] # "$" /\ isIdentByte(s[k])}

\* Past the $tag$ body that opens at i, or past a `$` that opens none.
skipDollarQuoted(s, i) ==
    IF TagEnds(s, i) = {} THEN i + 1
    ELSE LET end == Min(TagEnds(s, i))
         IN  Past(s, end + 1, SubSeq(s, i, end))

\* A dollar-quoted body closed by any dollar-quote.
Skip_AnyTag(s, i) ==
    CASE s[i] \in Quotes            -> skipQuoted(s, i)
      [] s[i] = "$"                 -> Past(s, i + 1, <<"$">>)
      [] Starts(s, i, <<"-", "-">>) -> Past(s, i, <<"nl">>)
      [] Starts(s, i, <<"/", "*">>) -> Past(s, i + 2, <<"*", "/">>)
      [] OTHER                      -> i + 1

Skip(s, i) ==
    CASE s[i] \in Quotes            -> skipQuoted(s, i)
      [] s[i] = "$"                 -> skipDollarQuoted(s, i)
      [] Starts(s, i, <<"-", "-">>) -> Past(s, i, <<"nl">>)
      [] Starts(s, i, <<"/", "*">>) -> Past(s, i + 2, <<"*", "/">>)
      [] OTHER                      -> i + 1

\* The statements between top-level semicolons, the last one included.
splitStatements(s) ==
    LET semis[i \in 1..Len(s) + 1] ==
          CASE i > Len(s)  -> <<>>
            [] i <= Len(s) /\ s[i] = ";" -> <<i>> \o semis[i + 1]
            [] OTHER       -> semis[Skip(s, i)]
        cuts == <<0>> \o semis[1] \o <<Len(s) + 1>>
    IN  [k \in 1..Len(cuts) - 1 |-> SubSeq(s, cuts[k] + 1, cuts[k + 1] - 1)]

-----------------------------------------------------------------------------
\* Reading one statement

skipLeading(s) ==
    LET dropped(i) == \/ s[i] \in Blanks
                      \/ Starts(s, i, <<"-", "-">>) \/ Starts(s, i, <<"/", "*">>)
        rest[i \in 1..Len(s) + 1] ==
          IF i <= Len(s) /\ dropped(i) THEN rest[Skip(s, i)] ELSE From(s, i)
    IN  rest[1]

hasKeyword(s, kw) ==
    /\ s # <<>> /\ ToLower(s)[1] = kw
    /\ Len(s) > 1 => ~isIdentByte(s[2])

\* The channel a name at the front of s denotes; <<>> when there is none: an
\* unterminated or empty quoted name, or no identifier.
parseIdentifier(s) ==
    LET unquoted[i \in 1..Len(s) + 1] ==
          IF i <= Len(s) /\ isIdentByte(s[i])
          THEN <<ToLower(s)[i]>> \o unquoted[i + 1] ELSE <<>>
        end == ClosingQuote(s, 1)
        quoted[i \in 1..end + 1] ==
          IF i >= end THEN <<>>
          ELSE <<s[i]>> \o quoted[IF s[i] = "\"" THEN i + 2 ELSE i + 1]
    IN  CASE s = <<>>                -> <<>>
          [] s # <<>> /\ s[1] # "\"" -> unquoted[1]
          [] OTHER                   -> IF end > Len(s) THEN <<>> ELSE quoted[2]

NoOp == [kind |-> "none", channel |-> <<>>]

parseListenOp(stmt) ==
    LET s == skipLeading(stmt)
        kind == CASE hasKeyword(s, "unlisten") -> "unlisten"
                  [] hasKeyword(s, "listen")   -> "listen"
                  [] OTHER                     -> "none"
        arg == skipLeading(Tail(s))
        name == parseIdentifier(arg)
    IN  CASE kind = "none" -> NoOp
          [] kind # "none" /\ IsPrefix(<<"*">>, arg) ->
               IF kind = "unlisten" THEN [kind |-> "unlistenAll", channel |-> <<>>] ELSE NoOp
          [] OTHER -> IF name = <<>> THEN NoOp ELSE [kind |-> kind, channel |-> name]

observeListen(sql) ==
    LET stmts == splitStatements(sql)
        op(i) == parseListenOp(stmts[i])
    IN  FlattenSeq([i \in DOMAIN stmts |-> IF op(i) = NoOp THEN <<>> ELSE <<op(i)>>])

-----------------------------------------------------------------------------
(* What a text means, known from how it was put together.  A statement is a  *)
(* sequence of tokens:                                                       *)
(*   literal, quoted    a body between quotes, its own quotes doubled        *)
(*   dollar             a body between two $tag$                             *)
(*   line, block        a comment                                            *)
(*   cells              anything else, given as it is written                *)
(*   listen             LISTEN or UNLISTEN: a keyword as it is written, what *)
(*                      separates it from its argument, and the argument     *)

Doubled(q, body) ==
    FlattenSeq([i \in DOMAIN body |-> IF body[i] = q THEN <<q, q>> ELSE <<body[i]>>])

Written(token) ==
    CASE token.k = "literal" -> <<"'">> \o Doubled("'", token.body) \o <<"'">>
      [] token.k = "quoted"  -> <<"\"">> \o Doubled("\"", token.body) \o <<"\"">>
      [] token.k = "dollar"  -> <<"$">> \o token.tag \o <<"$">> \o token.body
                                  \o <<"$">> \o token.tag \o <<"$">>
      [] token.k = "line"    -> <<"-", "-">> \o token.body \o <<"nl">>
      [] token.k = "block"   -> <<"/", "*">> \o token.body \o <<"*", "/">>
      [] OTHER               -> token.body

Statement(tokens) == FlattenSeq([i \in DOMAIN tokens |-> Written(tokens[i])])

Sql(stmts) ==
    FlattenSeq([i \in DOMAIN stmts |->
      IF i = 1 THEN Statement(stmts[i]) ELSE <<";">> \o Statement(stmts[i])])

\* LISTEN and UNLISTEN count where they open a statement, behind comments and
\* blanks only; an unquoted channel is folded to lower case, a quoted one kept.
IsTrivia(token) ==
    \/ token.k \in {"line", "block"}
    \/ token.k = "cells" /\ ToSet(token.body) \subseteq Blanks

\* The first token from the i-th on that counts, or behind the last.
Real(tokens, i) ==
    Min({j \in i..Len(tokens) : ~IsTrivia(tokens[j])} \cup {Len(tokens) + 1})

Meaning(tokens) ==
    LET first == Real(tokens, 1)
        second == Real(tokens, first + 1)
        word == ToLower(tokens[first].body)
        arg == tokens[second]
    IN  CASE second > Len(tokens) -> NoOp
          [] second <= Len(tokens) /\
               (tokens[first].k # "cells" \/ word \notin {<<"listen">>, <<"unlisten">>}) -> NoOp
          [] OTHER ->
               CASE arg.k = "quoted" /\ arg.body # <<>> ->
                      [kind |-> word[1], channel |-> arg.body]
                 [] arg.k = "cells" /\ arg.body = <<"*">> ->
                      IF word[1] = "unlisten"
                      THEN [kind |-> "unlistenAll", channel |-> <<>>] ELSE NoOp
                 [] arg.k = "cells" /\ arg.body # <<"*">> ->
                      [kind |-> word[1], channel |-> ToLower(arg.body)]
                 [] OTHER -> NoOp

\* The texts PostgreSQL would cut into these tokens: a token holds nothing that
\* would end it early, two tokens do not touch where they would be one, and
\* LISTEN is followed by a name or a star, or by what is an error.
IsSequence(s) == Len(s) \in Nat /\ s = [i \in 1..Len(s) |-> s[i]]
FirstIn(s, p) == \A j \in 1..Len(s) : ~Starts(s \o p, j, p)

IsKeyword(c) == ToLower(<<c>>)[1] \in {"listen", "unlisten"}

LegalCells(body) ==
    /\ body # <<>>
    /\ \A i \in DOMAIN body :
         /\ body[i] \notin Quotes \cup {";"}
         /\ body[i] = "$" => i < Len(body) /\ body[i + 1] \in Digits
         /\ ~Starts(body, i, <<"-", "-">>) /\ ~Starts(body, i, <<"/", "*">>)
    /\ body[1] \in Blanks => ToSet(body) \subseteq Blanks
    /\ IsKeyword(body[1]) /\ Len(body) > 1 => isIdentByte(body[2])

LegalToken(token) ==
    /\ IsSequence(token.body) /\ "NUL" \notin ToSet(token.body)
    /\ \/ token.k \in {"literal", "quoted"}
       \/ /\ token.k = "dollar" /\ IsSequence(token.tag)
          /\ \A i \in DOMAIN token.tag : isIdentByte(token.tag[i]) /\ token.tag[i] # "$"
          /\ token.tag # <<>> => token.tag[1] \notin Digits
          /\ FirstIn(token.body, <<"$">> \o token.tag \o <<"$">>)
       \/ token.k = "line" /\ "nl" \notin ToSet(token.body)
       \/ /\ token.k = "block" /\ FirstIn(token.body, <<"*", "/">>)
          /\ \A j \in DOMAIN token.body : ~Starts(token.body \o <<"*">>, j, <<"/", "*">>)
       \/ token.k = "cells" /\ LegalCells(token.body)

Apart(a, b) ==
    LET last == a.body[Len(a.body)]
        next == Written(b)[1]
    IN  /\ a.k \in {"literal", "quoted"} => b.k # a.k
        /\ a.k = "cells" => /\ ~(isIdentByte(last) /\ isIdentByte(next))
                            /\ <<last, next>> \notin {<<"-", "-">>, <<"/", "*">>}

LegalStatement(tokens) ==
    LET first == Real(tokens, 1)
        second == Real(tokens, first + 1)
        arg == tokens[second]
    IN  /\ IsSequence(tokens)
        /\ \A i \in DOMAIN tokens :
             LegalToken(tokens[i]) /\ (i > 1 => Apart(tokens[i - 1], tokens[i]))
        /\ (/\ second <= Len(tokens)
            /\ tokens[first].k = "cells" /\ IsKeyword(tokens[first].body[1])) =>
             \/ arg.k \in {"literal", "quoted"}
             \/ /\ arg.k = "cells"
                /\ arg.body = <<"*">> \/ \A i \in DOMAIN arg.body : isIdentByte(arg.body[i])

LegalText(stmts) ==
    /\ IsSequence(stmts) /\ stmts # <<>>
    /\ \A k \in DOMAIN stmts : LegalStatement(stmts[k])
=============================================================================
