----------------------------- MODULE ImageParser -----------------------------
(***************************************************************************)
(* The configuration file's grammar: ImageParser (ImageParser.h and          *)
(* ImageConf.cxx) reading blocks from the lexer with one token of            *)
(* look-ahead, and the loop of ImageConf::Parse that takes them.             *)
(*                                                                          *)
(* The lexer answers any token at any time, or an error; after the end of    *)
(* the text it answers the end again.  What an image or a partition does     *)
(* with its properties is in ImageBuild and Dispatch.                        *)
(***************************************************************************)
EXTENDS Sequences, FiniteSetsExt

CONSTANTS Identifiers,  \* identifiers the text is made of
          Scalars,      \* values that are no identifiers
          BadNumIds,    \* numbers with a multiplier ImageNumId::Parse refuses
          BlockTypes,   \* identifiers that begin a block: image, partition
          MaxTokens     \* bound: tokens of a text

Separators  == {":", ";", ",", "{", "}", "="}
Eof         == "Eof"
LexError    == "LexError"
NoToken     == "NoToken"

ASSUME ParserAssumption ==
    /\ MaxTokens \in Nat
    /\ BlockTypes \subseteq Identifiers
    /\ Identifiers \cap (Scalars \cup BadNumIds) = {}
    /\ (Identifiers \cup Scalars \cup BadNumIds)
           \cap (Separators \cup {Eof, LexError, NoToken}) = {}

ValTypes == Identifiers \cup Scalars \cup BadNumIds
TokenSet == ValTypes \cup Separators

VARIABLES text,     \* the tokens the lexer has answered
          ended,    \* it has answered the end
          nextTok,  \* the token peekToken read
          step,     \* where the parser is
          block,    \* the block it is in
          propName, \* the property it is in
          val,      \* the value it has read, a sequence for a list
          blocks,   \* the blocks ParseBlock has returned
          warnings  \* properties reported as duplicates

inputVars == <<text, ended, nextTok>>
parseVars == <<inputVars, step, block, propName, val, blocks, warnings>>

NoBlock == [type |-> NoToken, name |-> NoToken, props |-> <<>>]

ParseInit ==
    /\ text = <<>>
    /\ ended = FALSE
    /\ nextTok = NoToken
    /\ step = "block"
    /\ block = NoBlock
    /\ propName = NoToken
    /\ val = <<>>
    /\ blocks = <<>>
    /\ warnings = 0

-----------------------------------------------------------------------------
(* Tokens.                                                                  *)

\* SimpleLexer::NextToken.
LexerAnswers(tok) ==
    \/ ~ ended /\ tok \in TokenSet /\ Len(text) < MaxTokens
       /\ text' = Append(text, tok) /\ UNCHANGED ended
    \/ tok = Eof /\ ended' = TRUE /\ UNCHANGED text
    \/ ~ ended /\ tok = LexError /\ Len(text) < MaxTokens
       /\ text' = Append(text, LexError) /\ UNCHANGED ended

Answers == TokenSet \cup {Eof, LexError}

nextToken(tok) ==
    IF nextTok # NoToken
    THEN tok = nextTok /\ nextTok' = NoToken /\ UNCHANGED <<text, ended>>
    ELSE LexerAnswers(tok) /\ UNCHANGED nextTok

\* Mutant: the token looked at is not kept.
Buffered_Dropped(tok) == NoToken

\* peekToken keeps the token it answers.
Buffered(tok) == tok

peekToken(tok) ==
    IF nextTok # NoToken
    THEN tok = nextTok /\ UNCHANGED inputVars
    ELSE LexerAnswers(tok) /\ nextTok' = Buffered(tok)

\* An error of the lexer or of the parser ends the parse.
Refuse ==
    /\ step' = "refused"
    /\ UNCHANGED <<block, propName, val, blocks, warnings>>

\* expectToken, then on to the next step.
expectToken(type, then) ==
    \E tok \in Answers :
        /\ nextToken(tok)
        /\ IF tok = type
           THEN step' = then /\ UNCHANGED <<block, propName, val, blocks, warnings>>
           ELSE Refuse

-----------------------------------------------------------------------------
(* ParseBlock and processBlock.                                             *)

ParseBlock ==
    /\ step = "block"
    /\ \E tok \in Answers :
           /\ nextToken(tok)
           /\ IF tok \in Identifiers
              THEN /\ block' = [NoBlock EXCEPT !.type = tok]
                   /\ step' = "name"
                   /\ UNCHANGED <<propName, val, blocks, warnings>>
              ELSE IF tok = Eof
              THEN /\ step' = "accepted"
                   /\ UNCHANGED <<block, propName, val, blocks, warnings>>
              ELSE Refuse

BlockName ==
    /\ step = "name"
    /\ \E tok \in Answers :
           /\ nextToken(tok)
           /\ IF tok \in Identifiers
              THEN /\ block' = [block EXCEPT !.name = tok]
                   /\ step' = "obrace"
                   /\ UNCHANGED <<propName, val, blocks, warnings>>
              ELSE Refuse

BlockOpens == step = "obrace" /\ expectToken("{", "prop")

\* The brace that ends a block hands it to ImageConf::Parse, which refuses a
\* type it does not know; an identifier begins a property.
PropOrEnd ==
    /\ step = "prop"
    /\ \E tok \in Answers :
           /\ nextToken(tok)
           /\ IF tok = "}" /\ block.type \in BlockTypes
              THEN /\ blocks' = Append(blocks, block)
                   /\ block' = NoBlock
                   /\ propName' = NoToken
                   /\ val' = <<>>
                   /\ step' = "block"
                   /\ UNCHANGED warnings
              ELSE IF tok \in Identifiers
              THEN /\ propName' = tok
                   /\ step' = "colon"
                   /\ UNCHANGED <<block, val, blocks, warnings>>
              ELSE Refuse

\* Mutant: insert, which keeps the first value.
Assign_First(props, name, v) ==
    IF name \in DOMAIN props THEN props
    ELSE [n \in DOMAIN props \cup {name} |-> IF n = name THEN v ELSE props[n]]

\* insert_or_assign.
Assign(props, name, v) ==
    [n \in DOMAIN props \cup {name} |-> IF n = name THEN v ELSE props[n]]

\* The semicolon that ends a property stores it; an earlier value is reported
\* and overwritten.
StoreProp(v) ==
    /\ block' = [block EXCEPT !.props = Assign(@, propName, v)]
    /\ warnings' = IF propName \in DOMAIN block.props THEN warnings + 1 ELSE warnings
    /\ step' = "prop"
    /\ val' = v
    /\ UNCHANGED <<propName, blocks>>

-----------------------------------------------------------------------------
(* processProp and processList.                                             *)

Colon == step = "colon" /\ expectToken(":", "value")

ReadValue ==
    /\ step = "value"
    /\ \E tok \in Answers :
           /\ nextToken(tok)
           /\ IF tok = LexError
              THEN Refuse
              ELSE /\ val' = <<tok>>
                   /\ step' = "peek"
                   /\ UNCHANGED <<block, propName, blocks, warnings>>

\* The token after the value is looked at before the value's own type: a comma
\* makes it the first entry of a list.
PeekComma ==
    /\ step = "peek"
    /\ \E tok \in Answers :
           /\ peekToken(tok)
           /\ IF \/ tok = LexError
                 \/ tok = ","  /\ val[1] \notin Identifiers
                 \/ tok # "," /\ val[1] \notin Identifiers \cup Scalars
              THEN Refuse
              ELSE /\ step' = IF tok = "," THEN "separator" ELSE "semicolon"
                   /\ UNCHANGED <<block, propName, val, blocks, warnings>>

Semicolon ==
    /\ step = "semicolon"
    /\ \E tok \in Answers :
           /\ nextToken(tok)
           /\ IF tok = ";" THEN StoreProp(val) ELSE Refuse

ListSeparator ==
    /\ step = "separator"
    /\ \E tok \in Answers :
           /\ nextToken(tok)
           /\ IF tok = ";" THEN StoreProp(val)
              ELSE IF tok = ","
              THEN /\ step' = "entry"
                   /\ UNCHANGED <<block, propName, val, blocks, warnings>>
              ELSE Refuse

ListEntry ==
    /\ step = "entry"
    /\ \E tok \in Answers :
           /\ nextToken(tok)
           /\ IF tok \in Identifiers
              THEN /\ val' = Append(val, tok)
                   /\ step' = "separator"
                   /\ UNCHANGED <<block, propName, blocks, warnings>>
              ELSE Refuse

ParseNext ==
    \/ ParseBlock \/ BlockName \/ BlockOpens \/ PropOrEnd
    \/ Colon \/ ReadValue \/ PeekComma \/ Semicolon
    \/ ListSeparator \/ ListEntry

ParseSpec == ParseInit /\ [][ParseNext]_parseVars

-----------------------------------------------------------------------------
(* The language, told without a parser.                                     *)

Positions(s, tok) == {i \in DOMAIN s : s[i] = tok}

\* The pieces of s that end with tok, in order, without tok.
Start(s, tok, i) == Max({0} \cup {j \in Positions(s, tok) : j < i}) + 1
Pieces(s, tok)   == {SubSeq(s, Start(s, tok, i), i - 1) : i \in Positions(s, tok)}
EndsWith(s, tok) == s = <<>> \/ s[Len(s)] = tok

IsList(s) ==
    /\ Len(s) % 2 = 1
    /\ \A i \in DOMAIN s : IF i % 2 = 1 THEN s[i] \in Identifiers ELSE s[i] = ","

IsProp(s) ==
    /\ Len(s) >= 3
    /\ s[1] \in Identifiers
    /\ s[2] = ":"
    /\ LET v == SubSeq(s, 3, Len(s))
       IN  IsList(v) \/ (Len(v) = 1 /\ v[1] \in Scalars)

IsBlock(s) ==
    /\ Len(s) >= 3
    /\ s[1] \in BlockTypes
    /\ s[2] \in Identifiers
    /\ s[3] = "{"
    /\ LET body == SubSeq(s, 4, Len(s))
       IN  EndsWith(body, ";") /\ \A p \in Pieces(body, ";") : IsProp(p)

IsFile(s) == EndsWith(s, "}") /\ \A b \in Pieces(s, "}") : IsBlock(b)

\* What a block says: a property has the value it is given last.
Entries(s, i) ==
    LET end == Min({j \in Positions(s, ";") : j > i})
    IN  SelectSeq(SubSeq(s, i + 2, end - 1), LAMBDA tok : tok # ",")

BlockOf(s) ==
    LET named == {i \in 1 .. Len(s) - 1 : s[i + 1] = ":"}
    IN  [type  |-> s[1],
         name  |-> s[2],
         props |-> [n \in {s[i] : i \in named} |->
                       Entries(s, Max({i \in named : s[i] = n}))]]

Repeats(s) ==
    LET named == {i \in 1 .. Len(s) - 1 : s[i + 1] = ":"}
    IN  Cardinality(named) - Cardinality({s[i] : i \in named})

\* The pieces of s that end with a brace, as a sequence.
BlockTexts(s) ==
    [k \in 1 .. Cardinality(Positions(s, "}")) |->
        LET end == CHOOSE i \in Positions(s, "}") :
                       Cardinality({j \in Positions(s, "}") : j <= i}) = k
        IN  SubSeq(s, Start(s, "}", end), end - 1)]

-----------------------------------------------------------------------------
\* Between two blocks, the parser has returned exactly the blocks that stand
\* in the text: look-ahead loses and repeats nothing, no property goes to a
\* neighbour, the last value counts and each repetition has been reported.
BlocksFaithful ==
    step \in {"block", "accepted"} =>
        /\ Len(blocks) = Len(BlockTexts(text))
        /\ \A k \in DOMAIN blocks : blocks[k] = BlockOf(BlockTexts(text)[k])
        /\ warnings =
             MapThenSumSet(LAMBDA k : Repeats(BlockTexts(text)[k]), DOMAIN blocks)

\* One way to end the text from wherever a parser can be.
Completions(id) ==
    {<<>>, <<"}">>, <<";", "}">>, <<id, ";", "}">>, <<":", id, ";", "}">>,
     <<"{", "}">>, <<id, "{", "}">>}

\* The parser accepts the texts of the grammar only, and refuses only what no
\* continuation could put right.
AcceptsExactly ==
    /\ step = "accepted" => IsFile(text)
    /\ step = "refused" =>
           IF ended
           THEN ~ IsFile(text)
           ELSE \A id \in Identifiers : \A s \in Completions(id) : ~ IsFile(text \o s)

=============================================================================
