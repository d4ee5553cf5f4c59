----------------------------- MODULE SimpleLexer -----------------------------
(***************************************************************************)
(* SimpleLexer::NextToken: a scanner with one character of look-ahead,       *)
(* called until it answers the end of the text or an error.                  *)
(*                                                                          *)
(* The text is chosen while it is read.  A character that comes back         *)
(* (returnChar, peekChar) waits in nextChar, where NUL means none, as in the *)
(* code: a NUL of the text that is returned or peeked is lost.               *)
(***************************************************************************)
EXTENDS Integers, FiniteSetsExt, SequencesExt

CONSTANTS Chars,     \* characters texts are made of
          MaxChars,  \* bound: characters of a text
          Limit,     \* numbers below it fit (the code: 2^64)
          Reserved   \* words that are no identifiers (the code: true, false)

Nul         == "NUL"
LineFeed    == "LF"
Return      == "CR"
Blanks      == {" "}
Quotes      == {"\"", "'"}
Punctuators == {"{", "}", ":", ";", ",", "=", "/"}
IdStart     == {"n", "b", "x", "_"}
Octal       == {"0", "1", "7"}
Digits      == Octal \cup {"8"}
DigitValue  == [c \in Digits \cup {"b"} |->
                   CASE c = "0" -> 0 [] c = "1" -> 1 [] c = "7" -> 7
                     [] c = "8" -> 8 [] c = "b" -> 11]


\* The characters the main switch of NextToken has a case for.
Recognized ==
    IdStart \cup Digits \cup Quotes \cup Punctuators \cup Blanks
        \cup {LineFeed, Return, Nul, "#"}

ASSUME LexerAssumption == MaxChars \in Nat /\ Limit \in Nat

VARIABLES data,      \* the characters of the file read so far
          nextChar,  \* the character that came back
          isEof,
          curLine,
          mode,      \* where the lexer is
          quote,     \* the quote that opened the string
          num,       \* the number being read
          tok,       \* the token being read
          toks,      \* the tokens answered
          rawEnd     \* a string has gone over a line without an escape

textVars == <<data, nextChar, isEof>>
lexVars  == <<textVars, curLine, mode, quote, num, tok, toks, rawEnd>>

NoNum   == [base |-> 10, digits |-> 0, val |-> 0]
NoTok   == [first |-> 0, line |-> 1]

LexInit ==
    /\ data = <<>>
    /\ nextChar = Nul
    /\ isEof = FALSE
    /\ curLine = 1
    /\ mode = "between"
    /\ quote = Nul
    /\ num = NoNum
    /\ tok = NoTok
    /\ toks = <<>>
    /\ rawEnd = FALSE

-----------------------------------------------------------------------------
(* Characters.                                                              *)

\* isCharId, isCharNum.
IsCharId(c)        == c \in IdStart \cup Digits \cup {"-"}
IsCharNum(c, base) == c \in DOMAIN DigitValue /\ DigitValue[c] < base

\* Mutant: the character that ends a token does not come back.
Fetch_Lost(c, kept) ==
    /\ \/ c = nextChar /\ nextChar # Nul /\ UNCHANGED data
       \/ /\ nextChar = Nul /\ ~ isEof /\ Len(data) < MaxChars
          /\ c \in Chars
          /\ data' = Append(data, c)
       \/ nextChar = Nul /\ c = Nul /\ UNCHANGED data
    /\ nextChar' = Nul

\* The next character, Nul at the end of the text; "kept" if it stays in
\* nextChar.
Fetch(c, kept) ==
    /\ \/ c = nextChar /\ nextChar # Nul /\ UNCHANGED data
       \/ /\ nextChar = Nul /\ ~ isEof /\ Len(data) < MaxChars
          /\ c \in Chars
          /\ data' = Append(data, c)
       \/ nextChar = Nul /\ c = Nul /\ UNCHANGED data
    /\ nextChar' = IF kept THEN c ELSE Nul

\* readChar and peekChar, the latter followed by skipChar or, as the former
\* by returnChar, not.
Take(c, kept) ==
    /\ Fetch(c, kept)
    /\ isEof' = (isEof \/ (c = Nul /\ data' = data))

AnyChar == Chars \cup {Nul}

Consumed == Len(data) - (IF nextChar = Nul THEN 0 ELSE 1)

Enter(m) == mode' = m

\* Reserved words: true and false.
WordType(word) == IF word \in Reserved THEN "Reserved" ELSE "Identifier"

Accept(type, last, val) ==
    /\ toks' = Append(toks, [type |-> type, first |-> tok.first, last |-> last,
                             line |-> tok.line, val |-> val])
    /\ Enter("between")

\* lexError: the lexer is not used again.
lexError == Enter("error")

-----------------------------------------------------------------------------
(* NextToken and its main switch.                                           *)

NextToken ==
    /\ mode = "between"
    /\ Enter(IF isEof THEN "end" ELSE "text")
    /\ UNCHANGED <<textVars, curLine, quote, num, tok, toks, rawEnd>>

\* NUL, in the main switch or in a comment.
End ==
    /\ mode \in {"text", "comment"}
    /\ Fetch(Nul, FALSE)
    /\ isEof' = TRUE
    /\ Enter("end")
    /\ UNCHANGED <<curLine, quote, num, tok, toks, rawEnd>>

Blank ==
    /\ mode = "text"
    /\ \E c \in Blanks \cup {LineFeed} :
           /\ Take(c, FALSE)
           /\ curLine' = IF c = LineFeed THEN curLine + 1 ELSE curLine
    /\ UNCHANGED <<mode, quote, num, tok, toks, rawEnd>>

\* Mutant: the line feed after a carriage return is not skipped.
SkipsLineFeed_Not(c) == FALSE

SkipsLineFeed(c) == c = LineFeed

\* A carriage return, and the line feed that may follow it, are one line end:
\* between tokens, after a comment, and escaped in a string.
LineReturn ==
    /\ mode \in {"text", "comment"}
    /\ Take(Return, FALSE)
    /\ curLine' = curLine + 1
    /\ Enter("newline")
    /\ UNCHANGED <<quote, num, tok, toks, rawEnd>>

AfterReturn ==
    /\ mode = "newline"
    /\ \E c \in AnyChar : Take(c, ~ SkipsLineFeed(c))
    /\ Enter(IF quote = Nul THEN "text" ELSE "string")
    /\ UNCHANGED <<curLine, quote, num, tok, toks, rawEnd>>

Comment ==
    \/ /\ mode = "text"
       /\ Take("#", FALSE)
       /\ Enter("comment")
       /\ UNCHANGED <<curLine, quote, num, tok, toks, rawEnd>>
    \/ /\ mode = "comment"
       /\ \E c \in Chars \ {Nul, Return} :
              /\ Take(c, FALSE)
              /\ IF c = LineFeed
                 THEN curLine' = curLine + 1 /\ Enter("text")
                 ELSE UNCHANGED <<curLine, mode>>
       /\ UNCHANGED <<quote, num, tok, toks, rawEnd>>

\* The first character of a token.
Begin ==
    /\ tok' = [first |-> Consumed', line |-> curLine]
    /\ UNCHANGED <<curLine, rawEnd>>

SingleChar ==
    /\ mode = "text"
    /\ \E c \in Punctuators :
           /\ Take(c, FALSE)
           /\ toks' = Append(toks, [type |-> c, first |-> Consumed', last |-> Consumed',
                                    line |-> curLine, val |-> c])
    /\ Enter("between")
    /\ UNCHANGED <<curLine, quote, num, tok, rawEnd>>

Unrecognized ==
    /\ mode = "text"
    /\ \E c \in Chars \ Recognized : Take(c, FALSE)
    /\ lexError
    /\ UNCHANGED <<curLine, quote, num, tok, toks, rawEnd>>

-----------------------------------------------------------------------------
(* Identifiers and numbers.                                                 *)

Word ==
    \/ /\ mode = "text"
       /\ \E c \in IdStart : Take(c, FALSE)
       /\ Begin
       /\ Enter("word")
       /\ UNCHANGED <<quote, num, toks>>
    \/ /\ mode = "word"
       /\ \E c \in AnyChar :
              /\ Take(c, ~ IsCharId(c))
              /\ IF IsCharId(c)
                 THEN UNCHANGED <<mode, toks>>
                 ELSE LET word == SubSeq(data, tok.first, Consumed)
                      IN  Accept(WordType(word), Consumed, word)
       /\ UNCHANGED <<curLine, quote, num, tok, rawEnd>>

\* A number begins with its first digit, or with a zero that may turn out to
\* belong to its base.
NumberBegins ==
    /\ mode = "text"
    /\ \E c \in Digits :
           /\ Take(c, FALSE)
           /\ Enter(IF c = "0" THEN "zero" ELSE "digits")
           /\ num' = [base |-> 10, digits |-> 1, val |-> DigitValue[c]]
    /\ Begin
    /\ UNCHANGED <<quote, toks>>

\* The character after a zero gives the base; a literal zero is a digit.
BaseOf(c) == CASE c = "x" -> 16 [] c = "b" -> 2 [] c \in Octal -> 8 [] OTHER -> 10

Base ==
    /\ mode = "zero"
    /\ \E c \in AnyChar :
           /\ Take(c, BaseOf(c) \in {8, 10})
           /\ num' = [base |-> BaseOf(c), digits |-> IF BaseOf(c) = 10 THEN 1 ELSE 0,
                      val |-> 0]
    /\ Enter("digits")
    /\ UNCHANGED <<curLine, quote, tok, toks, rawEnd>>

\* std::from_chars.
Parses == num.digits > 0 /\ num.val < Limit

\* An identifier right after a number makes it a numid.
Number ==
    /\ mode = "digits"
    /\ \E c \in AnyChar :
           /\ Take(c, Parses /\ ~ IsCharNum(c, num.base) /\ ~ IsCharId(c))
           /\ IF IsCharNum(c, num.base)
              THEN /\ num' = [num EXCEPT !.digits = @ + 1,
                                         !.val = @ * num.base + DigitValue[c]]
                   /\ UNCHANGED <<mode, toks>>
              ELSE /\ UNCHANGED num
                   /\ IF ~ Parses THEN lexError /\ UNCHANGED toks
                      ELSE IF IsCharId(c) THEN Enter("numid") /\ UNCHANGED toks
                      ELSE Accept("Number", Consumed, num.val)
    /\ UNCHANGED <<curLine, quote, tok, rawEnd>>

NumId ==
    /\ mode = "numid"
    /\ \E c \in AnyChar :
           /\ Take(c, ~ IsCharId(c))
           /\ IF IsCharId(c) THEN UNCHANGED <<mode, toks>> ELSE Accept("NumId", Consumed, num.val)
    /\ UNCHANGED <<curLine, quote, num, tok, rawEnd>>

-----------------------------------------------------------------------------
(* Strings.                                                                 *)

StringBegins ==
    /\ mode = "text"
    /\ \E c \in Quotes : Take(c, FALSE) /\ quote' = c
    /\ Begin
    /\ Enter("string")
    /\ UNCHANGED <<num, toks>>

String ==
    /\ mode = "string"
    /\ \E c \in AnyChar :
           /\ Take(c, FALSE)
           /\ rawEnd' = (rawEnd \/ c \in {LineFeed, Return})
           /\ IF c = quote
              THEN Accept("String", Consumed', quote) /\ quote' = Nul
              ELSE /\ CASE c = Nul  -> lexError
                        [] c = "\\" -> Enter("escape")
                        [] OTHER    -> UNCHANGED mode
                   /\ UNCHANGED <<quote, toks>>
    /\ UNCHANGED <<curLine, num, tok>>

\* A backslash takes the next character with it, except a blank.
Escape ==
    /\ mode = "escape"
    /\ \E c \in AnyChar :
           /\ Take(c, c \in Blanks)
           /\ curLine' = IF c \in {LineFeed, Return} THEN curLine + 1 ELSE curLine
           /\ CASE c = Nul    -> lexError
                [] c = Return -> Enter("newline")
                [] OTHER      -> Enter("string")
    /\ UNCHANGED <<quote, num, tok, toks, rawEnd>>

LexNext ==
    \/ NextToken \/ End \/ Blank \/ LineReturn \/ AfterReturn \/ Comment
    \/ SingleChar \/ Unrecognized \/ Word
    \/ NumberBegins \/ Base \/ Number \/ NumId
    \/ StringBegins \/ String \/ Escape

LexSpec == LexInit /\ [][LexNext]_lexVars

-----------------------------------------------------------------------------
(* The text, told without a scanner.                                        *)

Span(t) == t.first .. t.last

\* Line ends before position i: LF, CR LF, or CR alone.
LineEnds(i) ==
    Cardinality({j \in 1 .. Len(data) :
        /\ j < i
        /\ \/ data[j] = LineFeed
           \/ data[j] = Return /\ (j = Len(data) \/ data[j + 1] # LineFeed)})

InToken(i) == \E k \in DOMAIN toks : i \in Span(toks[k])

Commented(i) ==
    \E j \in 1 .. i :
        /\ data[j] = "#"
        /\ ~ InToken(j)
        /\ \A l \in j .. i : data[l] \notin {LineFeed, Return}

\* What a run of identifier characters that begins with a digit says.
Numeral(s) ==
    LET base == IF Len(s) > 1 /\ s[1] = "0" THEN BaseOf(s[2]) ELSE 10
        from == CASE base \in {2, 16} -> 3 [] base = 8 -> 2 [] OTHER -> 1
        to   == Max({from - 1} \cup
                    {i \in from .. Len(s) : \A j \in from .. i : IsCharNum(s[j], base)})
    IN  [type |-> IF to = Len(s) THEN "Number" ELSE "NumId",
         val  |-> MapThenSumSet(LAMBDA i : DigitValue[s[i]] * base ^ (to - i), from .. to)]

-----------------------------------------------------------------------------
\* The tokens answered are the text: an identifier or a number is a whole run
\* of identifier characters with the value it spells, a string runs from quote
\* to quote, and between two tokens there are only blanks and comments.  The
\* end is answered at the end only.  (A NUL ends or splits a text anywhere.)
TokensAreText ==
    Nul \notin Range(data) =>
        /\ \A k \in DOMAIN toks :
               LET t == toks[k]
                   s == SubSeq(data, t.first, t.last)
               IN  CASE t.type = "String" ->
                            t.first < t.last /\ s[1] = Last(s) /\ s[1] \in Quotes
                     [] t.type \in Punctuators -> s = <<t.type>>
                     [] OTHER ->
                            /\ \A i \in DOMAIN s : IsCharId(s[i])
                            /\ t.last < Len(data) => ~ IsCharId(data[t.last + 1])
                            /\ IF s[1] \in Digits
                               THEN t.val < Limit /\ Numeral(s) = [type |-> t.type, val |-> t.val]
                               ELSE t.type = WordType(s)
        /\ \A k \in 2 .. Len(toks) : toks[k - 1].last < toks[k].first
        /\ mode \in {"between", "end"} =>
               /\ \A i \in 1 .. Consumed : 
                      InToken(i) \/ Commented(i) \/ data[i] \in Blanks \cup {LineFeed, Return}
               /\ mode = "end" => Consumed = Len(data)

\* The line of a token, or of an error, is one more than the line ends before
\* it, in any mixture of LF, CR LF and CR, in comments and escaped in strings.
\* (A string that goes over a line without an escape is not counted.)
LinesExact ==
    ~ rawEnd =>
        /\ \A k \in DOMAIN toks : toks[k].line = 1 + LineEnds(toks[k].first)
        /\ mode = "error" =>
               curLine = 1 + LineEnds(IF isEof THEN Len(data) + 1 ELSE Len(data))

=============================================================================
