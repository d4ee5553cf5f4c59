--------------------------- MODULE FrontEndProofs ---------------------------
(***************************************************************************)
(* Proofs about what the program reads: the lexer's lines, for texts of any  *)
(* length, and the image of the command line, for any number of texts.       *)
(***************************************************************************)
EXTENDS SimpleLexer, ImageCmd, ImageFacts, FiniteSetTheorems

(***************************************************************************)
(* The lexer.  Between two calls of readChar, the line is one more than the *)
(* line ends the lexer has passed; a carriage return it has passed is either *)
(* behind what follows it or waits, in the mode "newline", for the line feed *)
(* that would belong to it.                                                 *)
(***************************************************************************)

\* Line ends before a position, and their number, in any text.
EndsLine(d, j) ==
    \/ d[j] = LineFeed
    \/ d[j] = Return /\ (j = Len(d) \/ d[j + 1] # LineFeed)

EndsIn(d, i) == {j \in 1 .. Len(d) : j < i /\ EndsLine(d, j)}

LinesIn(d, i) == Cardinality(EndsIn(d, i))

\* What is known of the characters at hand.
TextRight(d, next, eof) ==
    /\ d \in Seq(Chars)
    /\ next # Nul => d # <<>> /\ d[Len(d)] = next /\ ~ eof

\* The next character cannot belong to a line end that is already counted.
Fresh(d, next, eof) ==
    next = Nul /\ ~ eof /\ d # <<>> => d[Len(d)] # Return

\* Where the lexer is in a text.
PassedIn(d, next) == Len(d) - (IF next = Nul THEN 0 ELSE 1)

\* A token and the tokens answered have the line they begin on.
TokRight(t, d) ==
    /\ t.first \in 0 .. Len(d)
    /\ t.line = 1 + LinesIn(d, t.first)

AnsweredRight(ts, d) ==
    /\ ts \in Seq(ToSet(ts))
    /\ \A k \in DOMAIN ts : TokRight(ts[k], d)

\* The line after what has been read, or after what was read before an error.
LineRight ==
    /\ curLine \in Nat
    /\ mode # "error" => curLine = 1 + LinesIn(data, PassedIn(data, nextChar) + 1)
    /\ mode = "error" => curLine = 1 + LinesIn(data, IF isEof THEN Len(data) + 1 ELSE Len(data))

ReturnPending ==
    /\ mode = "newline" => nextChar = Nul /\ ~ isEof /\ data # <<>> /\ data[Len(data)] = Return
    /\ mode \notin {"newline", "error"} => Fresh(data, nextChar, isEof)

LexRight ==
    /\ TextRight(data, nextChar, isEof)
    /\ isEof \in BOOLEAN
    /\ TokRight(tok, data)
    /\ AnsweredRight(toks, data)
    /\ LineRight
    /\ ReturnPending

LexIInv == ~ rawEnd => LexRight

-----------------------------------------------------------------------------
(* Line ends of a text that grows.                                          *)

LEMMA EndsFinite ==
    ASSUME NEW d, Len(d) \in Nat, NEW i
    PROVE  IsFiniteSet(EndsIn(d, i)) /\ LinesIn(d, i) \in Nat
<1>1. IsFiniteSet(1 .. Len(d))
  BY FS_Interval
<1>2. EndsIn(d, i) \subseteq 1 .. Len(d)
  BY DEF EndsIn
<1>3. IsFiniteSet(EndsIn(d, i))
  BY <1>1, <1>2, FS_Subset
<1> QED
  BY <1>3, FS_CardinalityType DEF LinesIn

LEMMA Grown ==
    ASSUME NEW d \in Seq(Chars), NEW c \in Chars
    PROVE  /\ Append(d, c) \in Seq(Chars) /\ Append(d, c) # <<>> /\ Append(d, c) # d
           /\ Len(Append(d, c)) = Len(d) + 1 /\ Len(d) \in Nat
           /\ \A j \in 1 .. Len(d) : Append(d, c)[j] = d[j]
           /\ Append(d, c)[Len(d) + 1] = c
OBVIOUS

LEMMA InEnds ==
    ASSUME NEW d, NEW i
    PROVE  \A j : j \in EndsIn(d, i) <=> j \in 1 .. Len(d) /\ j < i /\ EndsLine(d, j)
BY DEF EndsIn

\* What comes later changes no line end followed by a character.
LEMMA EndStays ==
    ASSUME NEW d \in Seq(Chars), NEW c \in Chars, NEW j \in 1 .. Len(d),
           j # Len(d) \/ c # LineFeed \/ d[j] # Return
    PROVE  EndsLine(Append(d, c), j) <=> EndsLine(d, j)
<1> DEFINE n == Len(d)
           e == Append(d, c)
<1>1. /\ Len(e) = n + 1 /\ n \in Nat /\ e[n + 1] = c
      /\ \A k \in 1 .. n : e[k] = d[k]
  BY Grown
<1> HIDE DEF n, e
<1>2. /\ j \in 1 .. n /\ j # n + 1 /\ e[j] = d[j]
      /\ j # n => j + 1 \in 1 .. n /\ e[j + 1] = d[j + 1]
      /\ j = n => e[j + 1] = c /\ (c # LineFeed \/ d[j] # Return)
  BY <1>1 DEF n
<1>3. EndsLine(e, j) <=> EndsLine(d, j)
  <2>1. EndsLine(e, j) <=> (d[j] = LineFeed \/ (d[j] = Return /\ e[j + 1] # LineFeed))
    BY <1>1, <1>2 DEF EndsLine
  <2>2. EndsLine(d, j) <=> (d[j] = LineFeed \/ (d[j] = Return /\ (j = n \/ d[j + 1] # LineFeed)))
    BY DEF EndsLine, n
  <2> QED
    BY <1>2, <2>1, <2>2
<1> QED
  BY <1>3 DEF e

LEMMA EndsStay ==
    ASSUME NEW d \in Seq(Chars), NEW c \in Chars, NEW i \in 0 .. Len(d)
    PROVE  EndsIn(Append(d, c), i) = EndsIn(d, i)
<1> DEFINE n == Len(d)
           e == Append(d, c)
<1>1. /\ Len(e) = n + 1 /\ n \in Nat
      /\ \A j \in 1 .. n : j # n => (EndsLine(e, j) <=> EndsLine(d, j))
  BY Grown, EndStays
<1>2. /\ \A j : j \in EndsIn(e, i) <=> j \in 1 .. Len(e) /\ j < i /\ EndsLine(e, j)
      /\ \A j : j \in EndsIn(d, i) <=> j \in 1 .. n /\ j < i /\ EndsLine(d, j)
  BY InEnds
<1>3. i \in 0 .. n
  OBVIOUS
<1> HIDE DEF n, e
<1>4. \A j : (j \in 1 .. n + 1 /\ j < i) <=> (j \in 1 .. n /\ j # n /\ j < i)
  BY <1>1, <1>3
<1>5. \A j : (j \in 1 .. n /\ j < i) => j # n
  BY <1>1, <1>3
<1>6. EndsIn(e, i) = EndsIn(d, i)
  BY <1>1, <1>2, <1>4, <1>5
<1> QED
  BY <1>6 DEF e

\* Nor the one at the end, but a carriage return before a line feed.
LEMMA LastEndStays ==
    ASSUME NEW d \in Seq(Chars), NEW c \in Chars,
           c # LineFeed \/ d = <<>> \/ d[Len(d)] # Return
    PROVE  EndsIn(Append(d, c), Len(d) + 1) = EndsIn(d, Len(d) + 1)
<1> DEFINE n == Len(d)
           e == Append(d, c)
<1>1. /\ Len(e) = n + 1 /\ n \in Nat
      /\ d = <<>> => n = 0
  BY Grown
<1>2. ASSUME NEW j \in 1 .. n
      PROVE  EndsLine(e, j) <=> EndsLine(d, j)
  <2>1. j # Len(d) \/ c # LineFeed \/ d[j] # Return
    BY <1>1
  <2> QED
    BY <2>1, EndStays
<1>3. /\ \A j : j \in EndsIn(e, n + 1) <=> j \in 1 .. Len(e) /\ j < n + 1 /\ EndsLine(e, j)
      /\ \A j : j \in EndsIn(d, n + 1) <=> j \in 1 .. n /\ j < n + 1 /\ EndsLine(d, j)
  BY InEnds
<1> HIDE DEF n, e
<1>4. \A j : (j \in 1 .. n + 1 /\ j < n + 1) <=> j \in 1 .. n
  BY <1>1
<1>5. \A j : (j \in 1 .. n /\ j < n + 1) <=> j \in 1 .. n
  BY <1>1
<1>6. EndsIn(e, n + 1) = EndsIn(d, n + 1)
  BY <1>1, <1>2, <1>3, <1>4, <1>5
<1> QED
  BY <1>6 DEF e, n

\* The last character ends a line or does not.
LEMMA LastCounts ==
    ASSUME NEW d \in Seq(Chars), d # <<>>
    PROVE  /\ d[Len(d)] \in {LineFeed, Return} => LinesIn(d, Len(d) + 1) = LinesIn(d, Len(d)) + 1
           /\ d[Len(d)] \notin {LineFeed, Return} => LinesIn(d, Len(d) + 1) = LinesIn(d, Len(d))
<1> DEFINE n == Len(d)
           last == IF d[n] \in {LineFeed, Return} THEN {n} ELSE {}
<1>1. n \in Nat /\ n # 0
  OBVIOUS
<1> HIDE DEF n
<1>2. EndsIn(d, n + 1) = EndsIn(d, n) \cup last
  <2>1. /\ \A j : j \in EndsIn(d, n + 1) <=> j \in 1 .. n /\ j < n + 1 /\ EndsLine(d, j)
        /\ \A j : j \in EndsIn(d, n) <=> j \in 1 .. n /\ j < n /\ EndsLine(d, j)
    BY InEnds DEF n
  <2>2. \A j \in 1 .. n : (j < n + 1) /\ (j < n <=> j # n)
    BY <1>1
  <2>3. n \in 1 .. n /\ (EndsLine(d, n) <=> d[n] \in {LineFeed, Return})
    BY <1>1 DEF EndsLine, n
  <2> QED
    BY <2>1, <2>2, <2>3
<1>3. n \notin EndsIn(d, n) /\ IsFiniteSet(EndsIn(d, n))
  <2>1. Len(d) \in Nat /\ ~ (n < n)
    BY <1>1
  <2> QED
    BY <2>1, EndsFinite DEF EndsIn
<1>4. CASE d[n] \in {LineFeed, Return}
  <2>1. EndsIn(d, n + 1) = EndsIn(d, n) \cup {n}
    BY <1>2, <1>4
  <2>2. Cardinality(EndsIn(d, n) \cup {n}) = Cardinality(EndsIn(d, n)) + 1
    BY <1>3, FS_AddElement
  <2> QED
    BY <1>4, <2>1, <2>2 DEF LinesIn, n
<1>5. CASE d[n] \notin {LineFeed, Return}
  <2>1. EndsIn(d, n + 1) = EndsIn(d, n)
    BY <1>2, <1>5
  <2> QED
    BY <1>5, <2>1 DEF LinesIn, n
<1> QED
  BY <1>4, <1>5

\* A carriage return and the line feed after it are one line end.
LEMMA OneEnd ==
    ASSUME NEW d \in Seq(Chars), d # <<>>, d[Len(d)] = Return, LineFeed \in Chars
    PROVE  LinesIn(Append(d, LineFeed), Len(d) + 2) = LinesIn(d, Len(d) + 1)
<1> DEFINE n == Len(d)
           e == Append(d, LineFeed)
<1>1. /\ Len(e) = n + 1 /\ n \in Nat /\ n # 0 /\ e \in Seq(Chars) /\ e # <<>>
      /\ \A j \in 1 .. n : e[j] = d[j]
      /\ e[n + 1] = LineFeed /\ n \in 1 .. n /\ d[n] = Return
  BY Grown
<1>2. EndsIn(e, n) = EndsIn(d, n)
  BY EndsStay
<1>3. LinesIn(d, n + 1) = LinesIn(d, n) + 1
  BY LastCounts
<1> HIDE DEF n, e
<1>4. EndsIn(e, n + 1) = EndsIn(e, n)
  <2>1. /\ \A j : j \in EndsIn(e, n + 1) <=> j \in 1 .. n + 1 /\ j < n + 1 /\ EndsLine(e, j)
        /\ \A j : j \in EndsIn(e, n) <=> j \in 1 .. n + 1 /\ j < n /\ EndsLine(e, j)
    BY <1>1, InEnds
  <2>2. \A j \in 1 .. n + 1 : (j < n + 1 <=> j < n \/ j = n) /\ n # n + 1
    BY <1>1
  <2>3. e[n] = Return /\ Return # LineFeed
    BY <1>1 DEF LineFeed, Return
  <2>4. ~ EndsLine(e, n)
    BY <1>1, <2>2, <2>3 DEF EndsLine
  <2> QED
    BY <2>1, <2>2, <2>4
<1>5. LinesIn(e, (n + 1) + 1) = LinesIn(e, n + 1) + 1
  <2>1. e[Len(e)] \in {LineFeed, Return}
    BY <1>1
  <2>2. LinesIn(e, Len(e) + 1) = LinesIn(e, Len(e)) + 1
    BY <1>1, <2>1, LastCounts
  <2> QED
    BY <1>1, <2>2
<1>6. LinesIn(e, (n + 1) + 1) = LinesIn(d, n + 1)
  BY <1>2, <1>3, <1>4, <1>5 DEF LinesIn
<1>7. (n + 1) + 1 = n + 2
  BY <1>1
<1> QED
  BY <1>6, <1>7 DEF e, n

-----------------------------------------------------------------------------
(* Reading a character.                                                     *)

\* What Take makes of a text, for any text.
Taken(c, kept, d, next, eof, d2, next2, eof2) ==
    /\ \/ c = next /\ next # Nul /\ d2 = d
       \/ next = Nul /\ ~ eof /\ c \in Chars /\ d2 = Append(d, c)
       \/ next = Nul /\ c = Nul /\ d2 = d
    /\ next2 = IF kept THEN c ELSE Nul
    /\ eof2 <=> eof \/ (c = Nul /\ d2 = d)

\* What has been counted stays counted.
CountsStay(d, d2) ==
    /\ Len(d) \in Nat /\ Len(d2) \in Nat /\ Len(d) <= Len(d2)
    /\ \A i \in 0 .. Len(d) : LinesIn(d2, i) = LinesIn(d, i)

LEMMA SameCounts ==
    ASSUME NEW d \in Seq(Chars)
    PROVE  CountsStay(d, d)
BY DEF CountsStay

LEMMA MoreCounts ==
    ASSUME NEW d \in Seq(Chars), NEW c \in Chars
    PROVE  CountsStay(d, Append(d, c))
<1>1. /\ Len(Append(d, c)) = Len(d) + 1 /\ Len(d) \in Nat
  BY Grown
<1>2. \A i \in 0 .. Len(d) : LinesIn(Append(d, c), i) = LinesIn(d, i)
  BY EndsStay DEF LinesIn
<1> QED
  BY <1>1, <1>2 DEF CountsStay

\* What Take gives, between two lines or in the middle of one.
ReadRight(c, kept, d, next, eof, d2, next2, eof2) ==
    /\ TextRight(d2, next2, eof2)
    /\ CountsStay(d, d2)
    /\ LinesIn(d2, PassedIn(d, next) + 1) = LinesIn(d, PassedIn(d, next) + 1)
    /\ kept \/ c \notin {LineFeed, Return} =>
          LinesIn(d2, PassedIn(d2, next2) + 1) = LinesIn(d, PassedIn(d, next) + 1)
    /\ ~ kept /\ c \in {LineFeed, Return} =>
          LinesIn(d2, PassedIn(d2, next2) + 1) = LinesIn(d, PassedIn(d, next) + 1) + 1
    /\ ~ kept => LinesIn(d2, IF eof2 THEN Len(d2) + 1 ELSE Len(d2))
                    = LinesIn(d, PassedIn(d, next) + 1)
    /\ ~ kept /\ c # Nul => /\ PassedIn(d2, next2) = PassedIn(d, next) + 1
                            /\ PassedIn(d2, next2) \in 1 .. Len(d2)
    /\ kept \/ c # Return => Fresh(d2, next2, eof2)
    /\ ~ kept /\ c = Return =>
          next2 = Nul /\ ~ eof2 /\ d2 # <<>> /\ d2[Len(d2)] = Return

\* The character that came back is read again.
LEMMA ReadsBack ==
    ASSUME NEW d, NEW next, NEW eof \in BOOLEAN, NEW c, NEW kept \in BOOLEAN,
           NEW next2, NEW eof2 \in BOOLEAN,
           TextRight(d, next, eof), c = next, next # Nul,
           next2 = IF kept THEN c ELSE Nul, eof2 <=> eof
    PROVE  ReadRight(c, kept, d, next, eof, d, next2, eof2)
<1> DEFINE n == Len(d)
<1>1. d \in Seq(Chars) /\ d # <<>> /\ d[n] = c /\ ~ eof2 /\ n \in Nat /\ n # 0
  BY DEF TextRight
<1>2. /\ c \in {LineFeed, Return} => LinesIn(d, n + 1) = LinesIn(d, n) + 1
      /\ c \notin {LineFeed, Return} => LinesIn(d, n + 1) = LinesIn(d, n)
  BY <1>1, LastCounts
<1>3. CountsStay(d, d)
  BY <1>1, SameCounts
<1>4. /\ PassedIn(d, next) = n - 1 /\ (n - 1) + 1 = n
      /\ kept => PassedIn(d, next2) = n - 1
      /\ ~ kept => PassedIn(d, next2) = n
  BY <1>1 DEF PassedIn
<1> HIDE DEF n
<1>5. TextRight(d, next2, eof2)
  BY <1>1 DEF TextRight, n
<1>6. /\ kept \/ c # Return => Fresh(d, next2, eof2)
      /\ ~ kept /\ c = Return => next2 = Nul /\ ~ eof2 /\ d # <<>> /\ d[Len(d)] = Return
  BY <1>1 DEF Fresh, n
<1>7. /\ LinesIn(d, PassedIn(d, next) + 1) = LinesIn(d, n)
      /\ kept => LinesIn(d, PassedIn(d, next2) + 1) = LinesIn(d, n)
      /\ ~ kept => LinesIn(d, PassedIn(d, next2) + 1) = LinesIn(d, n + 1)
      /\ LinesIn(d, IF eof2 THEN Len(d) + 1 ELSE Len(d)) = LinesIn(d, n)
  BY <1>1, <1>4 DEF n
<1>8. ~ kept => /\ PassedIn(d, next2) = PassedIn(d, next) + 1
                /\ PassedIn(d, next2) \in 1 .. Len(d)
  BY <1>1, <1>4 DEF n
<1> QED
  BY <1>2, <1>3, <1>5, <1>6, <1>7, <1>8 DEF ReadRight

\* A new one is read.
LEMMA ReadsOn ==
    ASSUME NEW d, NEW next, NEW eof \in BOOLEAN, NEW c \in Chars, NEW kept \in BOOLEAN,
           NEW next2, NEW eof2 \in BOOLEAN,
           TextRight(d, next, eof), Fresh(d, next, eof), next = Nul, ~ eof,
           next2 = IF kept THEN c ELSE Nul, ~ eof2
    PROVE  ReadRight(c, kept, d, next, eof, Append(d, c), next2, eof2)
<1> DEFINE n == Len(d)
<1>1. PICK e : e = Append(d, c)
  OBVIOUS
<1>2. d \in Seq(Chars) /\ (d # <<>> => d[Len(d)] # Return)
  BY DEF TextRight, Fresh
<1>3. /\ e \in Seq(Chars) /\ e # <<>> /\ Len(e) = n + 1 /\ n \in Nat /\ e[n + 1] = c
      /\ e[Len(e)] = c
  BY <1>1, <1>2, Grown
<1>4. CountsStay(d, e)
  BY <1>1, <1>2, MoreCounts
<1>5. LinesIn(e, n + 1) = LinesIn(d, n + 1)
  BY <1>1, <1>2, LastEndStays DEF LinesIn
<1>6. /\ c \in {LineFeed, Return} => LinesIn(e, Len(e) + 1) = LinesIn(e, Len(e)) + 1
      /\ c \notin {LineFeed, Return} => LinesIn(e, Len(e) + 1) = LinesIn(e, Len(e))
  BY <1>3, LastCounts
<1> HIDE DEF n
<1>7. /\ PassedIn(d, next) = n /\ Len(e) = n + 1
      /\ next2 = Nul => PassedIn(e, next2) = n + 1
      /\ next2 # Nul => PassedIn(e, next2) = n
  BY <1>3 DEF PassedIn, n
<1>8. TextRight(e, next2, eof2)
  BY <1>3 DEF TextRight
<1>9. /\ kept \/ c # Return => Fresh(e, next2, eof2)
      /\ ~ kept /\ c = Return => next2 = Nul /\ ~ eof2 /\ e # <<>> /\ e[Len(e)] = Return
  BY <1>3 DEF Fresh, Nul, Return
<1>10. Nul \notin {LineFeed, Return}
  BY DEF Nul, LineFeed, Return
<1>11. /\ next2 = Nul => LinesIn(e, PassedIn(e, next2) + 1) = LinesIn(e, Len(e) + 1)
       /\ next2 # Nul => LinesIn(e, PassedIn(e, next2) + 1) = LinesIn(d, n + 1)
       /\ LinesIn(e, Len(e)) = LinesIn(d, n + 1)
       /\ LinesIn(d, PassedIn(d, next) + 1) = LinesIn(d, n + 1)
       /\ LinesIn(e, PassedIn(d, next) + 1) = LinesIn(d, n + 1)
       /\ LinesIn(e, IF eof2 THEN Len(e) + 1 ELSE Len(e)) = LinesIn(d, n + 1)
  BY <1>5, <1>7
<1>12. ~ kept => PassedIn(e, next2) = PassedIn(d, next) + 1 /\ PassedIn(e, next2) \in 1 .. Len(e)
  BY <1>3, <1>7
<1>13. ReadRight(c, kept, d, next, eof, e, next2, eof2)
  <2>1. CASE next2 = Nul
    <3>1. c \notin {LineFeed, Return} \/ ~ kept
      BY <1>10, <2>1
    <3> QED
      BY <1>4, <1>6, <1>8, <1>9, <1>11, <1>12, <2>1, <3>1 DEF ReadRight
  <2>2. CASE next2 # Nul
    <3>1. kept
      BY <2>2
    <3> QED
      BY <1>4, <1>8, <1>9, <1>11, <2>2, <3>1 DEF ReadRight
  <2> QED
    BY <2>1, <2>2
<1> QED
  BY <1>1, <1>13

\* There is none.
LEMMA ReadsEnd ==
    ASSUME NEW d, NEW next, NEW eof \in BOOLEAN, NEW kept \in BOOLEAN,
           NEW next2, NEW eof2 \in BOOLEAN,
           TextRight(d, next, eof), Fresh(d, next, eof), next = Nul,
           next2 = Nul, eof2
    PROVE  ReadRight(Nul, kept, d, next, eof, d, next2, eof2)
<1>1. d \in Seq(Chars) /\ Len(d) \in Nat
  BY DEF TextRight
<1>2. CountsStay(d, d) /\ TextRight(d, next2, eof2) /\ Fresh(d, next2, eof2)
  BY <1>1, SameCounts DEF TextRight, Fresh
<1>3. PassedIn(d, next) = Len(d) /\ PassedIn(d, next2) = Len(d)
  BY <1>1 DEF PassedIn
<1>4. Nul \notin {LineFeed, Return}
  BY DEF Nul, LineFeed, Return
<1> QED
  BY <1>2, <1>3, <1>4 DEF ReadRight

LEMMA Reads ==
    ASSUME NEW d, NEW next, NEW eof \in BOOLEAN, NEW c, NEW kept \in BOOLEAN,
           NEW d2, NEW next2, NEW eof2 \in BOOLEAN,
           TextRight(d, next, eof), Fresh(d, next, eof),
           Taken(c, kept, d, next, eof, d2, next2, eof2)
    PROVE  ReadRight(c, kept, d, next, eof, d2, next2, eof2)
<1>1. CASE c = next /\ next # Nul /\ d2 = d
  <2>1. next2 = (IF kept THEN c ELSE Nul) /\ (eof2 <=> eof)
    BY <1>1 DEF Taken
  <2> QED
    BY <1>1, <2>1, ReadsBack
<1>2. CASE next = Nul /\ ~ eof /\ c \in Chars /\ d2 = Append(d, c)
  <2>1. Append(d, c) # d
    BY <1>2, Grown DEF TextRight
  <2>2. next2 = (IF kept THEN c ELSE Nul) /\ ~ eof2
    BY <1>2, <2>1 DEF Taken
  <2>3. ReadRight(c, kept, d, next, eof, Append(d, c), next2, eof2)
    BY <1>2, <2>2, ReadsOn
  <2> QED
    BY <1>2, <2>3
<1>3. CASE next = Nul /\ c = Nul /\ d2 = d
  <2>1. next2 = Nul /\ eof2
    BY <1>3 DEF Taken
  <2>2. ReadRight(Nul, kept, d, next, eof, d, next2, eof2)
    BY <1>3, <2>1, ReadsEnd
  <2> QED
    BY <1>3, <2>2
<1> QED
  BY <1>1, <1>2, <1>3 DEF Taken

\* After a carriage return, a line feed is read and anything else comes back.
LEMMA ReadsAfterReturn ==
    ASSUME NEW d, NEW next, NEW eof \in BOOLEAN, NEW c, NEW kept \in BOOLEAN,
           NEW d2, NEW next2, NEW eof2 \in BOOLEAN,
           TextRight(d, next, eof), next = Nul, ~ eof, d # <<>>, d[Len(d)] = Return,
           kept <=> c # LineFeed, Taken(c, kept, d, next, eof, d2, next2, eof2)
    PROVE  /\ TextRight(d2, next2, eof2) /\ CountsStay(d, d2) /\ Fresh(d2, next2, eof2)
           /\ LinesIn(d2, PassedIn(d2, next2) + 1) = LinesIn(d, PassedIn(d, next) + 1)
<1> DEFINE n == Len(d)
<1>1. d \in Seq(Chars) /\ n \in Nat
  BY DEF TextRight
<1>2. PassedIn(d, next) = n
  BY <1>1 DEF PassedIn
<1>3. CASE c \in Chars /\ d2 = Append(d, c)
  <2>1. /\ d2 \in Seq(Chars) /\ d2 # <<>> /\ d2 # d /\ Len(d2) = n + 1 /\ d2[Len(d2)] = c
    BY <1>1, <1>3, Grown
  <2>2. next2 = (IF c # LineFeed THEN c ELSE Nul) /\ ~ eof2
    BY <2>1 DEF Taken
  <2>3. CountsStay(d, d2)
    BY <1>1, <1>3, MoreCounts
  <2>4. TextRight(d2, next2, eof2)
    BY <2>1, <2>2 DEF TextRight
  <2>5. Fresh(d2, next2, eof2)
    BY <2>1, <2>2 DEF Fresh, LineFeed, Return, Nul
  <2>6. CASE c = LineFeed
    <3>1. PassedIn(d2, next2) = n + 1 /\ (n + 1) + 1 = n + 2
      BY <1>1, <2>1, <2>2, <2>6 DEF PassedIn
    <3>2. LinesIn(Append(d, LineFeed), n + 2) = LinesIn(d, n + 1)
      BY <1>1, <1>3, <2>6, OneEnd
    <3> QED
      BY <1>2, <1>3, <2>3, <2>4, <2>5, <2>6, <3>1, <3>2
  <2>7. CASE c # LineFeed
    <3>1. LinesIn(d2, n + 1) = LinesIn(d, n + 1)
      BY <1>1, <1>3, <2>7, LastEndStays DEF LinesIn
    <3>2. CASE c # Nul
      <4>1. PassedIn(d2, next2) = n
        BY <1>1, <2>1, <2>2, <2>7, <3>2 DEF PassedIn
      <4> QED
        BY <1>2, <2>3, <2>4, <2>5, <3>1, <4>1
    <3>3. CASE c = Nul
      <4>1. PassedIn(d2, next2) = Len(d2)
        BY <1>1, <2>1, <2>2, <2>7, <3>3 DEF PassedIn
      <4>2. d2[Len(d2)] \notin {LineFeed, Return}
        BY <2>1, <3>3 DEF Nul, LineFeed, Return
      <4>3. LinesIn(d2, Len(d2) + 1) = LinesIn(d2, Len(d2))
        BY <2>1, <4>2, LastCounts
      <4> QED
        BY <1>2, <2>1, <2>3, <2>4, <2>5, <3>1, <4>1, <4>3
    <3> QED
      BY <3>2, <3>3
  <2> QED
    BY <2>6, <2>7
<1>4. CASE c = Nul /\ d2 = d
  <2>1. next2 = Nul /\ eof2
    BY <1>4 DEF Taken, LineFeed, Nul
  <2>2. TextRight(d2, next2, eof2) /\ Fresh(d2, next2, eof2)
    BY <1>1, <1>4, <2>1 DEF TextRight, Fresh
  <2> QED
    BY <1>1, <1>4, <2>1, <2>2, SameCounts
<1> QED
  BY <1>3, <1>4 DEF Taken

-----------------------------------------------------------------------------
(* The steps of the lexer.                                                  *)

LEMMA TakeReads ==
    ASSUME LexRight, Fresh(data, nextChar, isEof), NEW c, NEW kept \in BOOLEAN, Take(c, kept)
    PROVE  /\ isEof' \in BOOLEAN
           /\ ReadRight(c, kept, data, nextChar, isEof, data', nextChar', isEof')
<1>1. TextRight(data, nextChar, isEof) /\ isEof \in BOOLEAN
  BY DEF LexRight
<1>2. isEof' \in BOOLEAN /\ (isEof' <=> isEof \/ (c = Nul /\ data' = data))
  BY DEF Take
<1>3. Taken(c, kept, data, nextChar, isEof, data', nextChar', isEof')
  BY <1>2 DEF Take, Fetch, Taken
<1>4. ReadRight(c, kept, data, nextChar, isEof, data', nextChar', isEof')
  BY <1>1, <1>2, <1>3, Reads
<1> QED
  BY <1>2, <1>4

LEMMA TokStays ==
    ASSUME NEW t, NEW d, NEW d2, TokRight(t, d), CountsStay(d, d2)
    PROVE  TokRight(t, d2)
BY DEF TokRight, CountsStay

LEMMA AnswersStay ==
    ASSUME NEW ts, NEW d, NEW d2, AnsweredRight(ts, d), CountsStay(d, d2)
    PROVE  AnsweredRight(ts, d2)
BY TokStays DEF AnsweredRight

LEMMA OneMoreAnswer ==
    ASSUME NEW ts, NEW d, NEW t, AnsweredRight(ts, d), TokRight(t, d)
    PROVE  AnsweredRight(Append(ts, t), d)
<1>1. PICK S : S = ToSet(ts) \cup {t}
  OBVIOUS
<1>2. PICK us : us = Append(ts, t)
  OBVIOUS
<1>3. ts \in Seq(S) /\ t \in S
  BY <1>1 DEF AnsweredRight
<1>4. /\ us \in Seq(S) /\ Len(us) = Len(ts) + 1 /\ Len(ts) \in Nat
      /\ DOMAIN us = 1 .. Len(ts) + 1 /\ DOMAIN ts = 1 .. Len(ts)
      /\ \A k \in 1 .. Len(ts) : us[k] = ts[k]
      /\ us[Len(ts) + 1] = t
  BY <1>2, <1>3
<1>5. us \in Seq(ToSet(us))
  BY <1>4 DEF ToSet
<1>6. ASSUME NEW k \in DOMAIN us
      PROVE  TokRight(us[k], d)
  <2>1. CASE k = Len(ts) + 1
    BY <1>4, <2>1
  <2>2. CASE k # Len(ts) + 1
    <3>1. k \in DOMAIN ts /\ us[k] = ts[k]
      BY <1>4, <2>2
    <3> QED
      BY <3>1 DEF AnsweredRight
  <2> QED
    BY <2>1, <2>2
<1> QED
  BY <1>2, <1>5, <1>6 DEF AnsweredRight

\* A token that begins with the character read.
LEMMA BeginsRight ==
    ASSUME LexRight, mode \notin {"newline", "error"}, NEW c, c # Nul, Take(c, FALSE),
           NEW t, t.first = Consumed', t.line = curLine
    PROVE  TokRight(t, data')
<1>1. Fresh(data, nextChar, isEof) /\ curLine = 1 + LinesIn(data, PassedIn(data, nextChar) + 1)
  BY DEF LexRight, ReturnPending, LineRight
<1>2. ReadRight(c, FALSE, data, nextChar, isEof, data', nextChar', isEof')
  BY <1>1, TakeReads
<1>3. /\ LinesIn(data', PassedIn(data, nextChar) + 1) = LinesIn(data, PassedIn(data, nextChar) + 1)
      /\ PassedIn(data', nextChar') = PassedIn(data, nextChar) + 1
      /\ PassedIn(data', nextChar') \in 1 .. Len(data')
      /\ Len(data') \in Nat
  BY <1>2 DEF ReadRight, CountsStay
<1>4. t.first = PassedIn(data', nextChar')
  BY DEF Consumed, PassedIn
<1> QED
  BY <1>1, <1>3, <1>4 DEF TokRight

\* A step that takes a character between two line ends.
LEMMA Moves ==
    ASSUME LexRight, mode \notin {"newline", "error"}, NEW c, NEW kept \in BOOLEAN, Take(c, kept),
           \/ /\ mode' # "error"
              /\ mode' = "newline" <=> ~ kept /\ c = Return
              /\ curLine' = IF ~ kept /\ c \in {LineFeed, Return} THEN curLine + 1 ELSE curLine
           \/ mode' = "error" /\ ~ kept /\ curLine' = curLine,
           tok' = tok \/ TokRight(tok', data'),
           \/ toks' = toks
           \/ \E t : toks' = Append(toks, t) /\ (TokRight(t, data') \/ TokRight(t, data))
    PROVE  LexRight'
<1>1. /\ Fresh(data, nextChar, isEof) /\ curLine = 1 + LinesIn(data, PassedIn(data, nextChar) + 1)
      /\ curLine \in Nat /\ TokRight(tok, data) /\ AnsweredRight(toks, data)
  BY DEF LexRight, ReturnPending, LineRight
<1>2. /\ isEof' \in BOOLEAN
      /\ ReadRight(c, kept, data, nextChar, isEof, data', nextChar', isEof')
  BY <1>1, TakeReads
<1>3. /\ TextRight(data', nextChar', isEof') /\ CountsStay(data, data')
      /\ kept \/ c \notin {LineFeed, Return} =>
            LinesIn(data', PassedIn(data', nextChar') + 1) = LinesIn(data, PassedIn(data, nextChar) + 1)
      /\ ~ kept /\ c \in {LineFeed, Return} =>
            LinesIn(data', PassedIn(data', nextChar') + 1) = LinesIn(data, PassedIn(data, nextChar) + 1) + 1
      /\ ~ kept => LinesIn(data', IF isEof' THEN Len(data') + 1 ELSE Len(data'))
                      = LinesIn(data, PassedIn(data, nextChar) + 1)
      /\ kept \/ c # Return => Fresh(data', nextChar', isEof')
      /\ ~ kept /\ c = Return =>
            nextChar' = Nul /\ ~ isEof' /\ data' # <<>> /\ data'[Len(data')] = Return
  BY <1>2 DEF ReadRight
<1>4. LinesIn(data, PassedIn(data, nextChar) + 1) \in Nat
  <2>1. Len(data) \in Nat
    BY <1>3 DEF CountsStay
  <2> QED
    BY <2>1, EndsFinite
<1>5. LineRight'
  <2>1. CASE mode' # "error"
    BY <1>1, <1>3, <1>4, <2>1 DEF LineRight
  <2>2. CASE mode' = "error"
    BY <1>1, <1>3, <2>2 DEF LineRight
  <2> QED
    BY <2>1, <2>2
<1>6. ReturnPending'
  BY <1>3 DEF ReturnPending
<1>7. TokRight(tok', data')
  BY <1>1, <1>3, TokStays
<1>8. AnsweredRight(toks', data')
  <2>1. AnsweredRight(toks, data')
    BY <1>1, <1>3, AnswersStay
  <2>2. ASSUME NEW t, toks' = Append(toks, t), TokRight(t, data') \/ TokRight(t, data)
        PROVE  AnsweredRight(toks', data')
    <3>1. TokRight(t, data')
      BY <1>3, <2>2, TokStays
    <3> QED
      BY <2>1, <2>2, <3>1, OneMoreAnswer
  <2> QED
    BY <2>1, <2>2
<1> QED
  BY <1>2, <1>3, <1>5, <1>6, <1>7, <1>8 DEF LexRight

\* Steps that only change the mode, the number or the quote besides.
LEMMA Passes ==
    ASSUME LexRight, mode \notin {"newline", "error"}, NEW c, NEW kept \in BOOLEAN, Take(c, kept),
           kept \/ c \notin {LineFeed, Return}, mode' # "newline", mode' = "error" => ~ kept,
           curLine' = curLine, tok' = tok, toks' = toks
    PROVE  LexRight'
<1>1. \/ /\ mode' # "error"
         /\ mode' = "newline" <=> ~ kept /\ c = Return
         /\ curLine' = IF ~ kept /\ c \in {LineFeed, Return} THEN curLine + 1 ELSE curLine
      \/ mode' = "error" /\ ~ kept /\ curLine' = curLine
  OBVIOUS
<1> QED
  BY <1>1, Moves

\* A line end is no part of a token and begins none.
LEMMA LineEndsApart ==
    /\ \A c \in {LineFeed, Return} : /\ ~ IsCharId(c)
                                     /\ \A base : ~ IsCharNum(c, base)
                                     /\ c \notin Punctuators \cup Quotes \cup IdStart \cup Digits \cup {"#", Nul}
    /\ Nul \notin Punctuators \cup Quotes \cup IdStart \cup Digits
    /\ LineFeed # Return
BY DEF LineFeed, Return, IsCharId, IsCharNum, Punctuators, Quotes, IdStart, Digits, Octal, Nul, DigitValue

\* Between tokens: NextToken, End, Blank, LineReturn, AfterReturn, Comment.
LEMMA Starts ==
    ASSUME LexRight, NextToken
    PROVE  LexRight'
<1>1. /\ mode = "between" /\ mode' \in {"end", "text"}
      /\ UNCHANGED <<data, nextChar, isEof, curLine, tok, toks>>
  BY DEF NextToken, Enter, textVars
<1>2. LineRight' /\ ReturnPending'
  BY <1>1 DEF LexRight, LineRight, ReturnPending
<1> QED
  BY <1>1, <1>2 DEF LexRight

LEMMA Finishes ==
    ASSUME LexRight, End
    PROVE  LexRight'
<1>1. /\ mode \in {"text", "comment"} /\ Fetch(Nul, FALSE) /\ isEof' = TRUE /\ mode' = "end"
      /\ UNCHANGED <<curLine, tok, toks>>
  BY DEF End, Enter
<1>2. PICK eof2 \in BOOLEAN : eof2 <=> isEof \/ data' = data
  OBVIOUS
<1>3. Taken(Nul, FALSE, data, nextChar, isEof, data', nextChar', eof2)
  BY <1>1, <1>2 DEF Fetch, Taken
<1>4. /\ TextRight(data, nextChar, isEof) /\ isEof \in BOOLEAN /\ Fresh(data, nextChar, isEof)
      /\ TokRight(tok, data) /\ AnsweredRight(toks, data)
      /\ curLine \in Nat /\ curLine = 1 + LinesIn(data, PassedIn(data, nextChar) + 1)
  BY <1>1 DEF LexRight, ReturnPending, LineRight
<1>5. ReadRight(Nul, FALSE, data, nextChar, isEof, data', nextChar', eof2)
  BY <1>3, <1>4, Reads
<1>6. Nul \notin {LineFeed, Return}
  BY LineEndsApart
<1>7. /\ TextRight(data', nextChar', eof2) /\ CountsStay(data, data') /\ nextChar' = Nul
      /\ LinesIn(data', PassedIn(data', nextChar') + 1) = LinesIn(data, PassedIn(data, nextChar) + 1)
  BY <1>1, <1>5, <1>6 DEF ReadRight, Fetch
<1>8. TextRight(data', nextChar', isEof') /\ Fresh(data', nextChar', isEof')
  BY <1>1, <1>7 DEF TextRight, Fresh
<1>9. LineRight' /\ ReturnPending'
  BY <1>1, <1>4, <1>7, <1>8 DEF LineRight, ReturnPending
<1>10. TokRight(tok', data') /\ AnsweredRight(toks', data')
  BY <1>1, <1>4, <1>7, TokStays, AnswersStay
<1> QED
  BY <1>1, <1>8, <1>9, <1>10 DEF LexRight

LEMMA PassesBlank ==
    ASSUME LexRight, Blank
    PROVE  LexRight'
<1>1. PICK c \in Blanks \cup {LineFeed} :
         /\ Take(c, FALSE)
         /\ curLine' = IF c = LineFeed THEN curLine + 1 ELSE curLine
  BY DEF Blank
<1>2. mode = "text" /\ mode' = mode /\ tok' = tok /\ toks' = toks
  BY DEF Blank
<1>3. c # Return
  BY DEF Blanks, LineFeed, Return
<1>4. /\ mode' # "error"
      /\ mode' = "newline" <=> ~ FALSE /\ c = Return
      /\ curLine' = IF ~ FALSE /\ c \in {LineFeed, Return} THEN curLine + 1 ELSE curLine
  BY <1>1, <1>2, <1>3
<1> QED
  BY <1>1, <1>2, <1>4, Moves

LEMMA PassesReturn ==
    ASSUME LexRight, LineReturn
    PROVE  LexRight'
<1>1. /\ mode \in {"text", "comment"} /\ Take(Return, FALSE) /\ curLine' = curLine + 1
      /\ mode' = "newline" /\ tok' = tok /\ toks' = toks
  BY DEF LineReturn, Enter
<1>2. /\ mode' # "error"
      /\ mode' = "newline" <=> ~ FALSE /\ Return = Return
      /\ curLine' = IF ~ FALSE /\ Return \in {LineFeed, Return} THEN curLine + 1 ELSE curLine
  BY <1>1
<1> QED
  BY <1>1, <1>2, Moves

LEMMA PassesLineFeed ==
    ASSUME LexRight, AfterReturn
    PROVE  LexRight'
<1>1. PICK c \in AnyChar : Take(c, c # LineFeed)
  BY DEF AfterReturn, SkipsLineFeed
<1>2. /\ mode = "newline" /\ mode' \in {"text", "string"}
      /\ UNCHANGED <<curLine, tok, toks>>
  BY DEF AfterReturn, Enter
<1>3. /\ TextRight(data, nextChar, isEof) /\ isEof \in BOOLEAN
      /\ nextChar = Nul /\ ~ isEof /\ data # <<>> /\ data[Len(data)] = Return
      /\ TokRight(tok, data) /\ AnsweredRight(toks, data)
      /\ curLine \in Nat /\ curLine = 1 + LinesIn(data, PassedIn(data, nextChar) + 1)
  BY <1>2 DEF LexRight, ReturnPending, LineRight
<1>4. isEof' \in BOOLEAN /\ (isEof' <=> isEof \/ (c = Nul /\ data' = data))
  BY <1>1, <1>3 DEF Take
<1>9. PICK kept \in BOOLEAN : kept <=> c # LineFeed
  OBVIOUS
<1>10. kept = (c # LineFeed)
  BY <1>9
<1>5. Taken(c, kept, data, nextChar, isEof, data', nextChar', isEof')
  BY <1>1, <1>4, <1>10 DEF Take, Fetch, Taken
<1>6. /\ TextRight(data', nextChar', isEof') /\ CountsStay(data, data')
      /\ Fresh(data', nextChar', isEof')
      /\ LinesIn(data', PassedIn(data', nextChar') + 1) = LinesIn(data, PassedIn(data, nextChar) + 1)
  <2>1. TextRight(data, nextChar, isEof)
    BY <1>3
  <2>2. nextChar = Nul
    BY <1>3
  <2>3. data # <<>> /\ data[Len(data)] = Return /\ ~ isEof /\ isEof \in BOOLEAN
    BY <1>3
  <2>4. isEof' \in BOOLEAN
    BY <1>4
  <2> QED
    BY <1>5, <1>9, <2>1, <2>2, <2>3, <2>4, ReadsAfterReturn
<1>7. LineRight' /\ ReturnPending'
  BY <1>2, <1>3, <1>6 DEF LineRight, ReturnPending
<1>8. TokRight(tok', data') /\ AnsweredRight(toks', data')
  BY <1>2, <1>3, <1>6, TokStays, AnswersStay
<1> QED
  BY <1>4, <1>6, <1>7, <1>8 DEF LexRight

LEMMA PassesComment ==
    ASSUME LexRight, Comment
    PROVE  LexRight'
<1>1. CASE mode = "text" /\ Take("#", FALSE)
              /\ Enter("comment") /\ UNCHANGED <<curLine, quote, num, tok, toks, rawEnd>>
  <2>1. mode' = "comment" /\ UNCHANGED <<curLine, tok, toks>> /\ "#" \notin {LineFeed, Return}
    BY <1>1, LineEndsApart DEF Enter
  <2> QED
    BY <1>1, <2>1, Passes
<1>2. CASE /\ mode = "comment"
           /\ \E c \in Chars \ {Nul, Return} :
                 /\ Take(c, FALSE)
                 /\ IF c = LineFeed
                    THEN curLine' = curLine + 1 /\ Enter("text")
                    ELSE UNCHANGED <<curLine, mode>>
           /\ UNCHANGED <<quote, num, tok, toks, rawEnd>>
  <2>1. PICK c \in Chars \ {Nul, Return} :
           /\ Take(c, FALSE)
           /\ IF c = LineFeed
              THEN curLine' = curLine + 1 /\ Enter("text")
              ELSE UNCHANGED <<curLine, mode>>
    BY <1>2
  <2>2. /\ mode' # "error"
        /\ mode' = "newline" <=> ~ FALSE /\ c = Return
        /\ curLine' = IF ~ FALSE /\ c \in {LineFeed, Return} THEN curLine + 1 ELSE curLine
    BY <1>2, <2>1 DEF Enter
  <2> QED
    BY <1>2, <2>1, <2>2, Moves
<1> QED
  BY <1>1, <1>2 DEF Comment

\* A token begins with the character read, and more may follow.
LEMMA Begins ==
    ASSUME LexRight, mode = "text", NEW c \in Quotes \cup IdStart \cup Digits,
           Take(c, FALSE), Begin, mode' \notin {"newline", "error"}, toks' = toks
    PROVE  LexRight'
<1>1. /\ tok' = [first |-> Consumed', line |-> curLine] /\ curLine' = curLine
  BY DEF Begin
<1>2. c \notin {LineFeed, Return, Nul}
  BY LineEndsApart
<1>3. TokRight(tok', data')
  <2>1. tok'.first = Consumed' /\ tok'.line = curLine
    BY <1>1
  <2> QED
    BY <1>2, <2>1, BeginsRight
<1>4. /\ mode' # "error"
      /\ mode' = "newline" <=> ~ FALSE /\ c = Return
      /\ curLine' = IF ~ FALSE /\ c \in {LineFeed, Return} THEN curLine + 1 ELSE curLine
  BY <1>1, <1>2
<1> QED
  BY <1>3, <1>4, Moves

\* A token is answered with the line it began on.
LEMMA Answers ==
    ASSUME LexRight, mode \notin {"newline", "error"}, NEW c, NEW kept \in BOOLEAN, Take(c, kept),
           kept \/ c \notin {LineFeed, Return},
           NEW type, NEW last, NEW val, Accept(type, last, val),
           curLine' = curLine, tok' = tok
    PROVE  LexRight'
<1>1. PICK t : t = [type |-> type, first |-> tok.first, last |-> last,
                    line |-> tok.line, val |-> val]
  OBVIOUS
<1>2. toks' = Append(toks, t) /\ mode' = "between" /\ t.first = tok.first /\ t.line = tok.line
  BY <1>1 DEF Accept, Enter
<1>3. TokRight(t, data)
  BY <1>2 DEF LexRight, TokRight
<1>4. /\ mode' # "error"
      /\ mode' = "newline" <=> ~ kept /\ c = Return
      /\ curLine' = IF ~ kept /\ c \in {LineFeed, Return} THEN curLine + 1 ELSE curLine
  BY <1>2
<1> QED
  BY <1>2, <1>3, <1>4, Moves

LEMMA AnswersOne ==
    ASSUME LexRight, SingleChar
    PROVE  LexRight'
<1>1. PICK c \in Punctuators :
         /\ Take(c, FALSE)
         /\ toks' = Append(toks, [type |-> c, first |-> Consumed', last |-> Consumed',
                                  line |-> curLine, val |-> c])
  BY DEF SingleChar
<1>2. mode = "text" /\ mode' = "between" /\ curLine' = curLine /\ tok' = tok
  BY DEF SingleChar, Enter
<1>3. PICK t : t = [type |-> c, first |-> Consumed', last |-> Consumed',
                    line |-> curLine, val |-> c]
  OBVIOUS
<1>4. c \notin {LineFeed, Return, Nul}
  BY LineEndsApart
<1>5. TokRight(t, data')
  <2>1. t.first = Consumed' /\ t.line = curLine
    BY <1>3
  <2> QED
    BY <1>1, <1>2, <1>4, <2>1, BeginsRight
<1>6. /\ mode' # "error"
      /\ mode' = "newline" <=> ~ FALSE /\ c = Return
      /\ curLine' = IF ~ FALSE /\ c \in {LineFeed, Return} THEN curLine + 1 ELSE curLine
  BY <1>2, <1>4
<1> QED
  BY <1>1, <1>2, <1>3, <1>5, <1>6, Moves

LEMMA Refuses ==
    ASSUME LexRight, Unrecognized
    PROVE  LexRight'
<1>1. PICK c \in Chars \ Recognized : Take(c, FALSE)
  BY DEF Unrecognized
<1>2. mode = "text" /\ mode' = "error" /\ UNCHANGED <<curLine, tok, toks>>
  BY DEF Unrecognized, lexError, Enter
<1>3. c \notin {LineFeed, Return}
  BY DEF Recognized
<1> QED
  BY <1>1, <1>2, <1>3, Passes

LEMMA ReadsWord ==
    ASSUME LexRight, Word
    PROVE  LexRight'
<1>1. ASSUME mode = "text", NEW c \in IdStart, Take(c, FALSE), Begin, Enter("word"),
             UNCHANGED <<quote, num, toks>>
      PROVE  LexRight'
  <2>1. mode' = "word"
    BY <1>1 DEF Enter
  <2> QED
    BY <1>1, <2>1, Begins
<1>2. ASSUME mode = "word", NEW c \in AnyChar, Take(c, ~ IsCharId(c)), IsCharId(c),
             UNCHANGED <<mode, toks>>, UNCHANGED <<curLine, quote, num, tok, rawEnd>>
      PROVE  LexRight'
  <2>1. c \notin {LineFeed, Return} /\ (~ IsCharId(c)) \in BOOLEAN
    BY <1>2, LineEndsApart
  <2> QED
    BY <1>2, <2>1, Passes
<1>3. ASSUME mode = "word", NEW c \in AnyChar, Take(c, ~ IsCharId(c)), ~ IsCharId(c),
             Accept(WordType(SubSeq(data, tok.first, Consumed)), Consumed,
                    SubSeq(data, tok.first, Consumed)),
             UNCHANGED <<curLine, quote, num, tok, rawEnd>>
      PROVE  LexRight'
  <2>1. (~ IsCharId(c)) \in BOOLEAN /\ ~ IsCharId(c)
    BY <1>3
  <2> QED
    BY <1>3, <2>1, Answers
<1> QED
  BY <1>1, <1>2, <1>3 DEF Word

LEMMA ReadsDigit ==
    ASSUME LexRight, NumberBegins
    PROVE  LexRight'
<1>1. PICK c \in Digits : Take(c, FALSE) /\ Enter(IF c = "0" THEN "zero" ELSE "digits")
  BY DEF NumberBegins
<1>2. mode = "text" /\ mode' \in {"zero", "digits"} /\ Begin /\ toks' = toks
  BY <1>1 DEF NumberBegins, Enter
<1> QED
  BY <1>1, <1>2, Begins

LEMMA ReadsBase ==
    ASSUME LexRight, Base
    PROVE  LexRight'
<1>1. PICK c \in AnyChar : Take(c, BaseOf(c) \in {8, 10})
  BY DEF Base
<1>2. mode = "zero" /\ mode' = "digits" /\ UNCHANGED <<curLine, tok, toks>>
  BY DEF Base, Enter
<1>3. c \in {LineFeed, Return} => BaseOf(c) \in {8, 10}
  BY DEF BaseOf, LineFeed, Return, Octal
<1>4. PICK kept \in BOOLEAN : kept <=> BaseOf(c) \in {8, 10}
  OBVIOUS
<1>5. Take(c, kept) /\ (kept \/ c \notin {LineFeed, Return})
  <2>1. kept = (BaseOf(c) \in {8, 10})
    BY <1>4
  <2> QED
    BY <1>1, <1>3, <2>1
<1> QED
  BY <1>2, <1>5, Passes

LEMMA ReadsNumber ==
    ASSUME LexRight, Number
    PROVE  LexRight'
<1>1. PICK c \in AnyChar :
         /\ Take(c, Parses /\ ~ IsCharNum(c, num.base) /\ ~ IsCharId(c))
         /\ IF IsCharNum(c, num.base)
            THEN UNCHANGED <<mode, toks>>
            ELSE IF ~ Parses THEN lexError /\ UNCHANGED toks
                 ELSE IF IsCharId(c) THEN Enter("numid") /\ UNCHANGED toks
                 ELSE Accept("Number", Consumed, num.val)
  BY DEF Number
<1>2. mode = "digits" /\ UNCHANGED <<curLine, tok>>
  BY DEF Number
<1>3. PICK kept \in BOOLEAN : kept <=> Parses /\ ~ IsCharNum(c, num.base) /\ ~ IsCharId(c)
  OBVIOUS
<1>4. Take(c, kept)
  <2>1. kept = (Parses /\ ~ IsCharNum(c, num.base) /\ ~ IsCharId(c))
    BY <1>3
  <2> QED
    BY <1>1, <2>1
<1>5. CASE IsCharNum(c, num.base)
  <2>1. c \notin {LineFeed, Return} /\ UNCHANGED <<mode, toks>>
    BY <1>1, <1>5, LineEndsApart
  <2> QED
    BY <1>2, <1>4, <2>1, Passes
<1>6. CASE ~ IsCharNum(c, num.base) /\ ~ Parses
  <2>1. mode' = "error" /\ toks' = toks /\ ~ kept
    BY <1>1, <1>3, <1>6 DEF lexError, Enter
  <2> QED
    BY <1>2, <1>4, <2>1, Moves
<1>7. CASE ~ IsCharNum(c, num.base) /\ Parses /\ IsCharId(c)
  <2>1. c \notin {LineFeed, Return} /\ mode' = "numid" /\ toks' = toks
    BY <1>1, <1>7, LineEndsApart DEF Enter
  <2> QED
    BY <1>2, <1>4, <2>1, Passes
<1>8. CASE ~ IsCharNum(c, num.base) /\ Parses /\ ~ IsCharId(c)
  <2>1. kept /\ Accept("Number", Consumed, num.val)
    BY <1>1, <1>3, <1>8
  <2> QED
    BY <1>2, <1>4, <2>1, Answers
<1> QED
  BY <1>5, <1>6, <1>7, <1>8

LEMMA ReadsNumId ==
    ASSUME LexRight, NumId
    PROVE  LexRight'
<1>1. PICK c \in AnyChar :
         /\ Take(c, ~ IsCharId(c))
         /\ IF IsCharId(c) THEN UNCHANGED <<mode, toks>>
            ELSE Accept("NumId", Consumed, num.val)
  BY DEF NumId
<1>2. mode = "numid" /\ UNCHANGED <<curLine, tok>>
  BY DEF NumId
<1>3. (~ IsCharId(c)) \in BOOLEAN
  OBVIOUS
<1>4. CASE IsCharId(c)
  <2>1. c \notin {LineFeed, Return} /\ UNCHANGED <<mode, toks>>
    BY <1>1, <1>4, LineEndsApart
  <2> QED
    BY <1>1, <1>2, <1>3, <2>1, Passes
<1>5. CASE ~ IsCharId(c)
  <2>1. Accept("NumId", Consumed, num.val)
    BY <1>1, <1>5
  <2> QED
    BY <1>1, <1>2, <1>3, <1>5, <2>1, Answers
<1> QED
  BY <1>4, <1>5

LEMMA ReadsQuote ==
    ASSUME LexRight, StringBegins
    PROVE  LexRight'
<1>1. PICK c \in Quotes : Take(c, FALSE)
  BY DEF StringBegins
<1>2. mode = "text" /\ mode' = "string" /\ Begin /\ toks' = toks
  BY DEF StringBegins, Enter
<1> QED
  BY <1>1, <1>2, Begins

\* A line end in a string that is not escaped is not counted.
LEMMA ReadsString ==
    ASSUME LexRight, String, ~ rawEnd'
    PROVE  LexRight'
<1>1. PICK c \in AnyChar :
         /\ Take(c, FALSE)
         /\ rawEnd' = (rawEnd \/ c \in {LineFeed, Return})
         /\ IF c = quote
            THEN Accept("String", Consumed', quote)
            ELSE /\ CASE c = Nul  -> lexError
                      [] c = "\\" -> Enter("escape")
                      [] OTHER    -> UNCHANGED mode
                 /\ toks' = toks
  BY DEF String
<1>2. mode = "string" /\ UNCHANGED <<curLine, tok>>
  BY DEF String
<1>3. c \notin {LineFeed, Return}
  BY <1>1
<1>4. CASE c = quote
  <2>1. Accept("String", Consumed', quote)
    BY <1>1, <1>4
  <2> QED
    BY <1>1, <1>2, <1>3, <2>1, Answers
<1>5. CASE c # quote
  <2>1. toks' = toks /\ mode' \in {"error", "escape", "string"}
    BY <1>1, <1>2, <1>5 DEF lexError, Enter
  <2> QED
    BY <1>1, <1>2, <1>3, <2>1, Passes
<1> QED
  BY <1>4, <1>5

LEMMA ReadsEscape ==
    ASSUME LexRight, Escape
    PROVE  LexRight'
<1>1. PICK c \in AnyChar :
         /\ Take(c, c \in Blanks)
         /\ curLine' = IF c \in {LineFeed, Return} THEN curLine + 1 ELSE curLine
         /\ CASE c = Nul    -> lexError
              [] c = Return -> Enter("newline")
              [] OTHER      -> Enter("string")
  BY DEF Escape
<1>2. mode = "escape" /\ UNCHANGED <<tok, toks>>
  BY DEF Escape
<1>3. PICK kept \in BOOLEAN : kept <=> c \in Blanks
  OBVIOUS
<1>4. Take(c, kept)
  <2>1. kept = (c \in Blanks)
    BY <1>3
  <2> QED
    BY <1>1, <2>1
<1>5. Blanks \cap {LineFeed, Return, Nul} = {} /\ Nul \notin {LineFeed, Return}
  BY DEF Blanks, LineFeed, Return, Nul
<1>6. \/ /\ mode' # "error"
         /\ mode' = "newline" <=> ~ kept /\ c = Return
         /\ curLine' = IF ~ kept /\ c \in {LineFeed, Return} THEN curLine + 1 ELSE curLine
      \/ mode' = "error" /\ ~ kept /\ curLine' = curLine
  <2>1. CASE c = Nul
    BY <1>1, <1>3, <1>5, <2>1 DEF lexError, Enter
  <2>2. CASE c = Return
    BY <1>1, <1>3, <1>5, <2>2 DEF Enter
  <2>3. CASE c # Nul /\ c # Return
    BY <1>1, <1>3, <1>5, <2>3 DEF Enter
  <2> QED
    BY <2>1, <2>2, <2>3
<1> QED
  BY <1>2, <1>4, <1>6, Moves

-----------------------------------------------------------------------------
(* The invariant and what it gives.                                         *)

LEMMA LexStart ==
    ASSUME LexInit
    PROVE  LexIInv
<1>1. /\ data = <<>> /\ nextChar = Nul /\ isEof = FALSE /\ curLine = 1 /\ mode = "between"
      /\ tok = NoTok /\ toks = <<>>
  BY DEF LexInit
<1>2. /\ <<>> \in Seq(Chars) /\ Len(<<>>) = 0 /\ \A S : <<>> \in Seq(S)
  OBVIOUS
<1>3. \A i : LinesIn(data, i) = 0
  <2>1. \A i : EndsIn(data, i) = {}
    BY <1>1, <1>2 DEF EndsIn
  <2>2. Cardinality({}) = 0
    BY FS_EmptySet
  <2> QED
    BY <2>1, <2>2, Zenon DEF LinesIn
<1>4. TokRight(tok, data)
  BY <1>1, <1>2, <1>3 DEF TokRight, NoTok
<1>5. AnsweredRight(toks, data)
  BY <1>1, <1>2 DEF AnsweredRight
<1>6. LineRight /\ ReturnPending
  BY <1>1, <1>3 DEF LineRight, ReturnPending, Fresh
<1> QED
  BY <1>1, <1>2, <1>4, <1>5, <1>6 DEF LexIInv, LexRight, TextRight

LEMMA LexStep ==
    ASSUME LexIInv, [LexNext]_lexVars
    PROVE  LexIInv'
<1> SUFFICES ASSUME ~ rawEnd'
             PROVE  LexRight'
  BY DEF LexIInv
<1>1. CASE UNCHANGED lexVars
  <2>1. UNCHANGED <<data, nextChar, isEof, curLine, mode, tok, toks, rawEnd>>
    BY <1>1 DEF lexVars, textVars
  <2> QED
    BY <2>1 DEF LexIInv, LexRight, LineRight, ReturnPending
<1>2. CASE LexNext
  <2>1. ~ rawEnd
    BY <1>2 DEF LexNext, NextToken, End, Blank, LineReturn, AfterReturn, Comment, SingleChar,
                Unrecognized, Word, NumberBegins, Begin, Base, Number, NumId, StringBegins,
                String, Escape
  <2>2. LexRight
    BY <2>1 DEF LexIInv
  <2> QED
    BY <1>2, <2>2, Starts, Finishes, PassesBlank, PassesReturn, PassesLineFeed, PassesComment,
       AnswersOne, Refuses, ReadsWord, ReadsDigit, ReadsBase, ReadsNumber, ReadsNumId,
       ReadsQuote, ReadsString, ReadsEscape DEF LexNext
<1> QED
  BY <1>1, <1>2

\* Of texts of any length, in any mixture of line ends: as long as no string goes
\* over a line without an escape, the current line is one more than the line ends
\* read, and a carriage return read last waits for its line feed.
THEOREM LexInvariant == LexSpec => []LexIInv
<1>1. LexInit => LexIInv
  BY LexStart
<1>2. LexIInv /\ [LexNext]_lexVars => LexIInv'
  BY LexStep
<1> QED
  BY <1>1, <1>2, PTL DEF LexSpec

\* SimpleLexer::NextToken: the line of every token, and of an error, is one more
\* than the number of line ends before it, in a text of which no string has held a
\* line end without an escape.
THEOREM LinesAreExact == LexSpec => []LinesExact
<1>1. LexIInv => LinesExact
  <2> SUFFICES ASSUME LexIInv, ~ rawEnd
               PROVE  /\ \A k \in DOMAIN toks : toks[k].line = 1 + LineEnds(toks[k].first)
                      /\ mode = "error" =>
                            curLine = 1 + LineEnds(IF isEof THEN Len(data) + 1 ELSE Len(data))
    BY DEF LinesExact
  <2>1. \A i : LineEnds(i) = LinesIn(data, i)
    BY DEF LineEnds, LinesIn, EndsIn, EndsLine
  <2>2. LexRight
    BY DEF LexIInv
  <2> QED
    BY <2>1, <2>2 DEF LexRight, LineRight, AnsweredRight, TokRight
<1> QED
  BY <1>1, LexInvariant, PTL

-----------------------------------------------------------------------------
(***************************************************************************)
(* The command line.  The image at hand is one of those that the texts so    *)
(* far may leave, and the text that is being read means what the place of    *)
(* the reader in it says, until one is refused.                             *)
(***************************************************************************)

\* What the first n texts of any command line describe.
ToldOf(c, n) ==
    LET after[k \in 0 .. n] ==
            IF k = 0 THEN [images |-> {NewImage}, parts |-> <<>>]
            ELSE Told(after[k - 1], c[k])
    IN  after[n]

AcceptableOf(c, n) ==
    /\ ToldOf(c, n).images # {}
    /\ \A i \in 1 .. n : OfPart(c[i]) => GoodPart(c[i])

TextTargets == Props \cup DOMAIN PartProps \cup {"bogus", NoValue}

Tellings == [option : DOMAIN Following, target : TextTargets, text : Seq(CmdTokens), new : BOOLEAN]

Parts == [DOMAIN PartProps -> Seq(CmdTokens)]

\* The images that the texts so far may leave differ at most in what waits and in
\* what a replay made of it: they have the same components, so what one of them
\* refuses they all refuse.
ImagesRight(imgs, img) ==
    /\ img \in imgs
    /\ \A i \in imgs : (\E G : Fits(i, G, FALSE)) /\ i.comps = img.comps

PlaceRight(where, text, opt) ==
    /\ text \in Seq(CmdTokens)
    /\ where = "first" => text = <<>>
    /\ where = "end" => Len(text) = 1 /\ text[1] \in CmdVals /\ (opt \notin DOMAIN Single => text[1] \notin CmdIds)
    /\ where = "next" => Len(text) = 1 /\ text[1] \in CmdIds
    /\ where = "piece" => IsPath(text) /\ text[Len(text)] = Slash
    /\ where = "slash" => IsPath(text) /\ text[Len(text)] \in CmdIds
    /\ where = "value" => Len(text) = 1 /\ text[1] \in CmdVals
    /\ where = "path" => IsPath(text)
    /\ where \in {"next", "piece", "slash", "path"} => opt \notin DOMAIN Single

CmdTypes ==
    /\ option \in DOMAIN Following \cup {"added", "refused"}
    /\ reading \in {"between", "first", "end", "next", "piece", "slash", "value", "path"}
    /\ reading # "between" => option \in DOMAIN Following /\ target \in Targets
    /\ PlaceRight(reading, cmdText, option)
    /\ told \in Seq(Tellings)
    /\ attached \in Seq(Parts)
    /\ cmdPart \in Parts
    /\ cmdPart # NoPart /\ option # "refused" => option = "partition"

\* The image and its partitions while no text is refused.
Settled(c, img, part, done) ==
    /\ AcceptableOf(c, Len(c))
    /\ ImagesRight(ToldOf(c, Len(c)).images, img)
    /\ ToldOf(c, Len(c)).parts = IF part = NoPart THEN done ELSE Append(done, part)

\* The first text refused is the last.
RefusedLast(c) == AcceptableOf(c, Len(c) - 1) /\ ~ AcceptableOf(c, Len(c))

CmdOutcome ==
    IF option = "refused" THEN RefusedLast(told)
    ELSE Settled(told, cmdImg, cmdPart, attached)

CmdIInv == CmdTypes /\ CmdOutcome

-----------------------------------------------------------------------------
(* What one more text makes of what the texts describe.                     *)

\* What the texts of c describe, after each of the first n.
AfterTold(g, c, n) ==
    g = [k \in 0 .. n |->
            IF k = 0 THEN [images |-> {NewImage}, parts |-> <<>>] ELSE Told(g[k - 1], c[k])]

LEMMA ToldExists ==
    ASSUME NEW c, NEW n \in Nat
    PROVE  \E g : AfterTold(g, c, n)
<1> DEFINE base == [images |-> {NewImage}, parts |-> <<>>]
           Good == {k \in Nat : \E g : AfterTold(g, c, k)}
<1>1. 0 \in Good
  <2>1. AfterTold([k \in 0 .. 0 |-> base], c, 0)
    BY DEF AfterTold
  <2> QED
    BY <2>1
<1>2. ASSUME NEW k \in Nat, k \in Good
      PROVE  k + 1 \in Good
  <2>1. PICK g : AfterTold(g, c, k)
    BY <1>2
  <2> DEFINE last == Told(g[k], c[k + 1])
             h == [j \in 0 .. k + 1 |-> IF j = k + 1 THEN last ELSE g[j]]
  <2> HIDE DEF last
  <2>2. ASSUME NEW j \in 0 .. k + 1
        PROVE  h[j] = IF j = 0 THEN base ELSE Told(h[j - 1], c[j])
    <3>1. CASE j = k + 1
      <4>1. h[j] = last /\ j # 0 /\ j - 1 = k /\ k \in 0 .. k + 1 /\ h[k] = g[k]
        BY <3>1
      <4> HIDE DEF h
      <4> QED
        BY <3>1, <4>1 DEF last
    <3>2. CASE j # k + 1
      <4>1. j \in 0 .. k /\ h[j] = g[j] /\ (j # 0 => j - 1 \in 0 .. k /\ h[j - 1] = g[j - 1])
        BY <3>2
      <4>2. g[j] = IF j = 0 THEN base ELSE Told(g[j - 1], c[j])
        BY <2>1, <4>1 DEF AfterTold
      <4> HIDE DEF h
      <4> QED
        BY <4>1, <4>2
    <3> QED
      BY <3>1, <3>2
  <2>3. h = [j \in 0 .. k + 1 |-> h[j]]
    OBVIOUS
  <2> HIDE DEF h
  <2>4. AfterTold(h, c, k + 1)
    BY <2>2, <2>3 DEF AfterTold
  <2> QED
    BY <2>4
<1> HIDE DEF Good
<1>3. Nat \subseteq Good
  BY <1>1, <1>2, NatSet
<1> QED
  BY <1>3 DEF Good

\* It depends only on the texts so far.
SameTexts(c, d, n) == \A j \in 1 .. n : c[j] = d[j]

LEMMA ToldAgree ==
    ASSUME NEW k \in Nat, NEW m \in Nat, k <= m, NEW c, NEW d, NEW g, NEW h,
           AfterTold(g, c, k), AfterTold(h, d, m), SameTexts(c, d, k)
    PROVE  g[k] = h[k]
<1> DEFINE Good == {j \in Nat : j <= k => g[j] = h[j]}
<1>1. g[0] = h[0]
  BY DEF AfterTold
<1>2. ASSUME NEW j \in Nat, j \in Good
      PROVE  j + 1 \in Good
  <2> SUFFICES ASSUME j + 1 <= k
               PROVE  g[j + 1] = h[j + 1]
    OBVIOUS
  <2>1. j <= k /\ j + 1 \in 0 .. k /\ j + 1 \in 0 .. m /\ j + 1 \in 1 .. k /\ j + 1 # 0 /\ (j + 1) - 1 = j
    OBVIOUS
  <2>2. g[j] = h[j] /\ c[j + 1] = d[j + 1]
    BY <1>2, <2>1 DEF SameTexts
  <2>3. g[j + 1] = Told(g[j], c[j + 1])
    BY <2>1 DEF AfterTold
  <2>4. h[j + 1] = Told(h[j], d[j + 1])
    BY <2>1 DEF AfterTold
  <2> QED
    BY <2>2, <2>3, <2>4
<1>3. 0 \in Good
  BY <1>1
<1> HIDE DEF Good
<1>4. Nat \subseteq Good
  BY <1>2, <1>3, NatSet
<1>5. k \in Good
  BY <1>4
<1> QED
  BY <1>5 DEF Good

LEMMA ToldIs ==
    ASSUME NEW c, NEW n \in Nat
    PROVE  \E g : AfterTold(g, c, n) /\ ToldOf(c, n) = g[n]
<1> DEFINE g == CHOOSE f : AfterTold(f, c, n)
<1>1. ToldOf(c, n) = g[n]
  BY DEF ToldOf, AfterTold
<1> QED
  BY <1>1, ToldExists

LEMMA ToldFirst ==
    ASSUME NEW c
    PROVE  ToldOf(c, 0) = [images |-> {NewImage}, parts |-> <<>>]
BY ToldIs DEF AfterTold

LEMMA ToldGrows ==
    ASSUME NEW c \in Seq(Tellings), NEW x \in Tellings, NEW d, d = Append(c, x)
    PROVE  /\ ToldOf(d, Len(c)) = ToldOf(c, Len(c))
           /\ ToldOf(d, Len(d)) = Told(ToldOf(c, Len(c)), x)
<1> DEFINE n == Len(c)
<1>1. n \in Nat /\ Len(d) = n + 1 /\ d[n + 1] = x /\ \A j \in 1 .. n : c[j] = d[j]
  OBVIOUS
<1>2. PICK g : AfterTold(g, c, n) /\ ToldOf(c, n) = g[n]
  BY <1>1, ToldIs
<1>3. PICK h : AfterTold(h, d, n) /\ ToldOf(d, n) = h[n]
  BY <1>1, ToldIs
<1>4. PICK f : AfterTold(f, d, n + 1) /\ ToldOf(d, n + 1) = f[n + 1]
  BY <1>1, ToldIs
<1>a. n + 1 \in Nat /\ n <= n /\ n <= n + 1
  BY <1>1
<1> HIDE DEF n
<1>b. SameTexts(c, d, n)
  BY <1>1 DEF SameTexts
<1>c. n \in Nat
  BY <1>1
<1>5. g[n] = h[n]
  <2>1. AfterTold(g, c, n) /\ AfterTold(h, d, n)
    BY <1>2, <1>3
  <2> QED
    BY <1>a, <1>b, <1>c, <2>1, ToldAgree
<1>6. g[n] = f[n]
  <2>1. AfterTold(g, c, n) /\ AfterTold(f, d, n + 1)
    BY <1>2, <1>4
  <2> QED
    BY <1>a, <1>b, <1>c, <2>1, ToldAgree
<1>7. f[n + 1] = Told(f[n], d[n + 1])
  <2>1. n + 1 \in 0 .. n + 1 /\ n + 1 # 0 /\ (n + 1) - 1 = n
    BY <1>1
  <2> QED
    BY <1>4, <2>1 DEF AfterTold
<1>8. ToldOf(d, n) = ToldOf(c, n) /\ ToldOf(d, Len(d)) = Told(ToldOf(c, n), x)
  BY <1>1, <1>2, <1>3, <1>4, <1>5, <1>6, <1>7
<1> QED
  BY <1>8 DEF n

LEMMA AcceptsMore ==
    ASSUME NEW c \in Seq(Tellings), NEW x \in Tellings, NEW d, d = Append(c, x)
    PROVE  /\ d \in Seq(Tellings) /\ Len(d) - 1 = Len(c)
           /\ AcceptableOf(d, Len(c)) <=> AcceptableOf(c, Len(c))
           /\ AcceptableOf(c, Len(c)) =>
                 (AcceptableOf(d, Len(d)) <=> /\ Told(ToldOf(c, Len(c)), x).images # {}
                                              /\ OfPart(x) => GoodPart(x))
<1> DEFINE n == Len(c)
<1>1. /\ n \in Nat /\ Len(d) = n + 1 /\ d[n + 1] = x /\ \A j \in 1 .. n : c[j] = d[j]
      /\ d \in Seq(Tellings) /\ Len(d) - 1 = n
  OBVIOUS
<1>2. ToldOf(d, n) = ToldOf(c, n) /\ ToldOf(d, Len(d)) = Told(ToldOf(c, n), x)
  BY ToldGrows
<1>3. 1 .. n + 1 = (1 .. n) \cup {n + 1}
  BY <1>1
<1> HIDE DEF n
<1>4. AcceptableOf(d, n) <=> AcceptableOf(c, n)
  BY <1>1, <1>2 DEF AcceptableOf
<1>5. AcceptableOf(d, Len(d)) <=> /\ Told(ToldOf(c, n), x).images # {}
                                  /\ \A i \in 1 .. n : OfPart(c[i]) => GoodPart(c[i])
                                  /\ OfPart(x) => GoodPart(x)
  BY <1>1, <1>2, <1>3 DEF AcceptableOf
<1>6. AcceptableOf(c, n) => \A i \in 1 .. n : OfPart(c[i]) => GoodPart(c[i])
  BY DEF AcceptableOf
<1> QED
  BY <1>1, <1>4, <1>5, <1>6 DEF n

-----------------------------------------------------------------------------
(* What a text means.                                                       *)

LEMMA Tokens ==
    /\ CmdEof \notin CmdVals /\ CmdError \notin CmdVals /\ Slash \notin CmdVals /\ Stray \notin CmdVals
    /\ CmdIds \subseteq CmdVals /\ CmdVals \subseteq CmdTokens /\ Slash \in CmdTokens
    /\ Slash \notin CmdIds /\ Slash \notin {CmdEof, CmdError, Stray}
    /\ CmdEof \notin CmdIds /\ CmdError \notin CmdIds /\ Stray \notin CmdIds
    /\ \A token \in CmdTokens : token \in CmdVals \cup {CmdEof, CmdError, Slash, Stray}
<1>1. CmdVals \cap {CmdEof, CmdError, Slash, Stray} = {}
  BY CmdAssumption DEF CmdVals
<1>2. CmdIds \subseteq CmdVals
  BY DEF CmdVals
<1>3. Slash \notin {CmdEof, CmdError, Stray}
  BY DEF Slash, CmdEof, CmdError, Stray
<1> QED
  BY <1>1, <1>2, <1>3 DEF CmdTokens

\* The tokens each place takes, and where they lead.
Leads(where, token, to, opt) ==
    \/ where = "first" /\ opt \in DOMAIN Single /\ token \in CmdVals /\ to = "end"
    \/ where = "first" /\ opt \notin DOMAIN Single /\ token \in CmdVals \ CmdIds /\ to = "end"
    \/ where = "first" /\ opt \notin DOMAIN Single /\ token \in CmdIds /\ to = "next"
    \/ where = "first" /\ opt \notin DOMAIN Single /\ token = Slash /\ to = "piece"
    \/ where \in {"end", "next"} /\ token = CmdEof /\ to = "value"
    \/ where \in {"next", "slash"} /\ token = Slash /\ to = "piece"
    \/ where \in {"piece", "slash"} /\ token = CmdEof /\ to = "path"
    \/ where = "piece" /\ token \in CmdIds /\ to = "slash"

LEMMA Takings ==
    ASSUME NEW where \in DOMAIN Converts, NEW take \in Converts[where]
    PROVE  Leads(where, take[1], take[2], option)
<1>1. where \in {"first", "end", "next", "piece", "slash"}
  BY DEF Converts
<1>2. CASE where = "first"
  <2>1. take \in IF option \in DOMAIN Single THEN CmdVals \X {"end"}
                 ELSE ((CmdVals \ CmdIds) \X {"end"}) \cup (CmdIds \X {"next"}) \cup {<<Slash, "piece">>}
    BY <1>2 DEF Converts
  <2> QED
    BY <1>2, <2>1 DEF Leads
<1>3. CASE where = "end"
  BY <1>3 DEF Converts, Leads
<1>4. CASE where = "next"
  BY <1>4 DEF Converts, Leads
<1>5. CASE where = "piece"
  <2>1. take \in {<<CmdEof, "path">>} \cup (CmdIds \X {"slash"})
    BY <1>5 DEF Converts
  <2> QED
    BY <1>5, <2>1 DEF Leads
<1>6. CASE where = "slash"
  BY <1>6 DEF Converts, Leads
<1> QED
  BY <1>1, <1>2, <1>3, <1>4, <1>5, <1>6

\* The other way round.
LEMMA TakenAt ==
    ASSUME NEW where \in DOMAIN Converts, NEW token, token \notin {take[1] : take \in Converts[where]}
    PROVE  /\ where \in {"first", "end", "next", "piece", "slash"}
           /\ where = "first" /\ option \in DOMAIN Single => token \notin CmdVals
           /\ where = "first" /\ option \notin DOMAIN Single => token \notin CmdVals /\ token # Slash
           /\ where \in {"end", "next", "piece", "slash"} => token # CmdEof
           /\ where \in {"next", "slash"} => token # Slash
           /\ where = "piece" => token \notin CmdIds
<1>1. where \in {"first", "end", "next", "piece", "slash"}
  BY DEF Converts
<1>2. \A to : <<token, to>> \notin Converts[where]
  <2> SUFFICES ASSUME NEW to, <<token, to>> \in Converts[where]
               PROVE  FALSE
    OBVIOUS
  <2>1. <<token, to>>[1] = token
    OBVIOUS
  <2> QED
    BY <2>1
<1>3. ASSUME where = "first", option \in DOMAIN Single
      PROVE  token \notin CmdVals
  <2>1. Converts[where] = CmdVals \X {"end"}
    BY <1>3 DEF Converts
  <2> QED
    BY <1>2, <2>1
<1>4. ASSUME where = "first", option \notin DOMAIN Single
      PROVE  token \notin CmdVals /\ token # Slash
  <2>1. Converts[where] = ((CmdVals \ CmdIds) \X {"end"}) \cup (CmdIds \X {"next"}) \cup {<<Slash, "piece">>}
    BY <1>4 DEF Converts
  <2>2. token # Slash
    BY <1>2, <2>1
  <2>3. token \notin CmdIds
    BY <1>2, <2>1
  <2>4. token \notin CmdVals \ CmdIds
    BY <1>2, <2>1
  <2> QED
    BY <2>2, <2>3, <2>4
<1>5. ASSUME where \in {"end", "next"}
      PROVE  token # CmdEof
  <2>1. <<CmdEof, "value">> \in Converts[where]
    BY <1>5 DEF Converts
  <2> QED
    BY <1>2, <2>1
<1>6. ASSUME where \in {"piece", "slash"}
      PROVE  token # CmdEof
  <2>1. <<CmdEof, "path">> \in Converts[where]
    BY <1>6 DEF Converts
  <2> QED
    BY <1>2, <2>1
<1>7. ASSUME where \in {"next", "slash"}
      PROVE  token # Slash
  <2>1. <<Slash, "piece">> \in Converts[where]
    BY <1>7 DEF Converts
  <2> QED
    BY <1>2, <2>1
<1>8. ASSUME where = "piece"
      PROVE  token \notin CmdIds
  <2>1. CmdIds \X {"slash"} \subseteq Converts[where]
    BY <1>8 DEF Converts
  <2> QED
    BY <1>2, <2>1
<1> QED
  BY <1>1, <1>3, <1>4, <1>5, <1>6, <1>7, <1>8

\* One more token of a text.
LEMMA OneMoreToken ==
    ASSUME NEW t \in Seq(CmdTokens), NEW token \in CmdTokens, NEW u, u = Append(t, token)
    PROVE  /\ u \in Seq(CmdTokens) /\ Len(u) = Len(t) + 1 /\ Len(t) \in Nat
           /\ u[Len(u)] = token /\ \A i \in 1 .. Len(t) : u[i] = t[i]
           /\ ToSet(u) = ToSet(t) \cup {token}
<1>1. /\ u \in Seq(CmdTokens) /\ Len(u) = Len(t) + 1 /\ Len(t) \in Nat
      /\ u[Len(u)] = token /\ \A i \in 1 .. Len(t) : u[i] = t[i]
  OBVIOUS
<1>2. ToSet(u) = ToSet(t) \cup {token}
  BY AppendSet
<1> QED
  BY <1>1, <1>2

LEMMA PathGrows ==
    ASSUME NEW t \in Seq(CmdTokens), NEW token \in CmdTokens, NEW u, u = Append(t, token),
           token \in CmdIds \cup {Slash}, t # <<>>, ToSet(t) \subseteq CmdIds \cup {Slash},
           IsPath(t) \/ (Len(t) = 1 /\ token = Slash),
           (t[Len(t)] = Slash) # (token = Slash)
    PROVE  IsPath(u)
<1>1. /\ Len(u) = Len(t) + 1 /\ Len(t) \in Nat /\ u[Len(u)] = token
      /\ \A i \in 1 .. Len(t) : u[i] = t[i]
  BY OneMoreToken
<1>2. ToSet(u) = ToSet(t) \cup {token}
  BY AppendSet
<1>3. Slash \in ToSet(u) /\ ToSet(u) \subseteq CmdIds \cup {Slash}
  BY <1>2 DEF IsPath
<1>4. ASSUME NEW i \in 1 .. Len(u) - 1
      PROVE  (u[i] = Slash) # (u[i + 1] = Slash)
  <2>1. CASE i = Len(t)
    <3>1. u[i] = t[Len(t)] /\ u[i + 1] = token
      BY <1>1, <2>1
    <3> QED
      BY <3>1
  <2>2. CASE i # Len(t)
    <3>1. i \in 1 .. Len(t) - 1 /\ u[i] = t[i] /\ u[i + 1] = t[i + 1] /\ Len(t) # 1
      BY <1>1, <2>2
    <3>2. IsPath(t)
      BY <3>1
    <3> QED
      BY <3>1, <3>2 DEF IsPath
  <2> QED
    BY <2>1, <2>2
<1> QED
  BY <1>3, <1>4 DEF IsPath

\* A text that two tokens in a row keep from being a path.
LEMMA NoPath ==
    ASSUME NEW t \in Seq(CmdTokens), NEW token \in CmdTokens, NEW u, u = Append(t, token),
           t # <<>>, (t[Len(t)] = Slash) = (token = Slash)
    PROVE  ~ IsPath(u)
<1>1. /\ Len(u) = Len(t) + 1 /\ Len(t) \in Nat /\ u[Len(u)] = token
      /\ \A i \in 1 .. Len(t) : u[i] = t[i]
  BY OneMoreToken
<1>2. Len(t) \in 1 .. Len(u) - 1 /\ u[Len(t)] = t[Len(t)] /\ u[Len(t) + 1] = token
  BY <1>1
<1> QED
  BY <1>2 DEF IsPath

\* A path is no value.
LEMMA PathIsLong ==
    ASSUME NEW t \in Seq(CmdTokens), IsPath(t)
    PROVE  t # <<>> /\ ~ (Len(t) = 1 /\ t[1] \in CmdVals) /\ Means(t) = "String"
<1>1. PICK i \in DOMAIN t : t[i] = Slash
  BY DEF IsPath, ToSet
<1>2. t # <<>> /\ (Len(t) = 1 => t[1] = Slash)
  BY <1>1
<1>3. ~ (Len(t) = 1 /\ t[1] \in CmdVals)
  BY <1>2, Tokens
<1> QED
  BY <1>2, <1>3 DEF Means

\* What is read and is no value of one token means a path, or nothing.
LEMMA NoValueMeans ==
    ASSUME NEW t, ~ (Len(t) = 1 /\ t[1] \in CmdVals)
    PROVE  Means(t) \in {"String", "None"} /\ (~ IsPath(t) => Means(t) = "None")
BY DEF Means

\* A text that has been read means what convertStr takes it for.
LEMMA TextMeans ==
    ASSUME NEW t \in Seq(CmdTokens), NEW where \in {"value", "path"}, NEW opt, PlaceRight(where, t, opt)
    PROVE  /\ t # <<>>
           /\ Means(t) = IF where = "path" THEN "String"
                         ELSE IF t[1] \in RefusedNumIds THEN "None" ELSE TypeOfVal(t[1])
<1>1. CASE where = "path"
  BY <1>1, PathIsLong DEF PlaceRight
<1>2. CASE where = "value"
  <2>1. Len(t) = 1 /\ t[1] \in CmdVals
    BY <1>2 DEF PlaceRight
  <2>2. ~ IsPath(t)
    BY <2>1, PathIsLong
  <2>3. t # <<>>
    BY <2>1
  <2>4. CASE t[1] \in RefusedNumIds
    <3>1. Means(t) = "None"
      BY <2>2, <2>4 DEF Means
    <3> QED
      BY <1>2, <2>3, <2>4, <3>1
  <2>5. CASE t[1] \notin RefusedNumIds
    <3>1. Means(t) = TypeOfVal(t[1])
      BY <2>1, <2>5 DEF Means
    <3> QED
      BY <1>2, <2>3, <2>5, <3>1
  <2> QED
    BY <2>4, <2>5
<1> QED
  BY <1>1, <1>2

\* What ends with a token that is not taken means nothing, or not what a single
\* value may be.
LEMMA RefusedMeans ==
    ASSUME NEW t \in Seq(CmdTokens), NEW where \in DOMAIN Converts, PlaceRight(where, t, option),
           NEW token \in CmdTokens, token \notin {take[1] : take \in Converts[where]},
           NEW u, u = Append(t, token)
    PROVE  Means(u) = "None" \/ (option \in DOMAIN Single /\ Means(u) = "String")
<1>1. /\ where \in {"first", "end", "next", "piece", "slash"}
      /\ where = "first" /\ option \in DOMAIN Single => token \notin CmdVals
      /\ where = "first" /\ option \notin DOMAIN Single => token \notin CmdVals /\ token # Slash
      /\ where \in {"end", "next", "piece", "slash"} => token # CmdEof
      /\ where \in {"next", "slash"} => token # Slash
      /\ where = "piece" => token \notin CmdIds
  BY TakenAt, Zenon
<1>2. /\ Len(u) = Len(t) + 1 /\ Len(t) \in Nat /\ u[Len(u)] = token
      /\ \A i \in 1 .. Len(t) : u[i] = t[i]
  BY OneMoreToken
<1>3. ToSet(u) = ToSet(t) \cup {token}
  BY OneMoreToken, Zenon
<1>4. CASE where = "first"
  <2>1. Len(u) = 1 /\ u[1] = token /\ token \notin CmdVals
    BY <1>1, <1>2, <1>4 DEF PlaceRight
  <2>2. Means(u) \in {"String", "None"} /\ (~ IsPath(u) => Means(u) = "None")
    BY <2>1, NoValueMeans
  <2>3. ASSUME option \notin DOMAIN Single
        PROVE  ~ IsPath(u)
    <3>1. ToSet(u) = {token} /\ token # Slash
      BY <1>1, <1>4, <2>1, <2>3 DEF ToSet
    <3> QED
      BY <3>1 DEF IsPath
  <2> QED
    BY <2>2, <2>3
<1>5. ASSUME where # "first"
      PROVE  Means(u) \in {"String", "None"} /\ (~ IsPath(u) => Means(u) = "None")
  <2>1. t # <<>>
    BY <1>1, <1>5, PathIsLong DEF PlaceRight
  <2>2. Len(u) # 1
    BY <1>2, <2>1
  <2> QED
    BY <2>2, NoValueMeans
<1>6. CASE where \in {"end", "next"}
  <2>1. Len(t) = 1 /\ t[1] \in CmdVals /\ t[1] # Slash
    BY <1>6, Tokens DEF PlaceRight
  <2>2. ToSet(t) = {t[1]}
    BY <2>1 DEF ToSet
  <2>3. ASSUME option \notin DOMAIN Single, IsPath(u)
        PROVE  FALSE
    <3>1. CASE where = "end"
      <4>1. t[1] \notin CmdIds /\ t[1] \in ToSet(u)
        BY <1>3, <2>2, <2>3, <3>1 DEF PlaceRight
      <4> QED
        BY <2>1, <2>3, <4>1 DEF IsPath
    <3>2. CASE where = "next"
      <4>1. Slash \notin ToSet(u)
        BY <1>1, <1>3, <2>1, <2>2, <3>2
      <4> QED
        BY <2>3, <4>1 DEF IsPath
    <3> QED
      BY <1>6, <3>1, <3>2
  <2> QED
    BY <1>5, <1>6, <2>3
<1>7. CASE where \in {"piece", "slash"}
  <2>1. IsPath(t) /\ t # <<>>
    BY <1>7, PathIsLong DEF PlaceRight
  <2>2. token \notin CmdIds \cup {Slash} \/ (t[Len(t)] = Slash) = (token = Slash)
    BY <1>1, <1>7, Tokens DEF PlaceRight
  <2>3. ~ IsPath(u)
    <3>1. CASE token \notin CmdIds \cup {Slash}
      BY <1>3, <3>1 DEF IsPath
    <3>2. CASE (t[Len(t)] = Slash) = (token = Slash)
      BY <2>1, <3>2, NoPath
    <3> QED
      BY <2>2, <3>1, <3>2
  <2> QED
    BY <1>5, <1>7, <2>3
<1> QED
  BY <1>1, <1>4, <1>6, <1>7

\* The text that a token leads to.
LEMMA TextGrows ==
    ASSUME NEW t \in Seq(CmdTokens), NEW where, NEW opt, PlaceRight(where, t, opt),
           NEW token, NEW to, Leads(where, token, to, opt),
           NEW u, IF token = CmdEof THEN u = t ELSE u = Append(t, token)
    PROVE  PlaceRight(to, u, opt)
<1>1. Leads(where, token, to, opt)
  OBVIOUS
<1>2. token \in CmdTokens
  BY <1>1, Tokens DEF CmdTokens, Leads
<1>3. IF token = CmdEof THEN u = t ELSE u = Append(t, token)
  OBVIOUS
<1>4. ASSUME token # CmdEof
      PROVE  /\ Len(u) = Len(t) + 1 /\ Len(t) \in Nat /\ u[Len(u)] = token
             /\ \A i \in 1 .. Len(t) : u[i] = t[i]
             /\ u \in Seq(CmdTokens)
  <2>1. u = Append(t, token)
    BY <1>3, <1>4
  <2> QED
    BY <1>2, <2>1
<1>5. ASSUME token # CmdEof
      PROVE  ToSet(u) = ToSet(t) \cup {token}
  <2>1. u = Append(t, token)
    BY <1>3, <1>5
  <2> QED
    BY <1>2, <2>1, AppendSet
<1>6. CASE where = "first"
  <2>1. token # CmdEof /\ t = <<>>
    BY <1>1, <1>6, Tokens DEF PlaceRight, Leads
  <2>2. Len(u) = 1 /\ u[1] = token /\ u \in Seq(CmdTokens)
    BY <1>4, <2>1
  <2>3. CASE to \in {"end", "next"}
    BY <1>1, <1>6, <2>2, <2>3, Tokens DEF PlaceRight, Leads
  <2>4. CASE to = "piece"
    <3>1. opt \notin DOMAIN Single /\ token = Slash
      BY <1>1, <1>6, <2>4 DEF Leads
    <3>2. ToSet(u) = {Slash}
      BY <2>2, <3>1 DEF ToSet
    <3>3. IsPath(u)
      BY <2>2, <3>2 DEF IsPath
    <3> QED
      BY <2>2, <2>4, <3>1, <3>3 DEF PlaceRight
  <2> QED
    BY <1>1, <1>6, <2>3, <2>4 DEF Leads
<1>7. CASE token = CmdEof
  <2>1. u = t
    BY <1>3, <1>7
  <2>2. \/ where \in {"end", "next"} /\ to = "value"
        \/ where \in {"piece", "slash"} /\ to = "path"
    BY <1>1, <1>7, Tokens DEF Leads
  <2> QED
    BY <2>1, <2>2, Tokens DEF PlaceRight
<1>8. CASE where # "first" /\ token # CmdEof
  <2>1. \/ where \in {"next", "slash"} /\ token = Slash /\ to = "piece"
        \/ where = "piece" /\ token \in CmdIds /\ to = "slash"
    BY <1>1, <1>8 DEF Leads
  <2>2. opt \notin DOMAIN Single
    BY <2>1 DEF PlaceRight
  <2>3. t # <<>>
    BY <2>1, PathIsLong DEF PlaceRight
  <2>4. (t[Len(t)] = Slash) # (token = Slash)
    BY <2>1, Tokens DEF PlaceRight
  <2>5. ToSet(t) \subseteq CmdIds \cup {Slash}
    <3>1. CASE where = "next"
      BY <3>1 DEF PlaceRight, ToSet
    <3>2. CASE where \in {"piece", "slash"}
      BY <3>2 DEF PlaceRight, IsPath
    <3> QED
      BY <2>1, <3>1, <3>2
  <2>6. IsPath(t) \/ (Len(t) = 1 /\ token = Slash)
    BY <2>1 DEF PlaceRight
  <2>7. token \in CmdIds \cup {Slash} /\ u = Append(t, token)
    BY <1>3, <1>8, <2>1
  <2>8. IsPath(u)
    BY <1>2, <2>3, <2>4, <2>5, <2>6, <2>7, PathGrows
  <2> QED
    BY <1>4, <1>8, <2>1, <2>2, <2>8 DEF PlaceRight
<1> QED
  BY <1>6, <1>7, <1>8

-----------------------------------------------------------------------------
(* The images that one more text makes.                                     *)

LEMMA SettingOf ==
    ASSUME NEW p \in Props, NEW type, NEW v, NEW s, s = AsSetting(p, type, v)
    PROVE  s \in Settings
<1> DEFINE Given == Known[p] \cup {"unknown", Mistyped}
<1>1. s.prop = p /\ s.val \in Given /\ s = [prop |-> s.prop, val |-> s.val]
  BY DEF AsSetting
<1>2. s \in [prop : {p}, val : Given]
  <2> HIDE DEF Given
  <2> QED
    BY <1>1
<1> QED
  BY <1>2 DEF Settings

\* The components of an image that takes a setting.
LEMMA SetLoads ==
    ASSUME NEW i, NEW G, Fits(i, G, FALSE), NEW s \in Settings, NEW r \in Set(i, s)
    PROVE  r.comps = IF s.prop \in DOMAIN SlotOf THEN [i.comps EXCEPT ![SlotOf[s.prop]] = s.val]
                     ELSE i.comps
<1>1. CASE Defers(i, s)
  <2>1. r \in Defer(i, s)
    BY <1>1 DEF Set
  <2>2. r.comps = i.comps
    BY <1>1, <2>1, DeferFits
  <2>3. s.prop \notin DOMAIN SlotOf
    BY <1>1, PropTable DEF Defers
  <2> QED
    BY <2>2, <2>3
<1>2. CASE ~ Defers(i, s)
  <2>1. Takes(i, s) /\ r = Put(i, s)
    BY <1>2 DEF Set
  <2>2. s.val \in Known[s.prop] /\ s.prop \in Props
    BY <2>1, SettingShape DEF Takes
  <2>3. CASE s.prop \in {"size", "boot_mode"}
    <3>1. r.comps = i.comps
      BY <2>1, <2>2, <2>3, OwnPropFits
    <3> QED
      BY <2>3, <3>1, PropTable
  <2>4. CASE s.prop \in CompProps
    <3>1. CompTakes(i, s) /\ r = CompSet(i, s)
      BY <2>1, <2>4, PropTable DEF Put, Takes
    <3>2. r.comps = i.comps
      BY <2>4, <3>1, CompPropFits
    <3> QED
      BY <2>4, <3>2, PropTable
  <2>5. CASE s.prop \in DOMAIN SlotOf
    <3>1. r = AddComponent(i, SlotOf[s.prop], s.val) /\ ~ Loaded(i, SlotOf[s.prop])
      BY <2>1, <2>5, PropTable DEF Put, Takes
    <3>2. CASE s.prop = "type"
      <4>1. SlotOf[s.prop] = "PartType" /\ s.val \in PartTypes
        BY <2>2, <3>2, PropTable, KnownTable
      <4>2. i \in Images /\ G \in SUBSET Settings
        BY DEF Fits
      <4>3. Waits(i, G)
        BY DEF Fits
      <4>4. IsoOnly(i)
        BY DEF Fits
      <4>5. \A x : x = AddComponent(i, "PartType", s.val)
                      => x.comps = [i.comps EXCEPT !["PartType"] = s.val]
        <5>1. ~ Loaded(i, "PartType") /\ s.val \in PartTypes
          BY <3>1, <4>1
        <5> QED
          BY <4>2, <4>3, <4>4, <5>1, LayoutLoads
      <4> QED
        BY <2>5, <3>1, <4>1, <4>5
    <3>3. CASE s.prop # "type"
      <4>1. SlotOf[s.prop] # "PartType"
        BY <2>5, <3>3, PropTable
      <4>2. r = [i EXCEPT !.comps[SlotOf[s.prop]] = s.val]
        BY <3>1, <4>1 DEF AddComponent
      <4>3. i \in Images
        BY DEF Fits
      <4> QED
        BY <2>5, <4>2, <4>3 DEF Images
    <3> QED
      BY <3>2, <3>3
  <2> QED
    BY <2>2, <2>3, <2>4, <2>5, PropTable
<1> QED
  BY <1>1, <1>2

\* Images of the same components refuse the same settings.
LEMMA SameRefused ==
    ASSUME NEW i, NEW G, Fits(i, G, FALSE), NEW j, i.comps = j.comps, NEW s, Set(i, s) = {}
    PROVE  Set(j, s) = {}
<1>1. i.deferred \in Seq(Settings)
  BY DEF Fits, Images
<1>2. ~ Defers(i, s)
  <2> SUFFICES ASSUME Defers(i, s)
               PROVE  FALSE
    OBVIOUS
  <2>1. 1 \in 1 .. Len(i.deferred) + 1
    BY <1>1
  <2>2. [i EXCEPT !.deferred = InsertAt(@, 1, s)] \in Defer(i, s)
    BY <2>1 DEF Defer
  <2> QED
    BY <2>2 DEF Set
<1>3. ~ Takes(i, s)
  BY <1>2 DEF Set
<1>4. ~ Defers(j, s)
  BY <1>2 DEF Defers, Loaded
<1>5. ~ Takes(j, s)
  BY <1>3 DEF Takes, CompTakes, Loaded, PartType
<1> QED
  BY <1>4, <1>5 DEF Set

\* What an option may name.
TargetsOf(opt) ==
    IF opt \in DOMAIN Single THEN {opt}
    ELSE {"bogus"} \cup IF opt = "imgprop" THEN Props ELSE DOMAIN PartProps

\* What an accepted text makes of the images.
LEMMA ImageAccepts ==
    ASSUME NEW imgs, NEW img, ImagesRight(imgs, img),
           NEW x, x.target \in Props, Means(x.text) # "None",
           x.option \in DOMAIN Single => Means(x.text) = Single[x.option],
           NEW r \in Set(img, AsSetting(x.target, Means(x.text), x.text[1]))
    PROVE  ImagesRight(SetTold(imgs, x), r)
<1>1. PICK s : s = AsSetting(x.target, Means(x.text), x.text[1])
  OBVIOUS
<1>2. s \in Settings
  BY <1>1, SettingOf
<1>3. SetTold(imgs, x) = UNION {Set(i, s) : i \in imgs}
  BY <1>1 DEF SetTold
<1>4. img \in imgs /\ r \in Set(img, s)
  BY <1>1 DEF ImagesRight
<1>5. ASSUME NEW i \in imgs, NEW q \in Set(i, s)
      PROVE  /\ \E H : Fits(q, H, FALSE)
             /\ q.comps = IF s.prop \in DOMAIN SlotOf THEN [img.comps EXCEPT ![SlotOf[s.prop]] = s.val]
                          ELSE img.comps
  <2>1. PICK G : Fits(i, G, FALSE)
    BY DEF ImagesRight
  <2>2. i.comps = img.comps
    BY DEF ImagesRight
  <2>3. Fits(q, G \cup {s}, FALSE)
    BY <1>2, <2>1, SetFits
  <2>4. q.comps = IF s.prop \in DOMAIN SlotOf THEN [i.comps EXCEPT ![SlotOf[s.prop]] = s.val]
                  ELSE i.comps
    BY <1>2, <2>1, SetLoads
  <2> QED
    BY <2>2, <2>3, <2>4
<1>6. \A q \in SetTold(imgs, x) : (\E H : Fits(q, H, FALSE)) /\ q.comps = r.comps
  BY <1>3, <1>4, <1>5
<1>7. r \in SetTold(imgs, x)
  BY <1>3, <1>4
<1> QED
  BY <1>6, <1>7 DEF ImagesRight

\* No image takes what the image at hand does not.
LEMMA ImageRefuses ==
    ASSUME NEW imgs, NEW img, ImagesRight(imgs, img), NEW x,
           \/ Means(x.text) = "None"
           \/ x.target \notin Props
           \/ x.option \in DOMAIN Single /\ Means(x.text) # Single[x.option]
           \/ Set(img, AsSetting(x.target, Means(x.text), x.text[1])) = {}
    PROVE  SetTold(imgs, x) = {}
<1>1. PICK s : s = AsSetting(x.target, Means(x.text), x.text[1])
  OBVIOUS
<1>2. CASE \/ Means(x.text) = "None"
           \/ x.target \notin Props
           \/ x.option \in DOMAIN Single /\ Means(x.text) # Single[x.option]
  BY <1>2 DEF SetTold
<1>3. CASE Set(img, s) = {}
  <2>1. PICK G : Fits(img, G, FALSE)
    BY DEF ImagesRight
  <2>2. ASSUME NEW i \in imgs
        PROVE  Set(i, s) = {}
    <3>1. img.comps = i.comps
      BY DEF ImagesRight
    <3> QED
      BY <1>3, <2>1, <3>1, SameRefused
  <2>3. UNION {Set(i, s) : i \in imgs} = {}
    BY <2>2
  <2> QED
    BY <1>1, <2>3 DEF SetTold
<1> QED
  BY <1>1, <1>2, <1>3

-----------------------------------------------------------------------------
(* What one more text makes of the partitions.                              *)

LEMMA NoPartIsPart == NoPart \in Parts
BY DEF NoPart, Parts

\* A text sets a property of a partition.
SetsPart(part, x, r) ==
    /\ x.target \in DOMAIN PartProps /\ x.text \in Seq(CmdTokens) /\ x.text # <<>>
    /\ \A p \in DOMAIN PartProps : r[p] = IF p = x.target THEN x.text ELSE part[p]

LEMMA PartAccepts ==
    ASSUME NEW before \in Seq(Parts), NEW part \in Parts, NEW x, x.new <=> (part = NoPart),
           NEW r \in Parts, SetsPart(part, x, r),
           NEW parts, parts = IF part = NoPart THEN before ELSE Append(before, part)
    PROVE  r # NoPart /\ PartTold(parts, x) = Append(before, r)
<1>1. r \in Parts
  OBVIOUS
<1>2. r # NoPart
  <2>1. r[x.target] = x.text /\ NoPart[x.target] = <<>>
    BY DEF Parts, NoPart, SetsPart
  <2>2. x.text # <<>>
    BY DEF SetsPart
  <2> QED
    BY <2>1, <2>2
<1> DEFINE known == Append(before, part)
<1>3. known = IF x.new THEN Append(parts, NoPart) ELSE parts
  OBVIOUS
<1>4. known[Len(known)] = part /\ Len(known) = Len(before) + 1 /\ known \in Seq(Parts)
  OBVIOUS
<1>5. r = [p \in DOMAIN PartProps |-> IF p = x.target THEN x.text ELSE part[p]]
  BY DEF Parts, SetsPart
<1>6. [known EXCEPT ![Len(known)] = r] = Append(before, r)
  <2>1. PICK a : a = [known EXCEPT ![Len(known)] = r]
    OBVIOUS
  <2>2. PICK b : b = Append(before, r)
    OBVIOUS
  <2>3. a \in Seq(Parts) /\ Len(a) = Len(before) + 1
    BY <1>1, <1>4, <2>1
  <2>4. b \in Seq(Parts) /\ Len(b) = Len(before) + 1
    BY <1>1, <2>2
  <2>5. ASSUME NEW i \in 1 .. Len(before) + 1
        PROVE  a[i] = b[i]
    <3>1. a[i] = IF i = Len(before) + 1 THEN r ELSE before[i]
      <4>1. /\ DOMAIN known = 1 .. Len(before) + 1 /\ Len(known) = Len(before) + 1
            /\ \A j \in 1 .. Len(before) : known[j] = before[j]
        OBVIOUS
      <4> HIDE DEF known
      <4> QED
        BY <2>1, <4>1
    <3>2. b[i] = IF i = Len(before) + 1 THEN r ELSE before[i]
      BY <1>1, <2>2
    <3> QED
      BY <3>1, <3>2
  <2>6. a = b
    BY <2>3, <2>4, <2>5
  <2> QED
    BY <2>1, <2>2, <2>6
<1>7. PartTold(parts, x)
        = [known EXCEPT ![Len(known)] =
              [p \in DOMAIN PartProps |-> IF p = x.target THEN x.text ELSE known[Len(known)][p]]]
  BY <1>3 DEF PartTold
<1>8. r = [p \in DOMAIN PartProps |-> IF p = x.target THEN x.text ELSE known[Len(known)][p]]
  BY <1>4, <1>5
<1> HIDE DEF known
<1>9. PartTold(parts, x) = [known EXCEPT ![Len(known)] = r]
  BY <1>7, <1>8
<1> QED
  BY <1>1, <1>2, <1>6, <1>9

-----------------------------------------------------------------------------
(* What one more text makes of a command line.                              *)

LEMMA TextRefused ==
    ASSUME NEW c \in Seq(Tellings), AcceptableOf(c, Len(c)), NEW x \in Tellings,
           IF OfPart(x) THEN ~ GoodPart(x) ELSE SetTold(ToldOf(c, Len(c)).images, x) = {},
           NEW d, d = Append(c, x)
    PROVE  /\ d \in Seq(Tellings)
           /\ AcceptableOf(d, Len(d) - 1) /\ ~ AcceptableOf(d, Len(d))
<1> DEFINE all == ToldOf(c, Len(c))
<1>1. /\ d \in Seq(Tellings) /\ Len(d) - 1 = Len(c)
      /\ AcceptableOf(d, Len(c)) <=> AcceptableOf(c, Len(c))
      /\ AcceptableOf(c, Len(c)) =>
            (AcceptableOf(d, Len(d)) <=> /\ Told(all, x).images # {}
                                         /\ OfPart(x) => GoodPart(x))
  BY AcceptsMore
<1>2. ~ OfPart(x) => Told(all, x).images = SetTold(all.images, x)
  BY DEF Told
<1> HIDE DEF all
<1> QED
  BY <1>1, <1>2 DEF all

LEMMA TextAccepted ==
    ASSUME NEW c \in Seq(Tellings), AcceptableOf(c, Len(c)), NEW x \in Tellings,
           NEW all, all = ToldOf(c, Len(c)), Told(all, x).images # {}, OfPart(x) => GoodPart(x),
           NEW d, d = Append(c, x)
    PROVE  d \in Seq(Tellings) /\ AcceptableOf(d, Len(d)) /\ ToldOf(d, Len(d)) = Told(all, x)
<1>1. /\ d \in Seq(Tellings)
      /\ AcceptableOf(c, Len(c)) =>
            (AcceptableOf(d, Len(d)) <=> /\ Told(all, x).images # {}
                                         /\ OfPart(x) => GoodPart(x))
  BY AcceptsMore
<1>2. ToldOf(d, Len(d)) = Told(all, x)
  BY ToldGrows
<1> QED
  BY <1>1, <1>2

LEMMA PartTextAccepted ==
    ASSUME NEW c \in Seq(Tellings), AcceptableOf(c, Len(c)), NEW x \in Tellings,
           NEW all, all = ToldOf(c, Len(c)), OfPart(x), GoodPart(x),
           NEW d, d = Append(c, x)
    PROVE  /\ d \in Seq(Tellings) /\ AcceptableOf(d, Len(d))
           /\ ToldOf(d, Len(d)).images = all.images
           /\ ToldOf(d, Len(d)).parts = PartTold(all.parts, x)
<1>1. Told(all, x).images = all.images /\ Told(all, x).parts = PartTold(all.parts, x)
  BY DEF Told
<1>2. all.images # {}
  BY DEF AcceptableOf
<1> QED
  BY <1>1, <1>2, TextAccepted

LEMMA OptionTable ==
    /\ DOMAIN Following = {"size", "format", "boot_mode", "type", "imgprop", "partition"}
    /\ DOMAIN Single = {"size", "format", "boot_mode", "type"}
    /\ \A opt \in DOMAIN Following : /\ Following[opt] \in DOMAIN Following \cup {"added"}
                                     /\ Following[opt] \in DOMAIN Single => opt \in DOMAIN Single
                                     /\ opt \in DOMAIN Single => Following[opt] # "added"
BY DEF Following, Single

LEMMA TargetTable ==
    \A opt \in DOMAIN Following : TargetsOf(opt) \subseteq TextTargets
<1>1. {"size", "format", "boot_mode", "type"} \subseteq Props
  BY PropTable
<1> QED
  BY <1>1, OptionTable DEF TargetsOf, TextTargets

-----------------------------------------------------------------------------
(* What every step keeps.                                                   *)

LEMMA CmdStart ==
    ASSUME CmdInit
    PROVE  CmdIInv
<1>1. CmdTypes
  <2>1. "size" \in DOMAIN Following /\ <<>> \in Seq(CmdTokens) /\ <<>> \in Seq(Tellings) /\ <<>> \in Seq(Parts)
    BY OptionTable
  <2> QED
    BY <2>1, NoPartIsPart DEF CmdInit, CmdTypes, PlaceRight
<1>2. ToldOf(<<>>, 0) = [images |-> {NewImage}, parts |-> <<>>] /\ Len(<<>>) = 0
  BY ToldFirst
<1>3. Settled(<<>>, NewImage, NoPart, <<>>)
  <2>1. AcceptableOf(<<>>, Len(<<>>))
    BY <1>2 DEF AcceptableOf
  <2>3. ImagesRight({NewImage}, NewImage)
    BY FirstFits DEF ImagesRight
  <2>4. ToldOf(<<>>, Len(<<>>)).images = {NewImage} /\ ToldOf(<<>>, Len(<<>>)).parts = <<>>
    BY <1>2
  <2> QED
    BY <2>1, <2>3, <2>4, Zenon DEF Settled
<1>4. CmdOutcome
  <2>1. told = <<>> /\ cmdImg = NewImage /\ cmdPart = NoPart /\ attached = <<>> /\ option = "size"
    BY DEF CmdInit
  <2> QED
    BY <1>3, <2>1 DEF CmdOutcome
<1> QED
  BY <1>1, <1>4 DEF CmdIInv

\* An option is being read unless all is over.
LEMMA WhileReading ==
    ASSUME CmdIInv, option \in DOMAIN Following
    PROVE  /\ told \in Seq(Tellings) /\ attached \in Seq(Parts) /\ cmdPart \in Parts
           /\ PlaceRight(reading, cmdText, option)
           /\ AcceptableOf(told, Len(told))
           /\ ImagesRight(ToldOf(told, Len(told)).images, cmdImg)
           /\ ToldOf(told, Len(told)).parts
                 = IF cmdPart = NoPart THEN attached ELSE Append(attached, cmdPart)
           /\ cmdPart # NoPart => option = "partition"
<1>1. option # "refused"
  BY OptionTable
<1>2. Settled(told, cmdImg, cmdPart, attached)
  BY <1>1 DEF CmdIInv, CmdOutcome
<1> QED
  BY <1>1, <1>2 DEF CmdIInv, CmdTypes, Settled

\* A text that is refused is the last.
LEMMA RefuseStep ==
    ASSUME CmdIInv, option \in DOMAIN Following, RefuseCommand,
           NEW x \in Tellings, told' = Append(told, x),
           IF OfPart(x) THEN ~ GoodPart(x) ELSE SetTold(ToldOf(told, Len(told)).images, x) = {},
           reading' = "between", cmdText' \in Seq(CmdTokens)
    PROVE  CmdIInv'
<1>1. told \in Seq(Tellings) /\ AcceptableOf(told, Len(told))
  BY WhileReading
<1>2. PICK d : d = Append(told, x)
  OBVIOUS
<1>3. d \in Seq(Tellings) /\ AcceptableOf(d, Len(d) - 1) /\ ~ AcceptableOf(d, Len(d))
  BY <1>1, <1>2, TextRefused
<1>4. told' = d /\ option' = "refused" /\ UNCHANGED <<cmdPart, attached>>
  BY <1>2 DEF RefuseCommand
<1>5. CmdTypes'
  BY <1>3, <1>4 DEF CmdIInv, CmdTypes, PlaceRight
<1>6. CmdOutcome'
  BY <1>3, <1>4 DEF CmdOutcome, RefusedLast
<1> QED
  BY <1>5, <1>6 DEF CmdIInv

LEMMA NextOptionStep ==
    ASSUME CmdIInv, NextOption
    PROVE  CmdIInv'
<1>1. /\ option \in DOMAIN Following /\ option' = Following[option] /\ reading = "between" /\ cmdPart = NoPart
      /\ UNCHANGED <<reading, target, cmdText, cmdImg, cmdPart, attached, told>>
  BY DEF NextOption, Between
<1>2. option' \in DOMAIN Following \cup {"added"} /\ option' # "refused"
  BY <1>1, OptionTable
<1>3. CmdTypes'
  BY <1>1, <1>2 DEF CmdIInv, CmdTypes, PlaceRight
<1>4. Settled(told, cmdImg, cmdPart, attached)
  BY <1>1, OptionTable DEF CmdIInv, CmdOutcome
<1> QED
  BY <1>1, <1>2, <1>3, <1>4 DEF CmdIInv, CmdOutcome

LEMMA BeginTextStep ==
    ASSUME CmdIInv, NEW p, BeginText(p)
    PROVE  CmdIInv'
<1>1. /\ option \in DOMAIN Following /\ p \in Targets
      /\ reading' = "first" /\ target' = p /\ cmdText' = <<>>
      /\ UNCHANGED <<option, cmdImg, cmdPart, attached, told>>
  BY DEF BeginText, MayTell
<1>2. Targets' = Targets
  BY <1>1 DEF Targets
<1>3. <<>> \in Seq(CmdTokens)
  OBVIOUS
<1>4. CmdTypes'
  BY <1>1, <1>2, <1>3 DEF CmdIInv, CmdTypes, PlaceRight
<1>5. CmdOutcome'
  BY <1>1 DEF CmdIInv, CmdOutcome
<1> QED
  BY <1>4, <1>5 DEF CmdIInv

LEMMA ReadTokenStep ==
    ASSUME CmdIInv, ReadToken
    PROVE  CmdIInv'
<1>1. reading \in DOMAIN Converts /\ UNCHANGED <<option, target, cmdImg, cmdPart, attached, told>>
  BY DEF ReadToken
<1>2. PICK take \in Converts[reading] : CmdLexes(take[1]) /\ reading' = take[2]
  BY DEF ReadToken
<1>3. reading # "between" /\ reading # "value" /\ reading # "path"
  BY <1>1 DEF Converts
<1>4. option \in DOMAIN Following /\ target \in Targets
  BY <1>3 DEF CmdIInv, CmdTypes
<1>5. Leads(reading, take[1], take[2], option)
  BY <1>1, Takings
<1>6. IF take[1] = CmdEof THEN cmdText' = cmdText ELSE cmdText' = Append(cmdText, take[1])
  BY <1>2 DEF CmdLexes
<1>7. PlaceRight(reading, cmdText, option) /\ cmdText \in Seq(CmdTokens)
  BY <1>4, WhileReading DEF PlaceRight
<1>8. PlaceRight(reading', cmdText', option)
  BY <1>2, <1>5, <1>6, <1>7, TextGrows
<1>9. reading' \in {"end", "next", "piece", "slash", "value", "path"}
  BY <1>2, <1>5 DEF Leads
<1>10. Targets' = Targets
  BY <1>1 DEF Targets
<1>11. CmdTypes'
  BY <1>1, <1>4, <1>8, <1>9, <1>10 DEF CmdIInv, CmdTypes
<1>12. CmdOutcome'
  BY <1>1 DEF CmdIInv, CmdOutcome
<1> QED
  BY <1>11, <1>12 DEF CmdIInv

LEMMA AttachPartStep ==
    ASSUME CmdIInv, AttachPart
    PROVE  CmdIInv'
<1>1. /\ option = "partition" /\ reading = "between" /\ cmdPart # NoPart
      /\ attached' = Append(attached, cmdPart) /\ cmdPart' = NoPart
      /\ UNCHANGED <<option, reading, target, cmdText, cmdImg, told>>
  BY DEF AttachPart, Between
<1>2. attached' \in Seq(Parts)
  BY <1>1 DEF CmdIInv, CmdTypes
<1>3. CmdTypes'
  BY <1>1, <1>2, NoPartIsPart DEF CmdIInv, CmdTypes, PlaceRight
<1>4. Settled(told, cmdImg, cmdPart, attached)
  BY <1>1 DEF CmdIInv, CmdOutcome
<1>5. Settled(told, cmdImg, cmdPart', attached')
  BY <1>1, <1>4 DEF Settled
<1> QED
  BY <1>1, <1>3, <1>5 DEF CmdIInv, CmdOutcome

\* What is told of a text.
TellingOf(opt, p, text, new) == [option |-> opt, target |-> p, text |-> text, new |-> new]

LEMMA TellingShape ==
    ASSUME NEW opt \in DOMAIN Following, NEW p \in TextTargets, NEW text \in Seq(CmdTokens), NEW new \in BOOLEAN,
           NEW x, x = TellingOf(opt, p, text, new)
    PROVE  /\ x \in Tellings /\ x.option = opt /\ x.target = p /\ x.text = text /\ x.new = new
           /\ OfPart(x) <=> opt = "partition"
BY DEF Tellings, TellingOf, OfPart

LEMMA MalformedTextStep ==
    ASSUME CmdIInv, MalformedText
    PROVE  CmdIInv'
<1>1. /\ option \in {"imgprop", "partition"} /\ option \in DOMAIN Following /\ RefuseCommand
      /\ reading = "between"
      /\ told' = Append(told, TellingOf(option, NoValue, <<>>, TRUE))
      /\ UNCHANGED <<reading, target, cmdText>>
  BY DEF MalformedText, MayTell, Between, TellingOf
<1>2. PICK x : x = TellingOf(option, NoValue, <<>>, TRUE)
  OBVIOUS
<1>3. /\ x \in Tellings /\ x.option = option /\ x.text = <<>>
      /\ OfPart(x) <=> option = "partition"
  <2>1. NoValue \in TextTargets
    BY DEF TextTargets
  <2>2. PICK none : none = <<>>
    OBVIOUS
  <2>3. PICK new \in BOOLEAN : new = TRUE
    OBVIOUS
  <2>4. none \in Seq(CmdTokens)
    BY <2>2
  <2>5. x = TellingOf(option, NoValue, none, new)
    BY <1>2, <2>2, <2>3
  <2>6. option \in DOMAIN Following
    BY <1>1
  <2>7. /\ x \in Tellings /\ x.option = option /\ x.target = NoValue /\ x.text = none /\ x.new = new
        /\ OfPart(x) <=> option = "partition"
    BY <2>1, <2>4, <2>5, <2>6, TellingShape
  <2> QED
    BY <2>2, <2>7
<1>4. Means(x.text) = "None"
  <2>1. Len(x.text) = 0 /\ ToSet(x.text) = {}
    BY <1>3 DEF ToSet
  <2>2. ~ IsPath(x.text)
    BY <2>1 DEF IsPath
  <2> QED
    BY <2>1, <2>2, NoValueMeans
<1>5. ~ GoodPart(x)
  BY <1>4 DEF GoodPart, CastsTo, PartProps
<1>6. SetTold(ToldOf(told, Len(told)).images, x) = {}
  BY <1>4 DEF SetTold
<1>7. cmdText' \in Seq(CmdTokens)
  BY <1>1, WhileReading DEF PlaceRight
<1> QED
  BY <1>1, <1>2, <1>3, <1>5, <1>6, <1>7, RefuseStep

LEMMA RefuseTokenStep ==
    ASSUME CmdIInv, RefuseToken
    PROVE  CmdIInv'
<1>1. reading \in DOMAIN Converts /\ reading' = "between" /\ RefuseCommand /\ UNCHANGED target
  BY DEF RefuseToken
<1>2. PICK token \in CmdTokens :
          /\ token \notin {take[1] : take \in Converts[reading]}
          /\ CmdLexes(token)
          /\ told' = Append(told, TellingOf(option, target, Append(cmdText, token), cmdPart = NoPart))
  BY DEF RefuseToken, Telling, TellingOf
<1>3. reading # "between"
  BY <1>1 DEF Converts
<1>4. option \in DOMAIN Following /\ target \in TargetsOf(option)
  BY <1>3 DEF CmdIInv, CmdTypes, Targets, TargetsOf
<1>5. PlaceRight(reading, cmdText, option) /\ cmdText \in Seq(CmdTokens)
  BY <1>4, WhileReading DEF PlaceRight
<1>6. PICK u : u = Append(cmdText, token)
  OBVIOUS
<1>7. PICK new \in BOOLEAN : new = (cmdPart = NoPart)
  OBVIOUS
<1>8. PICK x : x = TellingOf(option, target, u, new)
  OBVIOUS
<1>9. /\ x \in Tellings /\ x.option = option /\ x.target = target /\ x.text = u
      /\ OfPart(x) <=> option = "partition"
  <2>1. target \in TextTargets /\ u \in Seq(CmdTokens)
    BY <1>4, <1>5, <1>6, TargetTable
  <2> QED
    BY <1>4, <1>8, <2>1, TellingShape
<1>11. Means(u) = "None" \/ (option \in DOMAIN Single /\ Means(u) = "String")
  BY <1>1, <1>2, <1>5, <1>6, RefusedMeans
<1>12. \/ Means(x.text) = "None"
       \/ option \in DOMAIN Single /\ Means(x.text) # Single[option]
  BY <1>9, <1>11 DEF Single
<1>13. ASSUME option = "partition"
       PROVE  ~ GoodPart(x)
  <2>1. Means(x.text) = "None"
    BY <1>12, <1>13, OptionTable
  <2> QED
    BY <2>1 DEF GoodPart, CastsTo, PartProps
<1>14. SetTold(ToldOf(told, Len(told)).images, x) = {}
  BY <1>9, <1>12 DEF SetTold
<1>15. cmdText' \in Seq(CmdTokens)
  <2>1. cmdText' = cmdText \/ cmdText' = u
    BY <1>2, <1>6 DEF CmdLexes
  <2> QED
    BY <1>2, <1>5, <1>6, <2>1
<1>16. told' = Append(told, x)
  BY <1>2, <1>6, <1>7, <1>8
<1>17. IF OfPart(x) THEN ~ GoodPart(x) ELSE SetTold(ToldOf(told, Len(told)).images, x) = {}
  BY <1>9, <1>13, <1>14
<1> QED
  BY <1>1, <1>4, <1>9, <1>15, <1>16, <1>17, RefuseStep

\* What is told of a text that has been read.
LEMMA TextRead ==
    ASSUME CmdIInv, reading \in {"value", "path"}
    PROVE  \E x \in Tellings :
              /\ Telling(cmdText) = Append(told, x)
              /\ x.option = option /\ x.target = target /\ x.text = cmdText
              /\ x.new \in BOOLEAN /\ x.new = (cmdPart = NoPart)
              /\ OfPart(x) <=> option = "partition"
              /\ option \in DOMAIN Following /\ target \in TargetsOf(option)
              /\ cmdText \in Seq(CmdTokens) /\ cmdText # <<>>
              /\ Head(cmdText) = cmdText[1]
              /\ Means(cmdText) = IF Converted THEN ReadType ELSE "None"
<1>1. option \in DOMAIN Following /\ target \in TargetsOf(option)
  BY DEF CmdIInv, CmdTypes, Targets, TargetsOf
<1>2. PlaceRight(reading, cmdText, option) /\ cmdText \in Seq(CmdTokens)
  BY <1>1, WhileReading DEF PlaceRight
<1>3. PICK new \in BOOLEAN : new = (cmdPart = NoPart)
  OBVIOUS
<1>4. PICK x : x = TellingOf(option, target, cmdText, new)
  OBVIOUS
<1>5. /\ x \in Tellings /\ x.option = option /\ x.target = target /\ x.text = cmdText /\ x.new = new
      /\ OfPart(x) <=> option = "partition"
  <2>1. target \in TextTargets
    BY <1>1, TargetTable
  <2> QED
    BY <1>1, <1>2, <1>4, <2>1, TellingShape
<1>6. /\ cmdText # <<>>
      /\ Means(cmdText) = IF reading = "path" THEN "String"
                          ELSE IF cmdText[1] \in RefusedNumIds THEN "None" ELSE TypeOfVal(cmdText[1])
  BY <1>2, TextMeans
<1>7. Head(cmdText) = cmdText[1]
  BY <1>2, <1>6
<1>8. Means(cmdText) = IF Converted THEN ReadType ELSE "None"
  BY <1>6, <1>7 DEF Converted, ReadType
<1>9. Telling(cmdText) = Append(told, x)
  BY <1>3, <1>4 DEF Telling, TellingOf
<1> QED
  BY <1>1, <1>2, <1>3, <1>5, <1>6, <1>7, <1>8, <1>9

LEMMA ReadTypes ==
    ASSUME CmdIInv, reading \in {"value", "path"}
    PROVE  ReadType # "None"
<1>1. \A v : TypeOfVal(v) # "None"
  BY CmdAssumption DEF TypeOfVal, TypeOfOther
<1> QED
  BY <1>1 DEF ReadType

LEMMA SetImagePropStep ==
    ASSUME CmdIInv, SetImageProp
    PROVE  CmdIInv'
<1>1. /\ reading \in {"value", "path"} /\ option # "partition"
      /\ told' = Telling(cmdText) /\ reading' = "between" /\ UNCHANGED <<target, cmdText>>
      /\ IF SetImage = {} THEN RefuseCommand
         ELSE /\ cmdImg' \in SetImage
              /\ option' = IF option \in DOMAIN Single THEN Following[option] ELSE option
              /\ UNCHANGED <<cmdPart, attached>>
  BY DEF SetImageProp
<1>2. PICK x \in Tellings :
          /\ Telling(cmdText) = Append(told, x)
          /\ x.option = option /\ x.target = target /\ x.text = cmdText
          /\ OfPart(x) <=> option = "partition"
          /\ option \in DOMAIN Following /\ target \in TargetsOf(option)
          /\ cmdText \in Seq(CmdTokens)
          /\ Head(cmdText) = cmdText[1]
          /\ Means(cmdText) = IF Converted THEN ReadType ELSE "None"
  BY <1>1, TextRead
<1>3. told' = Append(told, x) /\ ~ OfPart(x)
  BY <1>1, <1>2
<1>4. PICK all : all = ToldOf(told, Len(told))
  OBVIOUS
<1>5. /\ told \in Seq(Tellings) /\ AcceptableOf(told, Len(told))
      /\ ImagesRight(all.images, cmdImg)
      /\ all.parts = IF cmdPart = NoPart THEN attached ELSE Append(attached, cmdPart)
      /\ cmdPart = NoPart
  BY <1>1, <1>2, <1>4, WhileReading
<1>6. ReadType # "None"
  BY <1>1, ReadTypes
<1> DEFINE Unfit == \/ ~ Converted
                    \/ target \notin Props
                    \/ option \in DOMAIN Single /\ ReadType # Single[option]
<1>7. Unfit <=> \/ Means(x.text) = "None"
                \/ x.target \notin Props
                \/ option \in DOMAIN Single /\ Means(x.text) # Single[option]
  BY <1>2, <1>6
<1>8. Converted => SetImage = IF Unfit THEN {} ELSE Set(cmdImg, AsSetting(x.target, Means(x.text), x.text[1]))
  BY <1>2 DEF SetImage
<1>9. Unfit => SetImage = {}
  BY DEF SetImage
<1> HIDE DEF Unfit
<1>11. CASE SetImage = {}
  <2>1. RefuseCommand
    BY <1>1, <1>11
  <2>2. \/ Means(x.text) = "None"
        \/ x.target \notin Props
        \/ option \in DOMAIN Single /\ Means(x.text) # Single[option]
        \/ Set(cmdImg, AsSetting(x.target, Means(x.text), x.text[1])) = {}
    BY <1>7, <1>8, <1>11 DEF Unfit
  <2>3. SetTold(all.images, x) = {}
    BY <1>2, <1>5, <2>2, ImageRefuses
  <2>4. cmdText' \in Seq(CmdTokens)
    BY <1>1, <1>2
  <2>5. IF OfPart(x) THEN ~ GoodPart(x) ELSE SetTold(ToldOf(told, Len(told)).images, x) = {}
    BY <1>3, <1>4, <2>3
  <2> QED
    BY <1>1, <1>2, <1>3, <2>1, <2>4, <2>5, RefuseStep
<1>12. CASE SetImage # {}
  <2>1. /\ cmdImg' \in SetImage
        /\ option' = IF option \in DOMAIN Single THEN Following[option] ELSE option
        /\ UNCHANGED <<cmdPart, attached>>
    BY <1>1, <1>12
  <2>2. ~ Unfit /\ Converted
    BY <1>9, <1>12 DEF Unfit
  <2>3. cmdImg' \in Set(cmdImg, AsSetting(x.target, Means(x.text), x.text[1]))
    BY <1>8, <2>1, <2>2
  <2>4. /\ x.target \in Props /\ Means(x.text) # "None"
        /\ option \in DOMAIN Single => Means(x.text) = Single[option]
    BY <1>2, <1>7, <2>2
  <2>5. ImagesRight(SetTold(all.images, x), cmdImg')
    BY <1>2, <1>5, <2>3, <2>4, ImageAccepts
  <2>6. PICK d : d = Append(told, x)
    OBVIOUS
  <2>8. /\ d \in Seq(Tellings) /\ AcceptableOf(d, Len(d))
        /\ ToldOf(d, Len(d)).images = SetTold(all.images, x)
        /\ ToldOf(d, Len(d)).parts = all.parts
    <3>1. Told(all, x).parts = all.parts /\ Told(all, x).images = SetTold(all.images, x)
      BY <1>3 DEF Told
    <3>2. Told(all, x).images # {}
      BY <2>5, <3>1 DEF ImagesRight
    <3>3. ~ OfPart(x)
      BY <1>3
    <3>4. d \in Seq(Tellings) /\ AcceptableOf(d, Len(d)) /\ ToldOf(d, Len(d)) = Told(all, x)
      BY <1>4, <1>5, <2>6, <3>2, <3>3, TextAccepted
    <3> QED
      BY <3>1, <3>4
  <2>9. /\ option' \in DOMAIN Following /\ option' # "refused"
    BY <1>2, <2>1, OptionTable
  <2>11. told' = d
    BY <1>3, <2>6
  <2>12. CmdTypes'
    BY <1>1, <1>2, <1>5, <2>1, <2>8, <2>9, <2>11 DEF CmdIInv, CmdTypes, PlaceRight
  <2>13. Settled(d, cmdImg', cmdPart, attached)
    BY <1>5, <2>5, <2>8 DEF Settled
  <2> QED
    BY <2>1, <2>9, <2>11, <2>12, <2>13 DEF CmdIInv, CmdOutcome
<1> QED
  BY <1>11, <1>12

LEMMA SetPartPropStep ==
    ASSUME CmdIInv, SetPartProp
    PROVE  CmdIInv'
<1> DEFINE Good == Converted /\ target \in DOMAIN PartProps /\ CastsTo(ReadType, PartProps[target])
<1>1. /\ reading \in {"value", "path"} /\ option = "partition"
      /\ told' = Telling(cmdText) /\ reading' = "between" /\ UNCHANGED <<target, cmdText>>
      /\ IF Good THEN /\ cmdPart' = [cmdPart EXCEPT ![target] = cmdText]
                      /\ UNCHANGED <<option, cmdImg, attached>>
         ELSE RefuseCommand
  BY DEF SetPartProp
<1>2. PICK x \in Tellings :
          /\ Telling(cmdText) = Append(told, x)
          /\ x.option = option /\ x.target = target /\ x.text = cmdText
          /\ x.new \in BOOLEAN /\ x.new = (cmdPart = NoPart)
          /\ OfPart(x) <=> option = "partition"
          /\ option \in DOMAIN Following
          /\ cmdText \in Seq(CmdTokens) /\ cmdText # <<>>
          /\ Means(cmdText) = IF Converted THEN ReadType ELSE "None"
  BY <1>1, TextRead
<1>3. told' = Append(told, x) /\ OfPart(x)
  BY <1>1, <1>2
<1>4. PICK all : all = ToldOf(told, Len(told))
  OBVIOUS
<1>5. /\ told \in Seq(Tellings) /\ AcceptableOf(told, Len(told))
      /\ ImagesRight(all.images, cmdImg)
      /\ all.parts = IF cmdPart = NoPart THEN attached ELSE Append(attached, cmdPart)
      /\ attached \in Seq(Parts) /\ cmdPart \in Parts
  BY <1>1, <1>2, <1>4, WhileReading
<1>6. GoodPart(x) <=> Good
  <2>1. \A p \in DOMAIN PartProps : ~ CastsTo("None", PartProps[p])
    BY DEF CastsTo, PartProps
  <2> QED
    BY <1>2, <2>1 DEF GoodPart
<1> HIDE DEF Good
<1>7. CASE ~ Good
  <2>1. cmdText' \in Seq(CmdTokens) /\ RefuseCommand
    BY <1>1, <1>2, <1>7
  <2>2. IF OfPart(x) THEN ~ GoodPart(x) ELSE SetTold(ToldOf(told, Len(told)).images, x) = {}
    BY <1>3, <1>6, <1>7
  <2> QED
    BY <1>1, <1>2, <1>3, <2>1, <2>2, RefuseStep
<1>8. CASE Good
  <2>1. cmdPart' = [cmdPart EXCEPT ![target] = cmdText] /\ UNCHANGED <<option, cmdImg, attached>>
    BY <1>1, <1>8
  <2>2. x.target \in DOMAIN PartProps
    BY <1>2, <1>8 DEF Good
  <2>3. /\ cmdPart' \in Parts /\ cmdPart' # NoPart
        /\ PartTold(all.parts, x) = Append(attached, cmdPart')
    <3>1. x.new <=> (cmdPart = NoPart)
      BY <1>2
    <3>2. attached \in Seq(Parts) /\ cmdPart \in Parts /\ x.text \in Seq(CmdTokens) /\ x.text # <<>>
      BY <1>2, <1>5
    <3>3. PICK r : r = [cmdPart EXCEPT ![x.target] = x.text]
      OBVIOUS
    <3>4. r \in Parts /\ \A p \in DOMAIN PartProps : r[p] = IF p = x.target THEN x.text ELSE cmdPart[p]
      BY <2>2, <3>2, <3>3 DEF Parts
    <3>5. PICK parts : parts = IF cmdPart = NoPart THEN attached ELSE Append(attached, cmdPart)
      OBVIOUS
    <3>6. r # NoPart /\ PartTold(parts, x) = Append(attached, r)
      <4>1. SetsPart(cmdPart, x, r)
        BY <2>2, <3>2, <3>4 DEF SetsPart
      <4>2. r \in Parts /\ attached \in Seq(Parts) /\ cmdPart \in Parts
        BY <3>2, <3>4
      <4> QED
        BY <3>1, <3>5, <4>1, <4>2, PartAccepts, Zenon
    <3>7. cmdPart' = r /\ all.parts = parts
      BY <1>2, <1>5, <2>1, <3>3, <3>5
    <3> QED
      BY <3>4, <3>6, <3>7
  <2>4. PICK d : d = Append(told, x)
    OBVIOUS
  <2>5. /\ d \in Seq(Tellings) /\ AcceptableOf(d, Len(d))
        /\ ToldOf(d, Len(d)).images = all.images
        /\ ToldOf(d, Len(d)).parts = PartTold(all.parts, x)
    BY <1>3, <1>4, <1>5, <1>6, <1>8, <2>4, PartTextAccepted
  <2>6. told' = d
    BY <1>3, <2>4
  <2>7. CmdTypes'
    BY <1>1, <1>2, <1>5, <2>1, <2>3, <2>5, <2>6 DEF CmdIInv, CmdTypes, PlaceRight
  <2>8. Settled(d, cmdImg, cmdPart', attached)
    BY <1>5, <2>3, <2>5 DEF Settled
  <2>9. option # "refused"
    BY <1>1
  <2> QED
    BY <2>1, <2>6, <2>7, <2>8, <2>9 DEF CmdIInv, CmdOutcome
<1> QED
  BY <1>7, <1>8

LEMMA CmdStep ==
    ASSUME CmdIInv, [CmdNext]_cmdVars
    PROVE  CmdIInv'
<1>1. CASE NextOption
  BY <1>1, NextOptionStep
<1>2. CASE MalformedText
  BY <1>2, MalformedTextStep
<1>3. CASE ReadToken
  BY <1>3, ReadTokenStep
<1>4. CASE RefuseToken
  BY <1>4, RefuseTokenStep
<1>5. CASE SetImageProp
  BY <1>5, SetImagePropStep
<1>6. CASE SetPartProp
  BY <1>6, SetPartPropStep
<1>7. CASE AttachPart
  BY <1>7, AttachPartStep
<1>8. ASSUME NEW p \in Props \cup DOMAIN PartProps \cup {"bogus"}, BeginText(p)
      PROVE  CmdIInv'
  BY <1>8, BeginTextStep
<1>9. CASE UNCHANGED cmdVars
  <2>1. UNCHANGED <<option, reading, target, cmdText, cmdImg, cmdPart, attached, told>>
    BY <1>9 DEF cmdVars
  <2>2. Targets' = Targets
    BY <2>1 DEF Targets
  <2> QED
    BY <2>1, <2>2 DEF CmdIInv, CmdTypes, CmdOutcome
<1> QED
  BY <1>1, <1>2, <1>3, <1>4, <1>5, <1>6, <1>7, <1>8, <1>9 DEF CmdNext

\* The image and the partitions at hand are what the texts so far make of them,
\* whatever the options they belong to and the properties they name, as long as
\* none is refused; and the first text refused is the last one read.
THEOREM CommandInvariant == CmdSpec => []CmdIInv
<1>1. CmdInit => CmdIInv
  BY CmdStart
<1>2. CmdIInv /\ [CmdNext]_cmdVars => CmdIInv'
  BY CmdStep
<1> QED
  BY <1>1, <1>2, PTL DEF CmdSpec

\* An image is added exactly when every text of the command line says what may
\* be set, with components, deferred settings and their replay as in Image::Set,
\* and the first that does not is the last that is read (ImageCmd::Parse,
\* processId, processProps, processPartitions).
THEOREM CommandsAreExact == CmdSpec => []CommandExact
<1>1. CmdIInv => CommandExact
  <2> SUFFICES ASSUME CmdIInv
               PROVE  CommandExact
    OBVIOUS
  <2>1. \A n : Described(n) = ToldOf(told, n)
    BY DEF Described, ToldOf
  <2>2. \A n : Acceptable(n) <=> AcceptableOf(told, n)
    BY <2>1 DEF Acceptable, AcceptableOf
  <2>3. CASE option = "added"
    <3>1. Settled(told, cmdImg, cmdPart, attached)
      BY <2>3 DEF CmdIInv, CmdOutcome
    <3>2. cmdPart = NoPart
      BY <2>3 DEF CmdIInv, CmdTypes
    <3> QED
      BY <2>1, <2>2, <2>3, <3>1, <3>2 DEF CommandExact, Settled, ImagesRight
  <2>4. CASE option = "refused"
    BY <2>2, <2>4 DEF CmdIInv, CmdOutcome, RefusedLast, CommandExact
  <2> QED
    BY <2>3, <2>4 DEF CommandExact
<1> QED
  BY <1>1, CommandInvariant, PTL

=============================================================================
