------------------------------ MODULE KeyValue ------------------------------
(***************************************************************************)
(* KeyVal::Parse (KeyValue.h): a text of key=value pairs between commas, of  *)
(* which the options --imgprop, --partition and --output are made.           *)
(***************************************************************************)
EXTENDS Naturals, FiniteSetsExt, SequencesExt

CONSTANT MaxPairChars  \* bound: characters of a text

ASSUME PairAssumption == MaxPairChars \in Nat

\* A character that separates nothing.
Letter == "a"

VARIABLE pairText  \* the text

PairInit == pairText = <<>>

TypeChar ==
    /\ Len(pairText) < MaxPairChars
    /\ \E c \in {Letter, ",", "="} : pairText' = Append(pairText, c)

-----------------------------------------------------------------------------
\* std::views::split: the pieces between the commas, empty ones included.
CommaSplit(t) ==
    LET Step(pieces, c) == IF c = "," THEN Append(pieces, <<>>)
                           ELSE [pieces EXCEPT ![Len(pieces)] = Append(@, c)]
    IN  FoldLeft(Step, << <<>> >>, t)

\* Position of the first equals sign, 0 if there is none.
FirstEquals(p) == Min({i \in DOMAIN p : p[i] = "="} \cup {Len(p) + 1}) % (Len(p) + 1)

\* Mutant: a second equals sign is not looked for.
PairOk_Second(p) ==
    /\ p # <<>>
    /\ FirstEquals(p) \notin {0, 1, Len(p)}

\* No piece is empty, begins or ends with the equals sign, lacks it or has two.
PairOk(p) ==
    /\ p # <<>>
    /\ FirstEquals(p) \notin {0, 1, Len(p)}
    /\ "=" \notin ToSet(SubSeq(p, FirstEquals(p) + 1, Len(p)))

Accepted(t) == t # <<>> /\ \A p \in ToSet(CommaSplit(t)) : PairOk(p)

Pair(p) == [key   |-> SubSeq(p, 1, FirstEquals(p) - 1),
            value |-> SubSeq(p, FirstEquals(p) + 1, Len(p))]

KeyValParse(t) == [n \in DOMAIN CommaSplit(t) |-> Pair(CommaSplit(t)[n])]

PairSpec == PairInit /\ [][TypeChar]_pairText

-----------------------------------------------------------------------------
\* The separators of a text, in order.
Separating(t) == SelectSeq(t, LAMBDA c : c # Letter)

\* The text a list of pairs stands for.
Joined(pairs) ==
    FlattenSeq([n \in DOMAIN pairs |->
        (IF n = 1 THEN <<>> ELSE <<",">>) \o pairs[n].key \o <<"=">> \o pairs[n].value])

\* Exactly the texts are accepted whose separators are = , = ... = with
\* something before, between and after them; and no character of an accepted
\* text is lost: its pairs, none of them with an empty part, join to it again.
KeyValExact ==
    LET seps  == Separating(pairText)
        empty == \E i \in DOMAIN pairText :
                     /\ pairText[i] # Letter
                     /\ i \in {1, Len(pairText)} \/ pairText[i + 1] # Letter
    IN  /\ Accepted(pairText) <=>
               /\ Len(seps) % 2 = 1 /\ ~ empty
               /\ \A i \in DOMAIN seps : seps[i] = IF i % 2 = 1 THEN "=" ELSE ","
        /\ Accepted(pairText) =>
               /\ Joined(KeyValParse(pairText)) = pairText
               /\ \A pair \in ToSet(KeyValParse(pairText)) : pair.key # <<>> /\ pair.value # <<>>

=============================================================================
