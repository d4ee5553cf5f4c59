----------------------------- MODULE ConfParser -----------------------------
(***************************************************************************)
(* A file of typed properties (ConfParser.h and ConfParser.cxx), and the     *)
(* two keys the control file of the managed log gives it.  Parse reads the   *)
(* whole text, then applies its properties one after another; Set changes    *)
(* one key; Serialize writes the keys back.  Parse, Set and Get hold one     *)
(* lock from their first step to their last, so no step of one lies between  *)
(* two steps of another.                                                    *)
(***************************************************************************)
EXTENDS Naturals, FiniteSetsExt, SequencesExt

CONSTANTS Keys,           \* the keys; each is the identifier that names it
          TypeOfKey,      \* the type of each key's values
          OtherNames,     \* identifiers that name no key
          Ints,           \* numbers from 0 to INT32_MAX
          TooLarge,       \* larger numbers
          Negatives,      \* negative numbers other than Unset
          MaxConfTokens,  \* bound: tokens of a text
          MaxSets         \* bound: calls of Set

ConfNames == Keys \cup OtherNames
Marks     == {"=", ";", ",", "{", "}"}
Unset     == "-1"

\* The end of the text, a token no property is made of, and an error of the
\* lexer, to which a sign is the beginning of no token.
ConfEof   == "Eof"
Foreign   == "Foreign"
Unlexable == "Unlexable"

ConfTokens == ConfNames \cup Ints \cup TooLarge \cup Marks \cup {ConfEof, Foreign, Unlexable}

ASSUME ConfAssumption ==
    /\ TypeOfKey \in [Keys -> {"Int", "String"}]
    /\ Keys \cap OtherNames = {}
    /\ ConfNames \cap (Ints \cup TooLarge \cup Negatives \cup {Unset}) = {}
    /\ MaxConfTokens \in Nat /\ MaxSets \in Nat

VARIABLES confText,   \* the tokens the lexer has answered, the end not among them
          confStep,   \* where Parse is
          prop,       \* the property it is in: its name, and its value
          confProps,  \* the properties it has read and not applied
          vals,       \* the value of each key
          foundKeys,  \* the keys that were set, in the order of their first time
          calls       \* what was asked of the object

confVars == <<confText, confStep, prop, confProps, vals, foundKeys, calls>>

\* A value with its type; a list has several items.
Value(type, items) == [type |-> type, items |-> items]

\* A call of Set, and the one of Parse.
Assignment(k, val, overwrite) == [key |-> k, val |-> val, overwrite |-> overwrite]
ParseCall == Assignment(ConfEof, Value("Max", <<>>), TRUE)

NoProp == [name |-> ConfEof, val |-> Value("Max", <<>>)]

ConfInit ==
    /\ confText = <<>>
    /\ confStep = "fresh"
    /\ prop = NoProp
    /\ confProps = <<>>
    /\ vals = [k \in Keys |-> Unset]
    /\ foundKeys = <<>>
    /\ calls = <<>>

-----------------------------------------------------------------------------
(* Reading the text.                                                        *)

\* Parse takes the lock and begins with parseLoop.
StartParse ==
    /\ confStep = "fresh"
    /\ confStep' = "name"
    /\ calls' = Append(calls, ParseCall)
    /\ UNCHANGED <<confText, prop, confProps, vals, foundKeys>>

\* SimpleLexer::NextToken.
Lexes(tok) ==
    IF tok = ConfEof THEN UNCHANGED confText
    ELSE Len(confText) < MaxConfTokens /\ confText' = Append(confText, tok)

\* At each place, the tokens the parser takes and where it goes on.  Any other
\* token, and an error of the lexer, ends Parse.
Grammar == [name      |-> (ConfNames \X {"equals"}) \cup {<<ConfEof, "apply">>},
          equals    |-> {<<"=", "value">>},
          value     |-> ((ConfNames \cup Ints) \X {"semicolon"}) \cup {<<"{", "entry">>},
          entry     |-> ConfNames \X {"separator"},
          separator |-> {<<",", "entry">>, <<"}", "semicolon">>},
          semicolon |-> {<<";", "name">>}]

\* setIdProp, setNumberProp and setListProp.
Extended(tok) ==
    CASE confStep = "name"   -> [NoProp EXCEPT !.name = tok]
      [] confStep = "value"  -> [prop EXCEPT !.val =
                                    CASE tok \in ConfNames -> Value("String", <<tok>>)
                                      [] tok \in Ints      -> Value("Int", <<tok>>)
                                      [] OTHER             -> Value("List", <<>>)]
      [] confStep = "entry"  -> [prop EXCEPT !.val.items = Append(@, tok)]
      [] OTHER               -> prop

parseLoop ==
    /\ confStep \in DOMAIN Grammar
    /\ \E take \in Grammar[confStep] :
           /\ Lexes(take[1])
           /\ prop' = Extended(take[1])
           /\ confStep' = take[2]
    /\ confProps' = IF confStep = "semicolon" THEN Append(confProps, prop) ELSE confProps
    /\ UNCHANGED <<vals, foundKeys, calls>>

RefuseText ==
    /\ confStep \in DOMAIN Grammar
    /\ \E tok \in ConfTokens \ {take[1] : take \in Grammar[confStep]} : Lexes(tok)
    /\ confStep' = "refused"
    /\ UNCHANGED <<prop, confProps, vals, foundKeys, calls>>

-----------------------------------------------------------------------------
(* Setting keys.                                                            *)

Settable(k, val, overwrite) ==
    /\ overwrite \/ vals[k] = Unset
    /\ val.type = TypeOfKey[k]

\* Mutants: the value in force stays; a key is not listed.
setLocked_First(k, val) ==
    /\ foundKeys' = IF k \in ToSet(foundKeys) THEN foundKeys ELSE Append(foundKeys, k)
    /\ vals' = [vals EXCEPT ![k] = IF @ = Unset THEN Head(val.items) ELSE @]
setLocked_Unlisted(k, val) ==
    /\ vals' = [vals EXCEPT ![k] = Head(val.items)]
    /\ UNCHANGED foundKeys

\* A key that may be set.
setLocked(k, val) ==
    /\ foundKeys' = IF k \in ToSet(foundKeys) THEN foundKeys ELSE Append(foundKeys, k)
    /\ vals' = [vals EXCEPT ![k] = Head(val.items)]

\* One property of the text.  A repeated key overwrites; a name or a type no
\* key has ends Parse.
ApplyProp ==
    /\ confStep = "apply"
    /\ confProps # <<>>
    /\ confProps' = Tail(confProps)
    /\ LET p == Head(confProps)
       IN  IF p.name \in Keys /\ Settable(p.name, p.val, TRUE)
           THEN setLocked(p.name, p.val) /\ UNCHANGED confStep
           ELSE confStep' = "refused" /\ UNCHANGED <<vals, foundKeys>>
    /\ UNCHANGED <<confText, prop, calls>>

ApplyEnds ==
    /\ confStep = "apply"
    /\ confProps = <<>>
    /\ confStep' = "parsed"
    /\ UNCHANGED <<confText, prop, confProps, vals, foundKeys, calls>>

\* A caller of Set may give any value, of any type.
SetVals == {Value("Int", <<i>>) : i \in Ints \cup Negatives \cup {Unset}}
           \cup {Value("String", <<n>>) : n \in OtherNames}

SetKey(k, val, overwrite) ==
    /\ confStep \in {"fresh", "parsed", "refused"}
    /\ Len(SelectSeq(calls, LAMBDA c : c # ParseCall)) < MaxSets
    /\ calls' = Append(calls, Assignment(k, val, overwrite))
    /\ IF Settable(k, val, overwrite) THEN setLocked(k, val)
       ELSE UNCHANGED <<vals, foundKeys>>
    /\ UNCHANGED <<confText, confStep, prop, confProps>>

\* What Serialize writes for a key, as the lexer reads it.
WrittenKey(k) == <<k, "=", IF vals[k] \in Negatives THEN Unlexable ELSE vals[k], ";">>

Serialize == FlattenSeq([i \in DOMAIN foundKeys |-> WrittenKey(foundKeys[i])])

\* It asserts that every key it has listed has a value.
SerializeAborts == Unset \in {vals[k] : k \in ToSet(foundKeys)}

ConfNext ==
    \/ StartParse \/ parseLoop \/ RefuseText \/ ApplyProp \/ ApplyEnds
    \/ \E k \in Keys, v \in SetVals, overwrite \in BOOLEAN : SetKey(k, v, overwrite)

ConfSpec == ConfInit /\ [][ConfNext]_confVars

-----------------------------------------------------------------------------
(* What a text says, without a parser: it is cut at its semicolons.         *)

IsConfList(s) ==
    /\ Len(s) >= 3 /\ Len(s) % 2 = 1
    /\ \A i \in DOMAIN s : s[i] \in (CASE i = 1      -> {"{"}
                                       [] i = Len(s) -> {"}"}
                                       [] i % 2 = 0  -> ConfNames
                                       [] OTHER      -> {","})

IsConfProp(s) ==
    /\ Len(s) >= 3
    /\ s[1] \in ConfNames /\ s[2] = "="
    /\ \/ IsConfList(Tail(Tail(s)))
       \/ Len(s) = 3 /\ s[3] \in ConfNames \cup Ints

\* The properties of a text, each up to its semicolon.
Cut(t) ==
    LET Step(parts, tok) == IF tok = ";" THEN Append(parts, <<>>)
                            ELSE [parts EXCEPT ![Len(parts)] = Append(@, tok)]
    IN  Front(FoldLeft(Step, << <<>> >>, t))

WellFormed(t) == t # <<>> => Last(t) = ";" /\ \A s \in ToSet(Cut(t)) : IsConfProp(s)

Says(s) ==
    Assignment(s[1],
               IF s[3] \in ConfNames THEN Value("String", <<s[3]>>)
               ELSE IF s[3] \in Ints THEN Value("Int", <<s[3]>>)
               ELSE Value("List", SelectSeq(Tail(Tail(s)), LAMBDA tok : tok \in ConfNames)),
               TRUE)

Fits(a) == a.key \in Keys /\ a.val.type = TypeOfKey[a.key]

\* The assignments a text asks for, up to the first that no key takes.
Asks(t) ==
    IF ~ WellFormed(t) THEN <<>>
    ELSE LET all == [n \in DOMAIN Cut(t) |-> Says(Cut(t)[n])]
             bad == {n \in DOMAIN all : ~ Fits(all[n])}
         IN  IF bad = {} THEN all ELSE SubSeq(all, 1, Min(bad) - 1)

\* Every assignment asked for, by the text and by calls of Set.
Asked == FlattenSeq([i \in DOMAIN calls |->
                        IF calls[i] = ParseCall THEN Asks(confText) ELSE <<calls[i]>>])

InForceAfter(assignments) ==
    LET Step(vs, a) == IF Fits(a) /\ (a.overwrite \/ vs[a.key] = Unset)
                       THEN [vs EXCEPT ![a.key] = Head(a.val.items)] ELSE vs
    IN  FoldLeft(Step, [k \in Keys |-> Unset], assignments)

\* A text with an error of grammar anywhere changes nothing.  A name or a type
\* no key takes ends the parse, with exactly the properties before it applied.
\* The last value of a key is in force, except that a call of Set which may not
\* overwrite yields to any value; and no key is listed twice.
ConfExact ==
    confStep \in {"parsed", "refused"} =>
        /\ (confStep = "parsed")
               <=> (WellFormed(confText) /\ Len(Asks(confText)) = Len(Cut(confText)))
        /\ vals = InForceAfter(Asked)
        /\ IsInjective(foundKeys)
        /\ ToSet(foundKeys) = {a.key : a \in {b \in ToSet(Asked) : Fits(b)}}

\* What Serialize writes says again what is in force, as long as no caller of
\* Set gave a negative number: those it writes as no number, or asserts.
ConfRoundTrip ==
    (confStep \in {"parsed", "refused"} /\ ~ SerializeAborts /\ Unlexable \notin ToSet(Serialize)) =>
        /\ WellFormed(Serialize)
        /\ InForceAfter(Asks(Serialize)) = vals

=============================================================================
