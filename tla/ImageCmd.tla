------------------------------ MODULE ImageCmd ------------------------------
(***************************************************************************)
(* The image of the command line (ImageCmd.cxx): the options that describe   *)
(* it, in the order ImageCmd::Parse takes them.  The text of each is read by *)
(* a lexer of its own, one token after another; what it means is set on the  *)
(* image or on a partition; and the image is added when all have succeeded.  *)
(***************************************************************************)
EXTENDS Image

CONSTANTS CmdIds,        \* identifiers in a text
          GoodNumIds,    \* numbers with a multiplier; the sizes are among them
          RefusedNumIds, \* those of an unknown multiplier or of 2^64 and more
          OtherVals,     \* a string, a number and a boolean
          MaxCmdTokens,  \* bound: tokens of a text
          MaxTexts       \* bound: texts on the command line

\* The types of the values that are no identifiers.
TypeOfOther == [string |-> "String", number |-> "Number", bool |-> "Bool"]

CmdEof   == "Eof"
CmdError == "LexError"  \* what the lexer answers for a text it cannot read
Slash    == "/"
Stray    == "="         \* a token no value is made of

ASSUME CmdAssumption ==
    /\ CmdIds \subseteq Names
    /\ Sizes = GoodNumIds
    /\ OtherVals = DOMAIN TypeOfOther
    /\ CmdIds \cap (GoodNumIds \cup RefusedNumIds \cup OtherVals) = {}
    /\ (CmdIds \cup GoodNumIds \cup RefusedNumIds \cup OtherVals)
           \cap {CmdEof, CmdError, Slash, Stray} = {}
    /\ MaxCmdTokens \in Nat /\ MaxTexts \in Nat

CmdVals   == CmdIds \cup GoodNumIds \cup RefusedNumIds \cup OtherVals
CmdTokens == CmdVals \cup {CmdEof, CmdError, Slash, Stray}

\* The options that hold one value, and the type each wants.
Single == [size |-> "NumId", format |-> "Id", boot_mode |-> "Id", type |-> "Id"]

\* The properties of a partition, and the type each wants.
PartProps == [start |-> "NumId", size |-> "NumId", format |-> "Id",
              prefix |-> "String", boot |-> "Bool"]

\* What follows each option.
Following == [size |-> "format", format |-> "boot_mode", boot_mode |-> "type",
          type |-> "imgprop", imgprop |-> "partition", partition |-> "added"]

VARIABLES option,   \* the option ImageCmd::Parse is at
          reading,  \* where it is in the text of a value
          target,   \* the property that text is the value of
          cmdText,  \* the tokens it has read of it
          cmdImg,   \* the image
          cmdPart,  \* the properties of the partition it is at
          attached, \* the partitions of the image
          told      \* the texts of the command line, in order

cmdVars == <<option, reading, target, cmdText, cmdImg, cmdPart, attached, told>>

\* A partition no property of which was given.
NoPart == [p \in DOMAIN PartProps |-> <<>>]

CmdInit ==
    /\ option = "size"
    /\ reading = "between"
    /\ target = NoValue
    /\ cmdText = <<>>
    /\ cmdImg = NewImage
    /\ cmdPart = NoPart
    /\ attached = <<>>
    /\ told = <<>>

Between == reading = "between"

RefuseCommand ==
    /\ option' = "refused"
    /\ UNCHANGED <<cmdImg, cmdPart, attached>>

-----------------------------------------------------------------------------
(* The text of a value.                                                     *)

\* processId and processNumId skip an empty text; processProps and
\* processPartitions end after their last.
NextOption ==
    /\ Between
    /\ option \in DOMAIN Following
    /\ cmdPart = NoPart
    /\ option' = Following[option]
    /\ UNCHANGED <<reading, target, cmdText, cmdImg, cmdPart, attached, told>>

MayTell == Between /\ option \in DOMAIN Following /\ Len(told) < MaxTexts

\* What an option may name: --imgprop any property of an image, those with an
\* option of their own among them.  An unknown name is refused when its value
\* has been read.
Targets == IF option \in DOMAIN Single THEN {option}
           ELSE {"bogus"} \cup IF option = "imgprop" THEN Props ELSE DOMAIN PartProps

BeginText(p) ==
    /\ MayTell
    /\ p \in Targets
    /\ reading' = "first"
    /\ target' = p
    /\ cmdText' = <<>>
    /\ UNCHANGED <<option, cmdImg, cmdPart, attached, told>>

\* KeyVal::Parse does not accept the text of a property or of a partition.
MalformedText ==
    /\ MayTell
    /\ option \in {"imgprop", "partition"}
    /\ cmdPart = NoPart
    /\ told' = Append(told, [option |-> option, target |-> NoValue, text |-> <<>>, new |-> TRUE])
    /\ RefuseCommand
    /\ UNCHANGED <<reading, target, cmdText>>

\* Mutant: names of a path need no slash between them.
Converts_Adjacent ==
    [first |-> IF option \in DOMAIN Single THEN CmdVals \X {"end"}
               ELSE ((CmdVals \ CmdIds) \X {"end"}) \cup (CmdIds \X {"next"}) \cup {<<Slash, "piece">>},
     end   |-> {<<CmdEof, "value">>},
     next  |-> {<<CmdEof, "value">>, <<Slash, "piece">>},
     piece |-> {<<CmdEof, "path">>} \cup (CmdIds \X {"slash"}),
     slash |-> {<<CmdEof, "path">>, <<Slash, "piece">>} \cup (CmdIds \X {"slash"})]

\* At each place of a text, the tokens convertStr takes and where it goes on.
\* getTokenValue takes one value, of whatever type, and the end.
Converts ==
    [first |-> IF option \in DOMAIN Single THEN CmdVals \X {"end"}
               ELSE ((CmdVals \ CmdIds) \X {"end"}) \cup (CmdIds \X {"next"}) \cup {<<Slash, "piece">>},
     end   |-> {<<CmdEof, "value">>},
     next  |-> {<<CmdEof, "value">>, <<Slash, "piece">>},
     piece |-> {<<CmdEof, "path">>} \cup (CmdIds \X {"slash"}),
     slash |-> {<<CmdEof, "path">>, <<Slash, "piece">>}]

\* A text of blanks or of a comment has ended before its first token.
CmdLexes(tok) ==
    IF tok = CmdEof THEN UNCHANGED cmdText
    ELSE Len(cmdText) < MaxCmdTokens /\ cmdText' = Append(cmdText, tok)

ReadToken ==
    /\ reading \in DOMAIN Converts
    /\ \E take \in Converts[reading] : CmdLexes(take[1]) /\ reading' = take[2]
    /\ UNCHANGED <<option, target, cmdImg, cmdPart, attached, told>>

Telling(text) == Append(told, [option |-> option, target |-> target, text |-> text,
                               new |-> cmdPart = NoPart])

RefuseToken ==
    /\ reading \in DOMAIN Converts
    /\ \E tok \in CmdTokens \ {take[1] : take \in Converts[reading]} :
           CmdLexes(tok) /\ told' = Telling(Append(cmdText, tok))
    /\ reading' = "between"
    /\ RefuseCommand
    /\ UNCHANGED target

-----------------------------------------------------------------------------
(* Setting what a text means.                                               *)

TypeOfVal(v) ==
    IF v \in CmdIds THEN "Id" ELSE IF v \in OtherVals THEN TypeOfOther[v] ELSE "NumId"

ReadType == IF reading = "path" THEN "String" ELSE TypeOfVal(Head(cmdText))

\* ImageVal::FromToken and ImageNumId::Parse.
Converted == reading = "path" \/ Head(cmdText) \notin RefusedNumIds

\* ImageVal::Cast: an identifier is also a string.
CastsTo(type, wanted) == type = wanted \/ (type = "Id" /\ wanted = "String")

\* The setting of an image property: all of them but the size take identifiers.
AsSetting(p, type, v) ==
    [prop |-> p, val |-> IF type # (IF p = "size" THEN "NumId" ELSE "Id") THEN Mistyped
                         ELSE IF v \in Known[p] THEN v ELSE "unknown"]

\* The images Image::Set may leave, none when the value or the setter is refused.
SetImage ==
    IF \/ ~ Converted
       \/ target \notin Props
       \/ option \in DOMAIN Single /\ ReadType # Single[option]
    THEN {}
    ELSE Set(cmdImg, AsSetting(target, ReadType, Head(cmdText)))

SetImageProp ==
    /\ reading \in {"value", "path"}
    /\ option # "partition"
    /\ told' = Telling(cmdText)
    /\ reading' = "between"
    /\ IF SetImage = {} THEN RefuseCommand
       ELSE /\ cmdImg' \in SetImage
            /\ option' = IF option \in DOMAIN Single THEN Following[option] ELSE option
            /\ UNCHANGED <<cmdPart, attached>>
    /\ UNCHANGED <<target, cmdText>>

\* Partition::Set.
SetPartProp ==
    /\ reading \in {"value", "path"}
    /\ option = "partition"
    /\ told' = Telling(cmdText)
    /\ reading' = "between"
    /\ IF Converted /\ target \in DOMAIN PartProps /\ CastsTo(ReadType, PartProps[target])
       THEN /\ cmdPart' = [cmdPart EXCEPT ![target] = cmdText]
            /\ UNCHANGED <<option, cmdImg, attached>>
       ELSE RefuseCommand
    /\ UNCHANGED <<target, cmdText>>

\* A partition is part of the image once all of its text is.
AttachPart ==
    /\ Between
    /\ option = "partition"
    /\ cmdPart # NoPart
    /\ attached' = Append(attached, cmdPart)
    /\ cmdPart' = NoPart
    /\ UNCHANGED <<option, reading, target, cmdText, cmdImg, told>>

CmdNext ==
    \/ NextOption \/ MalformedText \/ ReadToken \/ RefuseToken
    \/ SetImageProp \/ SetPartProp \/ AttachPart
    \/ \E p \in Props \cup DOMAIN PartProps \cup {"bogus"} : BeginText(p)

CmdSpec == CmdInit /\ [][CmdNext]_cmdVars

-----------------------------------------------------------------------------
(* What a command line says, without a parser.                              *)

\* Names and slashes in turn.
IsPath(t) ==
    /\ Slash \in ToSet(t) /\ ToSet(t) \subseteq CmdIds \cup {Slash}
    /\ \A i \in 1 .. Len(t) - 1 : (t[i] = Slash) # (t[i + 1] = Slash)

\* The type of the one value a text is, if it is one.
Means(t) ==
    IF Len(t) = 1 /\ t[1] \in CmdVals \ RefusedNumIds THEN TypeOfVal(t[1])
    ELSE IF IsPath(t) THEN "String" ELSE "None"

\* The images that result from setting what a text says.
SetTold(imgs, x) ==
    IF \/ Means(x.text) = "None"
       \/ x.target \notin Props
       \/ x.option \in DOMAIN Single /\ Means(x.text) # Single[x.option]
    THEN {}
    ELSE UNION {Set(img, AsSetting(x.target, Means(x.text), x.text[1])) : img \in imgs}

GoodPart(x) == x.target \in DOMAIN PartProps /\ CastsTo(Means(x.text), PartProps[x.target])

\* The last text of each property counts.
PartTold(parts, x) ==
    LET known == IF x.new THEN Append(parts, NoPart) ELSE parts
        last  == known[Len(known)]
    IN  [known EXCEPT ![Len(known)] =
            [p \in DOMAIN PartProps |-> IF p = x.target THEN x.text ELSE last[p]]]

OfPart(x) == x.option = "partition"

\* The images and the partitions that one more text makes of those before it.
Told(all, x) ==
    IF OfPart(x) THEN [images |-> all.images, parts |-> PartTold(all.parts, x)]
    ELSE [images |-> SetTold(all.images, x), parts |-> all.parts]

\* What the first n texts of the command line describe.
Described(n) ==
    LET after[k \in 0 .. n] ==
            IF k = 0 THEN [images |-> {NewImage}, parts |-> <<>>]
            ELSE Told(after[k - 1], told[k])
    IN  after[n]

Acceptable(n) ==
    /\ Described(n).images # {}
    /\ \A i \in 1 .. n : OfPart(told[i]) => GoodPart(told[i])

\* An image is added exactly when every text of the command line is one value
\* of the right type, or a path where a string may be, and the image, with what
\* the texts before it have set, deferred or replayed, takes it; it is then what
\* the texts make of a new image in their order, with its partitions.  The first
\* text that is refused is the last that was looked at.
CommandExact ==
    /\ option = "added" =>
           /\ Acceptable(Len(told))
           /\ cmdImg \in Described(Len(told)).images
           /\ attached = Described(Len(told)).parts
    /\ option = "refused" =>
           /\ Acceptable(Len(told) - 1)
           /\ ~ Acceptable(Len(told))

=============================================================================
