----------------------------- MODULE MCFrontEnd -----------------------------
(***************************************************************************)
(* What the program reads of an image: the lexer reads the characters of a   *)
(* configuration file, the parser of images its tokens, and the command line *)
(* describes an image with texts some of which are lists of pairs.  A        *)
(* behaviour runs one of them.                                               *)
(***************************************************************************)
EXTENDS SimpleLexer, ImageParser, ImageCmd, KeyValue, TLC

VARIABLE runs  \* which of them is run

vars == <<runs, lexVars, parseVars, cmdVars, pairText>>

Init ==
    /\ LexInit /\ ParseInit /\ CmdInit /\ PairInit
    /\ runs \in {"lexer", "parser", "command", "pairs"}

Next ==
    \/ runs = "lexer"   /\ LexNext   /\ UNCHANGED <<runs, parseVars, cmdVars, pairText>>
    \/ runs = "parser"  /\ ParseNext /\ UNCHANGED <<runs, lexVars, cmdVars, pairText>>
    \/ runs = "command" /\ CmdNext   /\ UNCHANGED <<runs, lexVars, parseVars, pairText>>
    \/ runs = "pairs"   /\ TypeChar  /\ UNCHANGED <<runs, lexVars, parseVars, cmdVars>>

Spec == Init /\ [][Next]_vars

\* Digits that are of every base, of the larger ones or of one only; both letters
\* that give a base; each kind of line end.
MCChars == {"b", "x", "0", "8", "-", "\"", "\\", " ", "LF", "CR", "#", ";", "NUL"}

MCReserved == {<<"b", "x">>}

=============================================================================
