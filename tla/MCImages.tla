------------------------------ MODULE MCImages ------------------------------
(***************************************************************************)
(* Images: either one is built from its settings, or threads get properties *)
(* of a component, or a set of them is read and its references resolved.    *)
(***************************************************************************)
EXTENDS ImageBuild, CompRegistry, ImageSet, TLC

VARIABLE runs  \* which of them is run

vars == <<runs, buildVars, regVars, setVars>>

Init ==
    /\ BuildInit /\ RegInit /\ SetInit
    /\ runs \in {"build", "registry", "set"}

Next ==
    \/ runs = "build"    /\ BuildNext /\ UNCHANGED <<runs, regVars, setVars>>
    \/ runs = "registry" /\ RegNext   /\ UNCHANGED <<runs, buildVars, setVars>>
    \/ runs = "set"      /\ SetNext   /\ UNCHANGED <<runs, buildVars, regVars>>

Spec == Init /\ [][Next]_vars

MCNames == {"disk", "floppy", "blank"}

\* Three other images a reference may name.
MCTypeOf == [disk |-> "mbr", floppy |-> "floppy", blank |-> NoValue]

PartSymmetry == Permutations(Readers) \cup Permutations(PartNames)
                   \cup Permutations(ImageNames)

=============================================================================
