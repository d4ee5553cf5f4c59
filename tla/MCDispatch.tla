----------------------------- MODULE MCDispatch -----------------------------
(***************************************************************************)
(* Either a run of the program, with what a configuration may say of an      *)
(* image and the command lines, or every graph of tasks that the building    *)
(* calls can reach.                                                         *)
(***************************************************************************)
EXTENDS Dispatch, TaskGraphSearch

VARIABLE runs  \* which of them is run

ProgramVars == <<runs, vars, graphVars>>

ProgramInit ==
    /\ Init /\ GraphInit
    /\ runs \in {"dispatch", "graph"}
    \* The options matter to a run of the program only.
    /\ runs = "graph" => opts = CHOOSE o \in OptionSets : TRUE

ProgramNext ==
    \/ runs = "dispatch" /\ Next      /\ UNCHANGED <<runs, graphVars>>
    \/ runs = "graph"    /\ GraphNext /\ UNCHANGED <<runs, vars>>
    \* No task is left to add, and no more dependency need be.
    \/ runs = "graph" /\ curId = MaxTasks /\ UNCHANGED ProgramVars

ProgramSpec == ProgramInit /\ [][ProgramNext]_ProgramVars

MCNames == {"", "a", "b"}

S(prop, val) == [prop |-> prop, val |-> val]

MCBlocks ==
    {<<>>,
     <<S("format", "raw"), S("size", "s1"), S("boot_mode", "uefi")>>,
     <<S("format", "iso9660")>>,
     <<S("format", "iso9660"), S("type", "iso9660")>>,
     <<S("boot_emu", "noemu"), S("format", "iso9660")>>,
     <<S("boot_emu", "noemu"), S("format", "qcow2"), S("boot_image", "b"),
       S("type", "iso9660")>>,
     <<S("boot_emu", "hdd"), S("format", "raw")>>,
     <<S("boot_mode", "unknown")>>}

F(name, f) == [name |-> name, file |-> f]

Files == {<<>>, <<F("plain", "f1")>>, <<F("a", "f1"), F("a", "f2")>>,
          <<F("b", "f1"), F("a", "f2")>>, <<F("plain", "f1"), F("a", "f2")>>}

\* Options of one front end, of the other, of both; a file whose name is empty;
\* an argument too many.
Givens == {{}, {"file", "confenc"}, {"size", "type"}, {"file", "type"}, {"file", "size"},
           {"file"}, {"help"}, {"help", "extra"}}

MCOptionSets == {o \in [conf      : BOOLEAN,
                        operation : {"create", "partition", "bogus", ""},
                        selected  : {{}, {"a"}, {"a", "b"}},
                        files     : Files,
                        given     : Givens] : o.conf => "file" \in o.given}

=============================================================================
