------------------------------- MODULE MCLogs -------------------------------
(***************************************************************************)
(* The log: either programs open and maintain their logs in one directory,   *)
(* or threads of a program log through its sinks, or an error is made and    *)
(* reported, or the control file of the logs is parsed, set and written.     *)
(***************************************************************************)
EXTENDS LogMaint, LogSinks, ErrorChain, ConfParser, TLC

VARIABLE runs  \* which of them is run

vars == <<runs, managedVars, logVars, errVars, confVars>>

Init ==
    /\ MaintInit /\ LogInit /\ ErrInit /\ ConfInit
    /\ runs \in {"maintenance", "sinks", "error", "control"}
    \* The directory matters to its maintenance only.
    /\ runs # "maintenance" => logDir = "directory" /\ Logs = {} /\ ctrl = Malformed

Next ==
    \/ runs = "maintenance" /\ MaintNext /\ UNCHANGED <<runs, logVars, errVars, confVars>>
    \/ runs = "sinks"       /\ LogNext   /\ UNCHANGED <<runs, managedVars, errVars, confVars>>
    \/ runs = "error"       /\ ErrNext   /\ UNCHANGED <<runs, managedVars, logVars, confVars>>
    \/ runs = "control"     /\ ConfNext  /\ UNCHANGED <<runs, managedVars, logVars, errVars>>

Spec == Init /\ [][Next]_vars

MCOldLogs == {<<0, 5>>, <<0, 6>>}

MCControls == {[maxAge |-> 0, maxLogs |-> 2], [maxAge |-> 5, maxLogs |-> 1], Malformed}

MCTypeOfKey == [max_file |-> "Int", max_age |-> "Int"]

MCDay == (0 :> 0) @@ (1 :> 1)

Sink(type, level_, maxLevel) == [type |-> type, level |-> level_, maxLevel |-> maxLevel]

\* Those of createLog: messages up to Status, and from Warning to Fatal.
MCFirstSinks == <<Sink("Console", 1, 2), Sink("Console", 3, 5)>>

MCMoreSinks == {Sink("Managed", 0, 5), Sink("Console", 1, 5)}

\* A cause that is an error, and the operation that failed with it.
MCReports == {<<4, 5>>}

ThreadSymmetry == Permutations(Programs) \cup Permutations(Threads)

=============================================================================
