------------------------------ MODULE LogMaint ------------------------------
(***************************************************************************)
(* The managed log of src/source/Log.cxx.  Programs that share one log      *)
(* directory each create it if need be, choose a name, open their log and   *)
(* start a thread that deletes old logs while the program goes on.  A lock  *)
(* file lets one program do that at a time; the others do without.          *)
(*                                                                          *)
(* A log is named by the tick of the clock its program read and a suffix,   *)
(* -1 for none.  A program may be killed at any step.                       *)
(***************************************************************************)
EXTENDS Integers, FiniteSets, Functions, SequencesExt

CONSTANTS Programs,   \* the programs started
          NoProgram,  \* nobody holds the lock
          NoLog,      \* no log chosen yet
          OldLogs,    \* logs an earlier run may have left
          Malformed,  \* a control file that cannot be parsed
          Controls,   \* what it may say; an absent one is its default values
          MaxClock,   \* bound: ticks of the clock
          Day         \* the day of each tick

ASSUME LogAssumption ==
    /\ NoProgram \notin Programs
    /\ MaxClock \in Nat
    /\ Day \in [0 .. MaxClock -> Nat]
    /\ Controls \subseteq [maxAge : Nat, maxLogs : Nat] \cup {Malformed}
    /\ OldLogs \subseteq {0} \X (Nat \cup {-1}) /\ IsFiniteSet(OldLogs)
    /\ NoLog \notin Nat \X Int

VARIABLES clock,      \* the time
          ctrl,       \* the control file
          logDir,     \* what there is at the path of the log directory
          written,    \* the logs in it, each with its last write
          lock,       \* the program that holds logmaint_lock
          main,       \* where each program is
          log,        \* the name it chose
          maint,      \* where its maintenance thread is
          work        \* what the thread knows

dirVars     == <<clock, ctrl, logDir, written, lock>>
maintVars   == <<maint, work>>
managedVars == <<dirVars, main, log, maintVars>>

Logs == DOMAIN written

\* listed: the logs there were when the thread opened the directory; visited:
\* the entries its loop has visited; victim: the log it found out of date; files:
\* the logs it has kept, sorted when pass 2 begins; stamps: their last writes
\* when the sort begins; count: how many logs pass 2 still deletes.
NoWork == [listed |-> {}, visited |-> {}, victim |-> NoLog,
           files |-> <<>>, stamps |-> <<>>, count |-> 0]

MaintInit ==
    /\ clock = 0
    /\ ctrl \in Controls
    /\ logDir \in {"absent", "directory", "file"}
    /\ \E old \in SUBSET OldLogs :
           /\ old # {} => logDir = "directory"
           /\ written = [l \in old |-> 0]
    /\ lock = NoProgram
    /\ main = [p \in Programs |-> "start"]
    /\ log = [p \in Programs |-> NoLog]
    /\ maint = [p \in Programs |-> "none"]
    /\ work = [p \in Programs |-> NoWork]

Tick ==
    /\ clock < MaxClock
    /\ clock' = clock + 1
    /\ UNCHANGED <<ctrl, logDir, written, lock, main, log, maintVars>>

-----------------------------------------------------------------------------
(* Opening the log: getLogDir and Prepare.                                  *)

MainTo(p, label) == main' = [main EXCEPT ![p] = label]

\* An error of the sink is reported, and the program goes on without a managed
\* log: here, when the path is that of something else (LogPathNotDirectory).
FindDir(p) ==
    /\ main[p] = "start"
    /\ MainTo(p, [absent |-> "mkdir", directory |-> "name", file |-> "ended"][logDir])
    /\ UNCHANGED <<dirVars, log, maintVars>>

\* create_directories answers false when another program was quicker: an error.
MakeDir(p) ==
    /\ main[p] = "mkdir"
    /\ logDir' = "directory"
    /\ MainTo(p, IF logDir = "directory" THEN "ended" ELSE "name")
    /\ UNCHANGED <<clock, ctrl, written, lock, log, maintVars>>

getLogName(p) ==
    /\ main[p] = "name"
    /\ log' = [log EXCEPT ![p] = <<clock, -1>>]
    /\ MainTo(p, "probe")
    /\ UNCHANGED <<dirVars, maintVars>>

\* "racey": the name is free now.
Probe(p) ==
    /\ main[p] = "probe"
    /\ IF log[p] \in Logs
       THEN log' = [log EXCEPT ![p][2] = @ + 1] /\ UNCHANGED main
       ELSE MainTo(p, "open") /\ UNCHANGED log
    /\ UNCHANGED <<dirVars, maintVars>>

\* Open for truncation, then start the thread.
Open(p) ==
    /\ main[p] = "open"
    /\ written' = [l \in Logs \cup {log[p]} |-> IF l = log[p] THEN clock ELSE written[l]]
    /\ MainTo(p, "running")
    /\ maint' = [maint EXCEPT ![p] = "ctrl"]
    /\ UNCHANGED <<clock, ctrl, logDir, lock, log, work>>

\* The log cannot be opened.
OpenFails(p) ==
    /\ main[p] = "open"
    /\ MainTo(p, "ended")
    /\ UNCHANGED <<dirVars, log, maintVars>>

\* A line is written; if the log was deleted, to a file without a name.
Write(p) ==
    /\ main[p] \in {"running", "exiting"}
    /\ log[p] \in Logs
    /\ written' = [written EXCEPT ![log[p]] = clock]
    /\ UNCHANGED <<clock, ctrl, logDir, lock, main, log, maintVars>>

\* The sinks are destroyed, and with them the sink's thread is joined.
Exit(p) ==
    /\ main[p] = "running"
    /\ MainTo(p, "exiting")
    /\ UNCHANGED <<dirVars, log, maintVars>>

\* Mutant: the thread is left to itself.
JoinMaint_Detached(p) ==
    /\ main[p] = "exiting"
    /\ MainTo(p, "ended")
    /\ UNCHANGED <<dirVars, log, maintVars>>

JoinMaint(p) ==
    /\ main[p] = "exiting"
    /\ maint[p] \in {"done", "beaten"}
    /\ MainTo(p, "ended")
    /\ UNCHANGED <<dirVars, log, maintVars>>

\* The program is killed, or aborts: the system gives up its lock.
Crash(p) ==
    /\ main[p] \notin {"ended", "crashed"}
    /\ MainTo(p, "crashed")
    /\ maint' = [maint EXCEPT ![p] = "crashed"]
    /\ work' = [work EXCEPT ![p] = NoWork]
    /\ lock' = IF lock = p THEN NoProgram ELSE lock
    /\ UNCHANGED <<clock, ctrl, logDir, written, log>>

-----------------------------------------------------------------------------
(* logMaintWorker.                                                          *)

MaintTo(p, label) == maint' = [maint EXCEPT ![p] = label]

\* openLogCtrl; an error is reported and ends the thread.  The report goes
\* through the sinks, so it must not come while they are destroyed.
openLogCtrl(p) ==
    /\ maint[p] = "ctrl"
    /\ MaintTo(p, IF ctrl # Malformed THEN "lock"
                  ELSE IF main[p] = "exiting" THEN "undefined" ELSE "done")
    /\ UNCHANGED <<dirVars, main, log, work>>

\* The lock is taken, and the directory opened.
Begin(p) ==
    /\ lock' = p
    /\ work' = [work EXCEPT ![p].listed = Logs]
    /\ MaintTo(p, "pass1")

\* The worker returns, and its lock is given up.
Return(p) ==
    /\ lock' = NoProgram
    /\ work' = [work EXCEPT ![p] = NoWork]
    /\ MaintTo(p, "done")

\* Mutant: the answer is not looked at.
TryAcquire_Ignored(p) ==
    /\ maint[p] = "lock"
    /\ Begin(p)
    /\ UNCHANGED <<clock, ctrl, logDir, written, main, log>>

\* Mutant: the answer is read the wrong way round.
TryAcquire_Inverted(p) ==
    /\ maint[p] = "lock"
    /\ IF lock # NoProgram
       THEN Begin(p)
       ELSE MaintTo(p, "beaten") /\ UNCHANGED <<lock, work>>
    /\ UNCHANGED <<clock, ctrl, logDir, written, main, log>>

\* "We were beaten to it" when another program holds the lock.  When the lock
\* file can be neither opened nor locked, an exception leaves the thread, which
\* ends the program.
TryAcquire(p) ==
    /\ maint[p] = "lock"
    /\ \/ /\ IF lock = NoProgram
             THEN Begin(p)
             ELSE MaintTo(p, "beaten") /\ UNCHANGED <<lock, work>>
          /\ UNCHANGED <<clock, ctrl, logDir, written, main, log>>
       \/ Crash(p)

OutOfDate(l) == Day[clock] - Day[written[l]] > ctrl.maxAge

\* An entry that was there when the directory was opened, or one added since.
\* Asking for the last write of a log that is gone throws, and nobody catches.
checkLog(p, l) ==
    /\ maint[p] = "pass1"
    /\ l \notin work[p].visited
    /\ \/ l \notin Logs /\ MaintTo(p, "thrown") /\ UNCHANGED work
       \/ /\ l \in Logs /\ OutOfDate(l)
          /\ MaintTo(p, "remove")
          /\ work' = [work EXCEPT ![p].visited = @ \cup {l}, ![p].victim = l]
       \/ /\ l \in Logs /\ ~ OutOfDate(l)
          /\ work' = [work EXCEPT ![p].visited = @ \cup {l}, ![p].files = Append(@, l)]
          /\ UNCHANGED maint
    /\ UNCHANGED <<dirVars, main, log>>

Without(l) == written' = Restrict(written, Logs \ {l})

\* The log may have been written since.
RemoveOutOfDate(p) ==
    /\ maint[p] = "remove"
    /\ Without(work[p].victim)
    /\ work' = [work EXCEPT ![p].victim = NoLog]
    /\ MaintTo(p, "pass1")
    /\ UNCHANGED <<clock, ctrl, logDir, lock, main, log>>

\* Mutants: off by one, in either direction.
Excess_More(p) == Len(work[p].files) - ctrl.maxLogs + 1
Excess_Less(p) == Len(work[p].files) - ctrl.maxLogs - 1

\* numLogs - maxLogs.
Excess(p) == Len(work[p].files) - ctrl.maxLogs

EndPass1(p) ==
    /\ maint[p] = "pass1"
    /\ work[p].listed \subseteq work[p].visited
    /\ IF Excess(p) > 0
       THEN /\ work' = [work EXCEPT
                           ![p].stamps = Restrict(written, Range(work[p].files)),
                           ![p].count = Excess(p)]
            /\ MaintTo(p, "sort")
            /\ UNCHANGED lock
       ELSE Return(p)
    /\ UNCHANGED <<clock, ctrl, logDir, written, main, log>>

\* A log was written while the files were sorted by their last writes, and two
\* files compare differently before and after.
Inconsistent(p) ==
    LET stamps == work[p].stamps
    IN  \E k, l \in Range(work[p].files) :
            (stamps[k] < stamps[l]) # (written[k] < written[l])

\* std::sort; with an inconsistent comparison the order is undefined.
Sort(p) ==
    /\ maint[p] = "sort"
    /\ LET files == Range(work[p].files) IN
       IF files \subseteq Logs
       THEN /\ \E order \in SetToSeqs(files) :
                  /\ Inconsistent(p) \/ \A i, j \in DOMAIN order :
                         i < j => written[order[i]] <= written[order[j]]
                  /\ work' = [work EXCEPT ![p].files = order]
            /\ MaintTo(p, "pass2")
       ELSE MaintTo(p, "thrown") /\ UNCHANGED work
    /\ UNCHANGED <<dirVars, main, log>>

deleteOldestLogs(p) ==
    /\ maint[p] = "pass2"
    /\ work[p].count > 0
    /\ Without(Head(work[p].files))
    /\ work' = [work EXCEPT ![p].files = Tail(@), ![p].count = @ - 1]
    /\ UNCHANGED <<clock, ctrl, logDir, lock, main, log, maint>>

EndPass2(p) ==
    /\ maint[p] = "pass2"
    /\ work[p].count = 0
    /\ Return(p)
    /\ UNCHANGED <<clock, ctrl, logDir, written, main, log>>

-----------------------------------------------------------------------------
Main(p) ==
    \/ FindDir(p) \/ MakeDir(p) \/ getLogName(p) \/ Probe(p) \/ Open(p) \/ OpenFails(p)
    \/ Write(p) \/ Exit(p) \/ JoinMaint(p) \/ Crash(p)

logMaintWorker(p) ==
    \/ openLogCtrl(p) \/ TryAcquire(p)
    \/ \E l \in work[p].listed \cup Logs : checkLog(p, l)
    \/ RemoveOutOfDate(p) \/ EndPass1(p) \/ Sort(p)
    \/ deleteOldestLogs(p) \/ EndPass2(p)

MaintNext ==
    \/ Tick
    \/ \E p \in Programs : Main(p) \/ logMaintWorker(p)

MaintSpec == MaintInit /\ [][MaintNext]_managedVars

-----------------------------------------------------------------------------
Maintaining == {"pass1", "remove", "sort", "pass2"}

Gone == {"ended", "crashed"}

Names == Nat \X (Nat \cup {-1})

\* Types; a maintenance thread runs only in a program that opened its log.
TypeOK ==
    /\ clock \in 0 .. MaxClock
    /\ ctrl \in Controls
    /\ Logs \subseteq Names /\ \A l \in Logs : written[l] \in 0 .. clock
    /\ Logs # {} => logDir = "directory"
    /\ lock \in Programs \cup {NoProgram}
    /\ \A p \in Programs :
           /\ log[p] \in Names \cup {NoLog}
           /\ maint[p] = "none" => main[p] \in {"start", "mkdir", "name", "probe",
                                                "open", "ended"}
           /\ maint[p] \in Maintaining => main[p] \in {"running", "exiting"}
           /\ work[p].listed \cup work[p].visited \cup Range(work[p].files) \subseteq Names
           /\ work[p].count \in 0 .. Len(work[p].files)

\* Whoever lists or deletes logs holds the lock, so a log that one thread has
\* seen is there when it asks for its age: checkLog and the sort never throw.
NothingThrown == \A p \in Programs : maint[p] # "thrown"

\* The logs deleted for being too many leave the number asked for, whoever
\* else opens logs or is killed meanwhile.
KeepsEnough ==
    [][\A p \in Programs :
           deleteOldestLogs(p) => Cardinality(Logs') >= ctrl.maxLogs]_managedVars

\* Of the logs there were when a thread opened the directory, those of the
\* other programs aside, at most the number asked for is left when it ends.
\* (Another program can open a log again by the name of one just deleted.)
KeepsNoMore ==
    [][\A p \in Programs :
           (maint[p] \in Maintaining /\ maint'[p] = "done")
               => LET others == {log[q] : q \in Programs \ {p}}
                  IN  Cardinality((work[p].listed \ others) \cap Logs') <= ctrl.maxLogs]_managedVars

\* A thread that leaves the work to another is right to: when all programs
\* have ended and none was killed, one that opened a log has done the work.
SomebodyMaintained ==
    /\ \A p \in Programs : main[p] = "ended"
    /\ \E p \in Programs : maint[p] = "beaten"
    => \E p \in Programs : maint[p] = "done"

=============================================================================
