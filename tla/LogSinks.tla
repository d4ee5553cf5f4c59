------------------------------ MODULE LogSinks ------------------------------
(***************************************************************************)
(* The sinks of a log and the threads that use them (class Log of Log.h and  *)
(* Log.cxx): the program's own, the maintenance thread of the managed log    *)
(* and the workers of a task graph.  A message passes the sinks one after    *)
(* the other under a shared lock, and each under a lock of its own; whoever  *)
(* adds a sink or changes its levels excludes them all.  The global level is *)
(* an atomic outside of every lock.                                         *)
(***************************************************************************)
EXTENDS Naturals, FiniteSets, SequencesExt

CONSTANTS Threads,     \* the threads
          NoThread,    \* nobody has the lock of a sink
          FirstSinks,  \* the sinks the program begins with
          MoreSinks,   \* the sinks that may be added
          Levels,      \* the levels of messages
          Reports,     \* the levels of the links of an error, root cause first
          NewLevels,   \* the levels a sink, or the log, may be set to
          MaxOps       \* bound: operations begun, by all threads

\* Debug, Info, Status, Warning, Error, Fatal, and Max above them all.
LogLevels == 0 .. 6
Debug     == 0
Info      == 1

SinkTypes == {"Console", "File", "Managed"}
SinkInfos == [type : SinkTypes, level : LogLevels, maxLevel : LogLevels]

ASSUME SinkAssumption ==
    /\ NoThread \notin Threads
    /\ FirstSinks \in Seq(SinkInfos) /\ MoreSinks \subseteq SinkInfos
    /\ \A info \in MoreSinks \cup ToSet(FirstSinks) : info.maxLevel >= info.level
    /\ Levels \cup NewLevels \subseteq LogLevels
    /\ Reports \subseteq Seq(Levels)
    /\ MaxOps \in Nat

VARIABLES sinks,   \* the sinks, each with its levels
          holder,  \* the thread in the lock of each sink
          lines,   \* what each sink was given: a message, as it begins and as it ends
          level,   \* the global level
          step,    \* where each thread is; but for "idle" it has the shared lock
          at,      \* the sink its message is at
          agenda,  \* the messages it has still to log, and the sink it then adds
          posts,   \* its messages: the sinks that were to get each, and whether the
                   \* global level stayed the same meanwhile
          ops      \* operations begun

sinkVars == <<sinks, holder, lines>>
logVars  == <<sinkVars, level, step, at, agenda, posts, ops>>

NoAgenda == [messages |-> <<>>, sinks |-> <<>>]

LogInit ==
    /\ sinks = FirstSinks
    /\ holder = [i \in DOMAIN FirstSinks |-> NoThread]
    /\ lines = [i \in DOMAIN FirstSinks |-> <<>>]
    /\ level = Info
    /\ step = [t \in Threads |-> "idle"]
    /\ at = [t \in Threads |-> 0]
    /\ agenda = [t \in Threads |-> NoAgenda]
    /\ posts = [t \in Threads |-> <<>>]
    /\ ops = 0

-----------------------------------------------------------------------------
(* Operations.                                                              *)

Message(lev, types) == [level |-> lev, types |-> types]

MayBegin(t) ==
    /\ agenda[t] = NoAgenda
    /\ ops < MaxOps
    /\ ops' = ops + 1

TakesUp(t, messages, added) ==
    /\ MayBegin(t)
    /\ agenda' = [agenda EXCEPT ![t] = [messages |-> messages, sinks |-> added]]
    /\ UNCHANGED <<sinkVars, level, step, at, posts>>

\* LogAt, LogWithTag, and LogErrorSink::Output, a message for each link.
LogAt(t)      == \E lev \in Levels : TakesUp(t, <<Message(lev, SinkTypes)>>, <<>>)
LogWithTag(t) == \E lev \in Levels, type \in SinkTypes :
                     TakesUp(t, <<Message(lev, {type})>>, <<>>)
Output(t)     == \E chain \in Reports :
                     TakesUp(t, [i \in DOMAIN chain |-> Message(chain[i], SinkTypes)], <<>>)

\* The constructor of a console sink may log, before the lock is taken.
AddSink(t) ==
    \E info \in MoreSinks :
        \/ TakesUp(t, <<>>, <<info>>)
        \/ info.type = "Console" /\ TakesUp(t, <<Message(Debug, SinkTypes)>>, <<info>>)

\* sinkMtx, taken exclusively.
Alone == \A t \in Threads : step[t] = "idle"

\* Mutant: the change excludes nobody.
SetSinkLevels_Shared(t) ==
    /\ MayBegin(t)
    /\ \E type \in SinkTypes, lev \in NewLevels :
           sinks' = [i \in DOMAIN sinks |-> IF sinks[i].type = type
                                            THEN [sinks[i] EXCEPT !.level = lev] ELSE sinks[i]]
    /\ UNCHANGED <<holder, lines, level, step, at, agenda, posts>>

\* SetSinkLogLevel and SetSinkMaxLogLevel.
SetSinkLevels(t) ==
    /\ MayBegin(t)
    /\ Alone
    /\ \E type \in SinkTypes, lev \in NewLevels :
           \/ sinks' = [i \in DOMAIN sinks |-> IF sinks[i].type = type
                                               THEN [sinks[i] EXCEPT !.level = lev] ELSE sinks[i]]
           \/ sinks' = [i \in DOMAIN sinks |-> IF sinks[i].type = type
                                               THEN [sinks[i] EXCEPT !.maxLevel = lev] ELSE sinks[i]]
    /\ UNCHANGED <<holder, lines, level, step, at, agenda, posts>>

\* No lock: messages on their way are filtered by the new level from here on.
SetLogLevel(t) ==
    /\ MayBegin(t)
    /\ level' \in NewLevels
    /\ posts' = [u \in Threads |->
                    IF step[u] = "idle" THEN posts[u]
                    ELSE [posts[u] EXCEPT ![Len(posts[u])].steady = FALSE]]
    /\ UNCHANGED <<sinkVars, step, at, agenda>>

-----------------------------------------------------------------------------
(* A message on its way, and a sink that is added.                          *)

Current(t) == Head(agenda[t].messages)

isLoggable(sink, message) ==
    /\ sink.type \in message.types
    /\ message.level >= sink.level /\ message.level <= sink.maxLevel
    /\ message.level >= level

Share(t) ==
    /\ step[t] = "idle"
    /\ agenda[t].messages # <<>>
    /\ step' = [step EXCEPT ![t] = "check"]
    /\ at' = [at EXCEPT ![t] = 1]
    /\ posts' = [posts EXCEPT ![t] = Append(@,
                    [sinks |-> {i \in DOMAIN sinks : isLoggable(sinks[i], Current(t))},
                     steady |-> TRUE])]
    /\ UNCHANGED <<sinkVars, level, agenda, ops>>

NextSink(t) ==
    /\ step' = [step EXCEPT ![t] = "check"]
    /\ at' = [at EXCEPT ![t] = @ + 1]

Check(t) ==
    /\ step[t] = "check"
    /\ at[t] \in DOMAIN sinks
    /\ IF isLoggable(sinks[at[t]], Current(t))
       THEN step' = [step EXCEPT ![t] = "lock"] /\ UNCHANGED at
       ELSE NextSink(t)
    /\ UNCHANGED <<sinkVars, level, agenda, posts, ops>>

Puts(t) == lines' = [lines EXCEPT ![at[t]] = Append(@, <<t, Len(posts[t])>>)]

\* Mutant: the sink is not locked.
LockSink_Not(t) ==
    /\ step[t] = "lock"
    /\ Puts(t)
    /\ step' = [step EXCEPT ![t] = "write"]
    /\ UNCHANGED <<sinks, holder, level, at, agenda, posts, ops>>

LockSink(t) ==
    /\ step[t] = "lock"
    /\ holder[at[t]] = NoThread
    /\ holder' = [holder EXCEPT ![at[t]] = t]
    /\ Puts(t)
    /\ step' = [step EXCEPT ![t] = "write"]
    /\ UNCHANGED <<sinks, level, at, agenda, posts, ops>>

Written(t) ==
    /\ step[t] = "write"
    /\ Puts(t)
    /\ holder' = [holder EXCEPT ![at[t]] = NoThread]
    /\ NextSink(t)
    /\ UNCHANGED <<sinks, level, agenda, posts, ops>>

\* The message has passed all sinks, and the shared lock is given up.
Passed(t) ==
    /\ step[t] = "check"
    /\ at[t] \notin DOMAIN sinks
    /\ step' = [step EXCEPT ![t] = "idle"]
    /\ at' = [at EXCEPT ![t] = 0]
    /\ agenda' = [agenda EXCEPT ![t].messages = Tail(@)]
    /\ UNCHANGED <<sinkVars, level, posts, ops>>

AddLocked(t) ==
    /\ agenda[t].messages = <<>>
    /\ agenda[t].sinks # <<>>
    /\ Alone
    /\ sinks' = sinks \o agenda[t].sinks
    /\ holder' = Append(holder, NoThread)
    /\ lines' = Append(lines, <<>>)
    /\ agenda' = [agenda EXCEPT ![t] = NoAgenda]
    /\ UNCHANGED <<level, step, at, posts, ops>>

LogNext ==
    \E t \in Threads :
        \/ LogAt(t) \/ LogWithTag(t) \/ Output(t) \/ AddSink(t)
        \/ SetSinkLevels(t) \/ SetLogLevel(t)
        \/ Share(t) \/ Check(t) \/ LockSink(t) \/ Written(t) \/ Passed(t) \/ AddLocked(t)

LogSpec == LogInit /\ [][LogNext]_logVars

-----------------------------------------------------------------------------
\* A message that has passed goes to exactly the sinks that admitted it when its
\* way began, once to each and in the order a thread, or the chain of an error,
\* put its messages; sinks added and levels changed meanwhile touch only later
\* ones.  The global level alone may change for a message on its way.
DeliveredExactly ==
    \A t \in Threads :
        /\ \A n \in DOMAIN posts[t] :
               (posts[t][n].steady /\ (n < Len(posts[t]) \/ step[t] = "idle")) =>
                   {i \in DOMAIN lines : <<t, n>> \in ToSet(lines[i])} = posts[t][n].sinks
        /\ \A i \in DOMAIN lines : \A j, k \in DOMAIN lines[i] :
               (j < k /\ lines[i][j][1] = t /\ lines[i][k][1] = t) =>
                   \/ lines[i][j][2] < lines[i][k][2]
                   \/ lines[i][j] = lines[i][k] /\ j % 2 = 1 /\ k = j + 1

\* Lines are not torn: what one thread puts into a sink is whole before another
\* thread's line begins.
LinesWhole ==
    \A i \in DOMAIN lines : \A k \in 1 .. Len(lines[i]) \div 2 :
        lines[i][2 * k] = lines[i][2 * k - 1]

=============================================================================
