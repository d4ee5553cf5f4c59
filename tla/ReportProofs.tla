---------------------------- MODULE ReportProofs ----------------------------
(***************************************************************************)
(* Proofs about what reaches the user: log messages through the sinks       *)
(* (LogSinks), and errors through the report of their chain (ErrorChain).   *)
(***************************************************************************)
EXTENDS LogSinks, ErrorChain, SequenceTheorems, FiniteSetTheorems,
        WellFoundedInduction, TLAPS

-----------------------------------------------------------------------------
(***************************************************************************)
(* The sinks.  For any number of threads, any sinks and any operations on   *)
(* them, a message goes once to exactly the sinks that admit it, and no     *)
(* line is torn.                                                            *)
(***************************************************************************)

Places == {"idle", "check", "lock", "write"}

Messages == [level : LogLevels, types : SUBSET SinkTypes]

Agendas == [messages : Seq(Messages), sinks : Seq(SinkInfos)]

Posts == [sinks : SUBSET Nat, steady : BOOLEAN]

SinkShapes ==
    /\ sinks \in Seq(SinkInfos)
    /\ holder \in Seq(Threads \cup {NoThread}) /\ Len(holder) = Len(sinks)
    /\ lines \in Seq(Seq(Threads \X Nat)) /\ Len(lines) = Len(sinks)
    /\ step \in [Threads -> Places]
    /\ at \in [Threads -> Nat]
    /\ agenda \in [Threads -> Agendas]
    /\ posts \in [Threads -> Seq(Posts)]

\* A thread adds at most one sink; one with the shared lock has a message on its
\* way, to a sink there is or past the last.
OnWay ==
    \A t \in Threads :
        /\ Len(agenda[t].sinks) <= 1
        /\ step[t] # "idle" =>
              /\ posts[t] # <<>> /\ agenda[t].messages # <<>>
              /\ at[t] \in 1 .. Len(sinks) + 1
        /\ step[t] \in {"lock", "write"} => at[t] <= Len(sinks)

\* The lock of a sink is held by the thread that writes to it.
HolderWrites ==
    \A i \in DOMAIN sinks : \A t \in Threads :
        holder[i] = t <=> step[t] = "write" /\ at[t] = i

\* The lines of a sink whose lock is free are whole; of one that is held the last
\* line is the holder's, as it begins.
LastLine ==
    \A i \in DOMAIN sinks :
        /\ Len(lines[i]) % 2 = 0 <=> holder[i] = NoThread
        /\ holder[i] # NoThread => lines[i][Len(lines[i])] = <<holder[i], Len(posts[holder[i]])>>

\* A thread's message has been put where it has passed, and nowhere else yet.
PutBehind ==
    \A i \in DOMAIN sinks : \A k \in DOMAIN lines[i] : \A t \in Threads :
        lines[i][k][1] = t =>
            /\ lines[i][k][2] <= Len(posts[t])
            /\ (lines[i][k][2] = Len(posts[t]) /\ step[t] # "idle") =>
                  i < at[t] \/ (i = at[t] /\ step[t] = "write")

Whole(s) == \A k \in 1 .. Len(s) \div 2 : s[2 * k] = s[2 * k - 1]

\* Of one thread, a line is of a later message than those before it, or the other
\* half of the one right before it.
Ordered(s) ==
    \A j, k \in DOMAIN s :
        (j < k /\ s[j][1] = s[k][1]) =>
            s[j][2] < s[k][2] \/ (s[j] = s[k] /\ j % 2 = 1 /\ k = j + 1)

InOrder == \A i \in DOMAIN lines : Ordered(lines[i])

\* The sinks that have been given anything of a message.
Given == [t \in Threads |-> [n \in DOMAIN posts[t] |->
             {i \in DOMAIN lines : <<t, n>> \in ToSet(lines[i])}]]

\* The sinks that would admit the message of each thread now.
Admitted == [t \in Threads |-> {i \in DOMAIN sinks : isLoggable(sinks[i], Current(t))}]

\* The sinks the message of each thread has reached.
Behind == [t \in Threads |-> {i \in DOMAIN sinks :
              step[t] = "idle" \/ i < at[t] \/ (i = at[t] /\ step[t] = "write")}]

\* As long as the global level stays, a message on its way has been given to the
\* sinks that admitted it as far as it has come, and they still do.
GivenSoFar ==
    \A t \in Threads : \A n \in DOMAIN posts[t] :
        posts[t][n].steady =>
            /\ n < Len(posts[t]) \/ step[t] = "idle" => Given[t][n] = posts[t][n].sinks
            /\ n = Len(posts[t]) /\ step[t] # "idle" =>
                  /\ Given[t][n] = posts[t][n].sinks \cap Behind[t]
                  /\ posts[t][n].sinks = Admitted[t]
                  /\ step[t] \in {"lock", "write"} => at[t] \in Admitted[t]

SinkIInv ==
    /\ SinkShapes /\ OnWay /\ HolderWrites /\ LastLine /\ LinesWhole
    /\ PutBehind /\ InOrder /\ GivenSoFar

-----------------------------------------------------------------------------
(* The lines of one sink.                                                   *)

LEMMA OneMore ==
    ASSUME NEW S, NEW s \in Seq(S), NEW x \in S, NEW a, a = Append(s, x)
    PROVE  /\ a \in Seq(S) /\ Len(s) \in Nat /\ Len(a) = Len(s) + 1
           /\ DOMAIN s = 1 .. Len(s) /\ DOMAIN a = 1 .. Len(s) + 1
           /\ \A k \in 1 .. Len(s) : a[k] = s[k]
           /\ a[Len(s) + 1] = x
           /\ ToSet(a) = ToSet(s) \cup {x}
<1>1. /\ a \in Seq(S) /\ Len(a) = Len(s) + 1 /\ DOMAIN a = 1 .. Len(s) + 1
      /\ \A i \in 1 .. Len(s) : a[i] = s[i]
      /\ a[Len(s) + 1] = x
      /\ DOMAIN s = 1 .. Len(s) /\ Len(s) \in Nat
  OBVIOUS
<1>2. ToSet(a) = ToSet(s) \cup {x}
  <2>1. \A i \in 1 .. Len(s) + 1 : i = Len(s) + 1 \/ i \in 1 .. Len(s)
    BY <1>1
  <2>2. Len(s) + 1 \in 1 .. Len(s) + 1 /\ \A i \in 1 .. Len(s) : i \in 1 .. Len(s) + 1
    BY <1>1
  <2> QED
    BY <1>1, <2>1, <2>2 DEF ToSet
<1> QED
  BY <1>1, <1>2

LEMMA FunctionSeq ==
    ASSUME NEW S, NEW n \in Nat, NEW f \in [1 .. n -> S]
    PROVE  f \in Seq(S) /\ Len(f) = n
OBVIOUS

LEMMA Parity ==
    ASSUME NEW n \in Nat
    PROVE  /\ (n + 1) % 2 = 0 <=> n % 2 # 0
           /\ n % 2 # 0 <=> n % 2 = 1
           /\ n % 2 = 0 => (n + 1) \div 2 = n \div 2
           /\ n % 2 = 1 => (n + 1) \div 2 = n \div 2 + 1 /\ 2 * ((n + 1) \div 2) = n + 1
           /\ \A k \in 1 .. n \div 2 : 2 * k \in 1 .. n /\ 2 * k - 1 \in 1 .. n
OBVIOUS

LEMMA Before ==
    ASSUME NEW n \in Nat, NEW j \in 1 .. n + 1
    PROVE  /\ j \in Nat
           /\ j # n + 1 => j \in 1 .. n
           /\ \A k \in 1 .. n + 1 : j < k => j \in 1 .. n
OBVIOUS

LEMMA BeforeLast ==
    ASSUME NEW n \in Nat, NEW j \in 1 .. n
    PROVE  j \in Nat /\ n \in 1 .. n /\ (j # n => j < n)
OBVIOUS

LEMMA OddLast ==
    ASSUME NEW S, NEW s \in Seq(S), Len(s) % 2 # 0
    PROVE  Len(s) \in DOMAIN s
<1>1. DOMAIN s = 1 .. Len(s) /\ Len(s) \in Nat
  OBVIOUS
<1>2. Len(s) # 0
  OBVIOUS
<1> QED
  BY <1>1, <1>2

LEMMA OneAdded ==
    ASSUME NEW S, NEW s \in Seq(S), NEW r \in Seq(S), Len(r) <= 1, r # <<>>
    PROVE  /\ s \o r \in Seq(S) /\ Len(s) \in Nat /\ Len(s \o r) = Len(s) + 1
           /\ DOMAIN s = 1 .. Len(s) /\ DOMAIN (s \o r) = 1 .. Len(s) + 1
<1>1. Len(r) = 1
  <2>1. Len(r) \in Nat \ {0}
    BY EmptySeq
  <2>2. \A n \in Nat \ {0} : n <= 1 => n = 1
    OBVIOUS
  <2> QED
    BY <2>1, <2>2, Zenon
<1>2. s \o r \in Seq(S) /\ Len(s) \in Nat /\ Len(s \o r) = Len(s) + Len(r)
  OBVIOUS
<1> QED
  BY <1>1, <1>2

\* A line that begins after whole lines, or is the other half of the last.
LEMMA WholeGrows ==
    ASSUME NEW S, NEW s \in Seq(S), NEW x \in S, NEW a, a = Append(s, x),
           Whole(s), Len(s) % 2 = 0 \/ s[Len(s)] = x
    PROVE  Whole(a)
<1> DEFINE n == Len(s)
<1>1. /\ Len(a) = n + 1 /\ n \in Nat
      /\ \A k \in 1 .. n : a[k] = s[k]
      /\ a[n + 1] = x
  BY OneMore
<1>2. \A k \in 1 .. n \div 2 : a[2 * k] = a[2 * k - 1]
  BY <1>1, Parity DEF Whole
<1>3. CASE n % 2 = 0
  BY <1>1, <1>2, <1>3, Parity DEF Whole
<1>4. CASE n % 2 = 1
  <2>1. s[n] = x /\ n \in 1 .. n
    BY <1>1, <1>4
  <2>2. a[n + 1] = a[n]
    BY <1>1, <2>1
  <2>3. (n + 1) \div 2 = n \div 2 + 1 /\ 2 * (n \div 2 + 1) = n + 1 /\ n \div 2 \in Nat
    BY <1>1, <1>4
  <2> SUFFICES ASSUME NEW k \in 1 .. n \div 2 + 1
               PROVE  a[2 * k] = a[2 * k - 1]
    BY <1>1, <2>3 DEF Whole
  <2>4. CASE k = n \div 2 + 1
    <3>1. 2 * k = n + 1 /\ 2 * k - 1 = n
      BY <1>1, <2>3, <2>4
    <3> QED
      BY <2>2, <3>1
  <2>5. CASE k # n \div 2 + 1
    <3>1. k \in 1 .. n \div 2
      BY <2>3, <2>5, Before
    <3> QED
      BY <1>2, <3>1
  <2> QED
    BY <2>4, <2>5
<1> QED
  BY <1>1, <1>3, <1>4, Parity

\* One thread's line after lines in order: as it begins, with a number of its
\* own, or the other half of the last.
LEMMA OrderGrows ==
    ASSUME NEW S, NEW s \in Seq(S), NEW x \in S, NEW a, a = Append(s, x),
           Ordered(s), x[2] \in Nat, \A j \in DOMAIN s : s[j][2] \in Nat,
           \/ Len(s) % 2 = 0 /\ \A j \in DOMAIN s : s[j][1] = x[1] => s[j][2] < x[2]
           \/ Len(s) % 2 = 1 /\ s[Len(s)] = x
    PROVE  Ordered(a)
<1>1. /\ Len(s) \in Nat /\ DOMAIN s = 1 .. Len(s) /\ DOMAIN a = 1 .. Len(s) + 1
      /\ \A k \in 1 .. Len(s) : a[k] = s[k]
      /\ a[Len(s) + 1] = x
  BY OneMore
<1>2. ASSUME NEW j \in 1 .. Len(s), s[j][1] = x[1]
      PROVE  s[j][2] < x[2] \/ (s[j] = x /\ j % 2 = 1 /\ j = Len(s))
  <2>1. CASE Len(s) % 2 = 0 /\ \A i \in DOMAIN s : s[i][1] = x[1] => s[i][2] < x[2]
    BY <1>1, <1>2, <2>1
  <2>2. CASE Len(s) % 2 = 1 /\ s[Len(s)] = x /\ j = Len(s)
    BY <2>2
  <2>3. CASE Len(s) % 2 = 1 /\ s[Len(s)] = x /\ j # Len(s)
    <3>1. j < Len(s) /\ Len(s) \in 1 .. Len(s) /\ j \in Nat
      BY <1>1, <2>3, BeforeLast
    <3>2. ~ (j % 2 = 1 /\ Len(s) = j + 1)
      BY <2>3, <3>1, Parity
    <3>3. s[j][2] < s[Len(s)][2] \/ (s[j] = s[Len(s)] /\ j % 2 = 1 /\ Len(s) = j + 1)
      BY <1>1, <1>2, <2>3, <3>1 DEF Ordered
    <3> QED
      BY <2>3, <3>2, <3>3
  <2> QED
    BY <2>1, <2>2, <2>3
<1> SUFFICES ASSUME NEW j \in 1 .. Len(s) + 1, NEW k \in 1 .. Len(s) + 1,
                    j < k, a[j][1] = a[k][1]
             PROVE  a[j][2] < a[k][2] \/ (a[j] = a[k] /\ j % 2 = 1 /\ k = j + 1)
  BY <1>1 DEF Ordered
<1>3. j \in 1 .. Len(s) /\ a[j] = s[j]
  BY <1>1, Before
<1>4. CASE k # Len(s) + 1
  <2>1. k \in 1 .. Len(s) /\ a[k] = s[k]
    BY <1>1, <1>4, Before
  <2> QED
    BY <1>1, <1>3, <2>1 DEF Ordered
<1>5. CASE k = Len(s) + 1
  <2>1. a[k] = x
    BY <1>1, <1>5
  <2>2. s[j][2] < x[2] \/ (s[j] = x /\ j % 2 = 1 /\ j = Len(s))
    BY <1>2, <1>3, <2>1
  <2> QED
    BY <1>3, <1>5, <2>1, <2>2
<1> QED
  BY <1>4, <1>5

-----------------------------------------------------------------------------
(* Steps that put no line.                                                  *)

LEMMA AtFirst ==
    ASSUME LogInit
    PROVE  SinkIInv
<1> USE DEF LogInit
<1>1. /\ sinks \in Seq(SinkInfos) /\ DOMAIN sinks = 1 .. Len(sinks) /\ Len(sinks) \in Nat
      /\ holder = [i \in 1 .. Len(sinks) |-> NoThread] /\ lines = [i \in 1 .. Len(sinks) |-> <<>>]
  BY SinkAssumption
<1>2. /\ holder \in Seq(Threads \cup {NoThread}) /\ Len(holder) = Len(sinks)
      /\ lines \in Seq(Seq(Threads \X Nat)) /\ Len(lines) = Len(sinks)
  BY <1>1
<1>3. NoAgenda \in Agendas /\ Len(NoAgenda.sinks) = 0
  BY DEF NoAgenda, Agendas
<1>4. SinkShapes
  BY <1>1, <1>2, <1>3 DEF SinkShapes, Places
<1>5. OnWay /\ HolderWrites
  BY <1>1, <1>3, SinkAssumption DEF OnWay, HolderWrites
<1>6. LastLine /\ LinesWhole /\ PutBehind /\ InOrder
  BY <1>1 DEF LastLine, LinesWhole, PutBehind, InOrder, Ordered
<1>7. GivenSoFar
  BY DEF GivenSoFar
<1> QED
  BY <1>4, <1>5, <1>6, <1>7 DEF SinkIInv

\* A step that leaves the lines: no thread goes back on its way, and one that
\* begins has a new message.
LEMMA SameLines ==
    ASSUME SinkIInv, UNCHANGED <<holder, lines>>, DOMAIN sinks' = DOMAIN sinks,
           \A t \in Threads :
               /\ step'[t] = "write" <=> step[t] = "write"
               /\ step[t] = "write" => at'[t] = at[t] /\ Len(posts'[t]) = Len(posts[t])
               /\ Len(posts'[t]) \in Nat
               /\ \/ Len(posts'[t]) > Len(posts[t])
                  \/ /\ Len(posts'[t]) = Len(posts[t])
                     /\ step'[t] # "idle" => step[t] # "idle" /\ at'[t] \in Nat /\ at'[t] >= at[t]
    PROVE  HolderWrites' /\ LastLine' /\ LinesWhole' /\ PutBehind' /\ InOrder'
<1> USE DEF SinkIInv
<1>1. HolderWrites'
  BY DEF HolderWrites
<1>2. LastLine'
  <2> SUFFICES ASSUME NEW i \in DOMAIN sinks
               PROVE  /\ Len(lines[i]) % 2 = 0 <=> holder[i] = NoThread
                      /\ holder[i] # NoThread =>
                            lines[i][Len(lines[i])] = <<holder[i], Len(posts'[holder[i]])>>
    BY DEF LastLine
  <2>1. CASE holder[i] = NoThread
    BY <2>1 DEF LastLine
  <2>2. CASE holder[i] # NoThread
    <3>1. holder[i] \in Threads
      BY <2>2 DEF SinkShapes
    <3>2. step[holder[i]] = "write"
      BY <3>1 DEF HolderWrites
    <3> QED
      BY <2>2, <3>1, <3>2 DEF LastLine
  <2> QED
    BY <2>1, <2>2
<1>3. LinesWhole'
  BY DEF LinesWhole
<1>4. PutBehind'
  <2> SUFFICES ASSUME NEW i \in DOMAIN sinks, NEW k \in DOMAIN lines[i], NEW t \in Threads,
                      lines[i][k][1] = t
               PROVE  /\ lines[i][k][2] <= Len(posts'[t])
                      /\ (lines[i][k][2] = Len(posts'[t]) /\ step'[t] # "idle") =>
                            i < at'[t] \/ (i = at'[t] /\ step'[t] = "write")
    BY DEF PutBehind
  <2>1. /\ lines[i][k][2] <= Len(posts[t])
        /\ (lines[i][k][2] = Len(posts[t]) /\ step[t] # "idle") =>
              i < at[t] \/ (i = at[t] /\ step[t] = "write")
    BY DEF PutBehind
  <2>2. /\ lines[i][k][2] \in Nat /\ Len(posts[t]) \in Nat /\ at[t] \in Nat /\ i \in Nat
    BY DEF SinkShapes
  <2> QED
    BY <2>1, <2>2
<1>5. InOrder'
  BY DEF InOrder
<1> QED
  BY <1>1, <1>2, <1>3, <1>4, <1>5

\* An operation is taken up by a thread that has nothing on its way.
LEMMA TakesUpKeeps ==
    ASSUME SinkIInv, NEW t \in Threads, agenda[t] = NoAgenda,
           UNCHANGED <<sinks, holder, lines, level, step, at, posts>>,
           agenda' \in [Threads -> Agendas], Len(agenda'[t].sinks) <= 1,
           \A u \in Threads \ {t} : agenda'[u] = agenda[u]
    PROVE  SinkIInv'
<1> USE DEF SinkIInv
<1>1. \A u \in Threads : step[u] # "idle" => u # t
  BY DEF OnWay, NoAgenda
<1>2. SinkShapes'
  BY DEF SinkShapes
<1>3. OnWay'
  BY <1>1 DEF OnWay
<1>4. HolderWrites' /\ LastLine' /\ LinesWhole' /\ PutBehind' /\ InOrder'
  BY SameLines DEF SinkShapes, OnWay
<1>5. Given' = Given /\ Behind' = Behind
  BY DEF Given, Behind
<1>6. \A u \in Threads : step[u] # "idle" => Admitted'[u] = Admitted[u]
  BY <1>1 DEF Admitted, isLoggable, Current
<1>7. GivenSoFar'
  <2> SUFFICES ASSUME NEW u \in Threads, NEW n \in DOMAIN posts[u], posts[u][n].steady
               PROVE  /\ n < Len(posts[u]) \/ step[u] = "idle" => Given[u][n] = posts[u][n].sinks
                      /\ n = Len(posts[u]) /\ step[u] # "idle" =>
                            /\ Given[u][n] = posts[u][n].sinks \cap Behind[u]
                            /\ posts[u][n].sinks = Admitted'[u]
                            /\ step[u] \in {"lock", "write"} => at[u] \in Admitted'[u]
    BY <1>5 DEF GivenSoFar
  <2> QED
    BY <1>6 DEF GivenSoFar
<1> QED
  BY <1>2, <1>3, <1>4, <1>7

LEMMA OperationsKeep ==
    ASSUME SinkIInv, NEW t \in Threads, LogAt(t) \/ LogWithTag(t) \/ Output(t) \/ AddSink(t)
    PROVE  SinkIInv'
<1>1. \E messages \in Seq(Messages), added \in Seq(SinkInfos) :
          Len(added) <= 1 /\ TakesUp(t, messages, added)
  <2>1. /\ <<>> \in Seq(SinkInfos) /\ Len(<<>>) <= 1 /\ <<>> \in Seq(Messages)
        /\ \A info \in SinkInfos : <<info>> \in Seq(SinkInfos) /\ Len(<<info>>) <= 1
        /\ \A message \in Messages : <<message>> \in Seq(Messages)
    OBVIOUS
  <2>2. \A lev \in Levels \cup {Debug} : \A types \in SUBSET SinkTypes :
            Message(lev, types) \in Messages
    BY SinkAssumption DEF Message, Messages, Debug, LogLevels
  <2>3. CASE LogAt(t)
    <3>1. PICK lev \in Levels : TakesUp(t, <<Message(lev, SinkTypes)>>, <<>>)
      BY <2>3 DEF LogAt
    <3>2. <<Message(lev, SinkTypes)>> \in Seq(Messages)
      BY <2>1, <2>2
    <3> QED
      BY <2>1, <3>1, <3>2, Zenon
  <2>4. CASE LogWithTag(t)
    <3>1. PICK lev \in Levels, type \in SinkTypes : TakesUp(t, <<Message(lev, {type})>>, <<>>)
      BY <2>4 DEF LogWithTag
    <3>2. <<Message(lev, {type})>> \in Seq(Messages)
      BY <2>1, <2>2
    <3> QED
      BY <2>1, <3>1, <3>2, Zenon
  <2>5. CASE Output(t)
    <3>1. PICK chain \in Reports :
              TakesUp(t, [i \in DOMAIN chain |-> Message(chain[i], SinkTypes)], <<>>)
      BY <2>5 DEF Output
    <3>2. chain \in Seq(Levels) /\ DOMAIN chain = 1 .. Len(chain) /\ Len(chain) \in Nat
      BY SinkAssumption
    <3>3. \A i \in 1 .. Len(chain) : Message(chain[i], SinkTypes) \in Messages
      BY <2>2, <3>2
    <3>4. [i \in DOMAIN chain |-> Message(chain[i], SinkTypes)] \in Seq(Messages)
      BY <3>2, <3>3
    <3> QED
      BY <2>1, <3>1, <3>4, Zenon
  <2>6. CASE AddSink(t)
    <3>1. PICK info \in MoreSinks : \/ TakesUp(t, <<>>, <<info>>)
                                    \/ TakesUp(t, <<Message(Debug, SinkTypes)>>, <<info>>)
      BY <2>6 DEF AddSink
    <3>2. <<Message(Debug, SinkTypes)>> \in Seq(Messages) /\ info \in SinkInfos
      BY <2>1, <2>2, SinkAssumption
    <3> QED
      BY <2>1, <3>1, <3>2, Zenon
  <2> QED
    BY <2>3, <2>4, <2>5, <2>6
<1>2. PICK messages \in Seq(Messages), added \in Seq(SinkInfos) :
          Len(added) <= 1 /\ TakesUp(t, messages, added)
  BY <1>1
<1>3. /\ UNCHANGED <<sinks, holder, lines, level, step, at, posts>> /\ agenda[t] = NoAgenda
      /\ agenda' = [agenda EXCEPT ![t] = [messages |-> messages, sinks |-> added]]
  BY <1>2 DEF TakesUp, MayBegin, sinkVars
<1>4. /\ agenda' \in [Threads -> Agendas] /\ agenda'[t].sinks = added
      /\ \A u \in Threads \ {t} : agenda'[u] = agenda[u]
  <2>1. [messages |-> messages, sinks |-> added] \in Agendas
    BY DEF Agendas
  <2>2. agenda \in [Threads -> Agendas]
    BY DEF SinkIInv, SinkShapes
  <2> QED
    BY <1>3, <2>1, <2>2
<1> QED
  BY <1>2, <1>3, <1>4, TakesUpKeeps

LEMMA SetSinkLevelsKeeps ==
    ASSUME SinkIInv, NEW t \in Threads, SetSinkLevels(t)
    PROVE  SinkIInv'
<1> USE DEF SinkIInv, SinkShapes
<1>1. UNCHANGED <<holder, lines, level, step, at, agenda, posts>> /\ Alone
  BY DEF SetSinkLevels
<1>2. sinks' \in Seq(SinkInfos) /\ Len(sinks') = Len(sinks)
  <2>1. DOMAIN sinks = 1 .. Len(sinks) /\ Len(sinks) \in Nat
        /\ \A i \in 1 .. Len(sinks) : sinks[i] \in SinkInfos
    OBVIOUS
  <2>2. \A info \in SinkInfos, lev \in LogLevels :
            [info EXCEPT !.level = lev] \in SinkInfos /\ [info EXCEPT !.maxLevel = lev] \in SinkInfos
    BY DEF SinkInfos
  <2>3. NewLevels \subseteq LogLevels
    BY SinkAssumption
  <2> HIDE DEF SinkIInv, SinkShapes
  <2>4. sinks' \in [1 .. Len(sinks) -> SinkInfos]
    <3>1. PICK type \in SinkTypes, lev \in NewLevels :
             \/ sinks' = [i \in DOMAIN sinks |-> IF sinks[i].type = type
                                                 THEN [sinks[i] EXCEPT !.level = lev] ELSE sinks[i]]
             \/ sinks' = [i \in DOMAIN sinks |-> IF sinks[i].type = type
                                                 THEN [sinks[i] EXCEPT !.maxLevel = lev] ELSE sinks[i]]
      BY DEF SetSinkLevels
    <3>2. \A i \in 1 .. Len(sinks) : /\ [sinks[i] EXCEPT !.level = lev] \in SinkInfos
                                     /\ [sinks[i] EXCEPT !.maxLevel = lev] \in SinkInfos
      BY <2>1, <2>2, <2>3
    <3> QED
      BY <2>1, <3>1, <3>2
  <2> QED
    BY <2>1, <2>4, FunctionSeq
<1>3. DOMAIN sinks' = DOMAIN sinks /\ DOMAIN sinks = 1 .. Len(sinks)
  BY <1>2
<1>4. SinkShapes'
  BY <1>1, <1>2
<1>5. HolderWrites' /\ LastLine' /\ LinesWhole' /\ PutBehind' /\ InOrder'
  BY <1>1, <1>3, SameLines
<1>7. OnWay'
  BY <1>1, <1>2 DEF OnWay
<1>6. GivenSoFar'
  <2>1. Given' = Given
    BY <1>1 DEF Given
  <2> QED
    BY <1>1, <2>1 DEF GivenSoFar, Alone
<1> QED
  BY <1>4, <1>5, <1>6, <1>7

LEMMA SetLogLevelKeeps ==
    ASSUME SinkIInv, NEW t \in Threads, SetLogLevel(t)
    PROVE  SinkIInv'
<1> USE DEF SinkIInv
<1>1. UNCHANGED <<sinks, holder, lines, step, at, agenda>>
  BY DEF SetLogLevel, sinkVars
<1>2. ASSUME NEW u \in Threads
      PROVE  /\ posts'[u] \in Seq(Posts) /\ Len(posts'[u]) = Len(posts[u])
             /\ DOMAIN posts'[u] = DOMAIN posts[u] /\ Len(posts[u]) \in Nat
             /\ \A n \in DOMAIN posts[u] :
                    /\ posts'[u][n].sinks = posts[u][n].sinks
                    /\ posts'[u][n].steady =>
                          posts[u][n].steady /\ (n # Len(posts[u]) \/ step[u] = "idle")
  <2>1. posts[u] \in Seq(Posts)
    BY DEF SinkShapes
  <2>2. CASE step[u] = "idle"
    BY <2>1, <2>2 DEF SetLogLevel
  <2>3. CASE step[u] # "idle"
    <3>1. posts'[u] = [posts[u] EXCEPT ![Len(posts[u])].steady = FALSE]
      BY <2>3 DEF SetLogLevel
    <3>2. Len(posts[u]) \in DOMAIN posts[u] /\ DOMAIN posts[u] = 1 .. Len(posts[u])
      BY <2>1, <2>3 DEF OnWay
    <3>3. \A n \in DOMAIN posts[u] : posts[u][n] \in Posts
      BY <2>1
    <3>4. \A n \in DOMAIN posts[u] :
              posts'[u][n] = IF n = Len(posts[u]) THEN [posts[u][n] EXCEPT !.steady = FALSE]
                             ELSE posts[u][n]
      BY <3>1, <3>2
    <3>5. \A post \in Posts : /\ [post EXCEPT !.steady = FALSE] \in Posts
                              /\ [post EXCEPT !.steady = FALSE].sinks = post.sinks
                              /\ [post EXCEPT !.steady = FALSE].steady = FALSE
      BY DEF Posts
    <3>6. posts'[u] \in [1 .. Len(posts[u]) -> Posts] /\ Len(posts[u]) \in Nat
      BY <2>1, <3>1, <3>2, <3>3, <3>4, <3>5
    <3>7. /\ posts'[u] \in Seq(Posts) /\ Len(posts'[u]) = Len(posts[u])
          /\ DOMAIN posts'[u] = DOMAIN posts[u]
      <4> DEFINE f == posts'[u]
                 n == Len(posts[u])
      <4>1. f \in [1 .. n -> Posts] /\ n \in Nat /\ DOMAIN posts[u] = 1 .. n
        BY <3>2, <3>6
      <4> HIDE DEF f, n
      <4>2. f \in Seq(Posts) /\ Len(f) = n /\ DOMAIN f = 1 .. n
        BY <4>1, FunctionSeq
      <4> QED
        BY <4>1, <4>2 DEF f, n
    <3>8. \A n \in DOMAIN posts[u] :
              /\ posts'[u][n].sinks = posts[u][n].sinks
              /\ posts'[u][n].steady => posts[u][n].steady /\ n # Len(posts[u])
      BY <3>3, <3>4, <3>5
    <3> QED
      BY <3>6, <3>7, <3>8
  <2> QED
    BY <2>2, <2>3
<1>3. SinkShapes'
  <2>1. posts' \in [Threads -> Seq(Posts)]
    BY <1>2 DEF SetLogLevel
  <2> QED
    BY <1>1, <2>1 DEF SinkShapes
<1>4. OnWay'
  <2>1. \A u \in Threads : posts[u] # <<>> => posts'[u] # <<>>
    BY <1>2 DEF SinkShapes
  <2> QED
    BY <1>1, <2>1 DEF OnWay
<1>5. HolderWrites' /\ LastLine' /\ LinesWhole' /\ PutBehind' /\ InOrder'
  BY <1>1, <1>2, SameLines DEF SinkShapes
<1>6. GivenSoFar'
  <2>1. \A u \in Threads : \A n \in DOMAIN posts[u] : Given'[u][n] = Given[u][n]
    BY <1>1, <1>2 DEF Given
  <2>2. ASSUME NEW u \in Threads, NEW n \in DOMAIN posts[u], posts'[u][n].steady
        PROVE  /\ n < Len(posts[u]) \/ step[u] = "idle" => Given[u][n] = posts[u][n].sinks
               /\ ~ (n = Len(posts[u]) /\ step[u] # "idle")
    BY <1>2, <2>2 DEF GivenSoFar
  <2> QED
    BY <1>1, <1>2, <2>1, <2>2 DEF GivenSoFar
<1> QED
  BY <1>3, <1>4, <1>5, <1>6

\* A step of one thread that leaves the sinks and the global level, as another
\* thread sees it.
LEMMA OthersGiven ==
    ASSUME SinkIInv, NEW t \in Threads, UNCHANGED <<sinks, level>>,
           DOMAIN lines' = DOMAIN lines,
           \A i \in DOMAIN lines : \A u \in Threads \ {t} : \A n \in Nat :
               <<u, n>> \in ToSet(lines'[i]) <=> <<u, n>> \in ToSet(lines[i]),
           \A u \in Threads \ {t} :
               /\ step'[u] = step[u] /\ at'[u] = at[u] /\ agenda'[u] = agenda[u]
               /\ posts'[u] = posts[u],
           \A n \in DOMAIN posts'[t] : posts'[t][n].steady =>
               /\ n < Len(posts'[t]) \/ step'[t] = "idle" => Given'[t][n] = posts'[t][n].sinks
               /\ n = Len(posts'[t]) /\ step'[t] # "idle" =>
                     /\ Given'[t][n] = posts'[t][n].sinks \cap Behind'[t]
                     /\ posts'[t][n].sinks = Admitted'[t]
                     /\ step'[t] \in {"lock", "write"} => at'[t] \in Admitted'[t]
    PROVE  GivenSoFar'
<1> SUFFICES ASSUME NEW u \in Threads \ {t}, NEW n \in DOMAIN posts[u], posts[u][n].steady
             PROVE  /\ n < Len(posts[u]) \/ step[u] = "idle" => Given'[u][n] = posts[u][n].sinks
                    /\ n = Len(posts[u]) /\ step[u] # "idle" =>
                          /\ Given'[u][n] = posts[u][n].sinks \cap Behind'[u]
                          /\ posts[u][n].sinks = Admitted'[u]
                          /\ step[u] \in {"lock", "write"} => at[u] \in Admitted'[u]
  BY DEF GivenSoFar
<1>1. Given'[u][n] = Given[u][n]
  <2>1. n \in Nat /\ n \in DOMAIN posts'[u]
    BY DEF SinkIInv, SinkShapes
  <2> QED
    BY <2>1 DEF Given
<1>3. Behind'[u] = Behind[u]
  BY DEF Behind
<1>2. Admitted'[u] = Admitted[u]
  BY DEF Admitted, isLoggable, Current
<1> QED
  BY <1>1, <1>2, <1>3 DEF SinkIInv, GivenSoFar

LEMMA ShareKeeps ==
    ASSUME SinkIInv, NEW t \in Threads, Share(t)
    PROVE  SinkIInv'
<1> USE DEF SinkIInv
<1> DEFINE post == [sinks |-> {i \in DOMAIN sinks : isLoggable(sinks[i], Current(t))},
                    steady |-> TRUE]
           N == Len(posts[t])
<1>1. /\ UNCHANGED <<sinks, holder, lines, level, agenda>>
      /\ step[t] = "idle" /\ agenda[t].messages # <<>>
      /\ step' = [step EXCEPT ![t] = "check"] /\ at' = [at EXCEPT ![t] = 1]
      /\ posts' = [posts EXCEPT ![t] = Append(posts[t], post)]
  BY DEF Share, sinkVars
<1>2. post \in Posts /\ post.sinks = Admitted[t] /\ post.steady
  BY DEF Posts, Admitted, SinkShapes
<1> HIDE DEF post
<1>3. /\ posts'[t] = Append(posts[t], post) /\ posts[t] \in Seq(Posts) /\ N \in Nat
      /\ \A u \in Threads \ {t} : posts'[u] = posts[u]
  BY <1>1 DEF SinkShapes
<1>4. /\ posts'[t] \in Seq(Posts) /\ Len(posts'[t]) = N + 1
      /\ DOMAIN posts[t] = 1 .. N /\ DOMAIN posts'[t] = 1 .. N + 1
      /\ \A n \in 1 .. N : posts'[t][n] = posts[t][n]
      /\ posts'[t][N + 1] = post
  BY <1>2, <1>3, OneMore
<1>5. SinkShapes'
  <2>1. posts' \in [Threads -> Seq(Posts)]
    BY <1>1, <1>3, <1>4 DEF SinkShapes
  <2> QED
    BY <1>1, <2>1 DEF SinkShapes, Places
<1>6. OnWay'
  <2>1. posts'[t] # <<>>
    BY <1>3, <1>4
  <2>2. Len(sinks) \in Nat
    BY DEF SinkShapes
  <2> QED
    BY <1>1, <1>3, <2>1, <2>2 DEF OnWay, SinkShapes
<1>7. HolderWrites' /\ LastLine' /\ LinesWhole' /\ PutBehind' /\ InOrder'
  BY <1>1, <1>3, <1>4, SameLines DEF SinkShapes
<1>8. GivenSoFar'
  <2>1. ASSUME NEW n \in 1 .. N
        PROVE  n < N + 1 /\ Given'[t][n] = Given[t][n]
    BY <1>1, <1>3, <1>4 DEF Given
  <2>2. Given'[t][N + 1] = {} /\ Behind'[t] = {}
    <3>1. \A i \in DOMAIN lines : <<t, N + 1>> \notin ToSet(lines[i])
      <4> SUFFICES ASSUME NEW i \in DOMAIN lines, NEW k \in DOMAIN lines[i],
                          lines[i][k] = <<t, N + 1>>
                   PROVE  FALSE
        BY DEF ToSet
      <4>1. i \in DOMAIN sinks
        BY DEF SinkShapes
      <4>2. lines[i][k][2] <= N
        BY <4>1 DEF PutBehind
      <4> QED
        BY <1>3, <4>2
    <3>2. N + 1 \in DOMAIN posts'[t]
      BY <1>3, <1>4
    <3>3. Given'[t][N + 1] = {}
      BY <1>1, <3>1, <3>2 DEF Given
    <3>4. step'[t] = "check" /\ at'[t] = 1 /\ \A i \in DOMAIN sinks : ~ (i < 1)
      BY <1>1 DEF SinkShapes
    <3>5. Behind'[t] = {}
      BY <1>1, <3>4 DEF Behind
    <3> QED
      BY <3>3, <3>5
  <2>3. Admitted'[t] = Admitted[t]
    BY <1>1 DEF Admitted, isLoggable, Current
  <2>4. \A n \in 1 .. N + 1 : n \in 1 .. N \/ n = N + 1
    BY <1>3
  <2>5. \A n \in 1 .. N : posts[t][n].steady => Given[t][n] = posts[t][n].sinks
    BY <1>1, <1>4 DEF GivenSoFar
  <2>6. step'[t] = "check" /\ \A u \in Threads \ {t} : step'[u] = step[u] /\ at'[u] = at[u]
    BY <1>1 DEF SinkShapes
  <2>7. \A n \in DOMAIN posts'[t] : posts'[t][n].steady =>
               /\ n < Len(posts'[t]) \/ step'[t] = "idle" => Given'[t][n] = posts'[t][n].sinks
               /\ n = Len(posts'[t]) /\ step'[t] # "idle" =>
                     /\ Given'[t][n] = posts'[t][n].sinks \cap Behind'[t]
                     /\ posts'[t][n].sinks = Admitted'[t]
                     /\ step'[t] \in {"lock", "write"} => at'[t] \in Admitted'[t]
    BY <1>2, <1>3, <1>4, <2>1, <2>2, <2>3, <2>4, <2>5, <2>6
  <2> QED
    BY <1>1, <1>3, <2>6, <2>7, OthersGiven
<1> QED
  BY <1>5, <1>6, <1>7, <1>8

LEMMA CheckKeeps ==
    ASSUME SinkIInv, NEW t \in Threads, Check(t)
    PROVE  SinkIInv'
<1> USE DEF SinkIInv
<1>1. /\ UNCHANGED <<sinks, holder, lines, level, agenda, posts>>
      /\ step[t] = "check" /\ at[t] \in 1 .. Len(sinks) /\ at[t] \in Nat /\ Len(sinks) \in Nat
      /\ DOMAIN sinks = 1 .. Len(sinks)
      /\ \/ /\ at[t] \in Admitted[t]
            /\ step' = [step EXCEPT ![t] = "lock"] /\ at' = at
         \/ /\ at[t] \notin Admitted[t]
            /\ step' = [step EXCEPT ![t] = "check"] /\ at' = [at EXCEPT ![t] = at[t] + 1]
  BY DEF Check, NextSink, sinkVars, SinkShapes, Admitted
<1>6. /\ step' \in [Threads -> Places] /\ at' \in [Threads -> Nat]
      /\ step'[t] \in {"lock", "check"} /\ at'[t] >= at[t]
      /\ \A u \in Threads \ {t} : step'[u] = step[u] /\ at'[u] = at[u]
  <2>1. step \in [Threads -> Places] /\ at \in [Threads -> Nat]
    BY DEF SinkShapes
  <2> QED
    BY <1>1, <2>1 DEF Places
<1>2. SinkShapes'
  BY <1>1, <1>6 DEF SinkShapes
<1>3. OnWay'
  BY <1>1 DEF OnWay, SinkShapes
<1>4. HolderWrites' /\ LastLine' /\ LinesWhole' /\ PutBehind' /\ InOrder'
  <2>1. \A u \in Threads : Len(posts[u]) \in Nat /\ at[u] \in Nat /\ at'[u] \in Nat
    BY <1>6 DEF SinkShapes
  <2> QED
    BY <1>1, <1>6, <2>1, SameLines
<1>5. GivenSoFar'
  <2>1. Given' = Given
    BY <1>1 DEF Given
  <2>2. Admitted' = Admitted
    BY <1>1 DEF Admitted, isLoggable, Current
  <2>3. Admitted[t] \cap Behind'[t] = Admitted[t] \cap Behind[t]
    <3> SUFFICES ASSUME NEW i \in Admitted[t]
                 PROVE  i \in Behind'[t] <=> i \in Behind[t]
      OBVIOUS
    <3>1. i \in DOMAIN sinks /\ i \in Nat
      BY <1>1 DEF Admitted
    <3> QED
      BY <1>1, <3>1 DEF Behind, SinkShapes
  <2>4. /\ step[t] # "idle" /\ step'[t] # "idle"
        /\ step'[t] \in {"lock", "write"} => at'[t] \in Admitted[t]
        /\ \A u \in Threads \ {t} : step'[u] = step[u] /\ at'[u] = at[u]
    BY <1>1 DEF SinkShapes
  <2>5. \A n \in DOMAIN posts[t] : posts[t][n].steady =>
            /\ n < Len(posts[t]) => Given[t][n] = posts[t][n].sinks
            /\ n = Len(posts[t]) => /\ Given[t][n] = posts[t][n].sinks \cap Behind[t]
                                   /\ posts[t][n].sinks = Admitted[t]
    BY <2>4 DEF GivenSoFar
  <2> QED
    BY <1>1, <2>1, <2>2, <2>3, <2>4, <2>5, OthersGiven
<1> QED
  BY <1>2, <1>3, <1>4, <1>5

LEMMA PassedKeeps ==
    ASSUME SinkIInv, NEW t \in Threads, Passed(t)
    PROVE  SinkIInv'
<1> USE DEF SinkIInv
<1>1. /\ UNCHANGED <<sinks, holder, lines, level, posts>>
      /\ step[t] = "check" /\ at[t] \notin DOMAIN sinks
      /\ step' = [step EXCEPT ![t] = "idle"] /\ at' = [at EXCEPT ![t] = 0]
      /\ agenda' = [agenda EXCEPT ![t].messages = Tail(@)]
  BY DEF Passed, sinkVars
<1>2. /\ agenda' \in [Threads -> Agendas] /\ agenda'[t].sinks = agenda[t].sinks
      /\ \A u \in Threads \ {t} : agenda'[u] = agenda[u]
  <2>1. agenda \in [Threads -> Agendas] /\ agenda[t].messages \in Seq(Messages)
        /\ agenda[t].messages # <<>>
    BY <1>1 DEF SinkShapes, Agendas, OnWay
  <2>2. Tail(agenda[t].messages) \in Seq(Messages)
    BY <2>1
  <2>3. [agenda[t] EXCEPT !.messages = Tail(@)] \in Agendas
    BY <2>1, <2>2 DEF Agendas
  <2> QED
    BY <1>1, <2>1, <2>3 DEF Agendas
<1>3. SinkShapes'
  BY <1>1, <1>2 DEF SinkShapes, Places
<1>4. OnWay'
  BY <1>1, <1>2 DEF OnWay, SinkShapes
<1>5. HolderWrites' /\ LastLine' /\ LinesWhole' /\ PutBehind' /\ InOrder'
  BY <1>1, SameLines DEF SinkShapes
<1>6. GivenSoFar'
  <2>1. Given' = Given
    BY <1>1 DEF Given
  <2>2. Admitted[t] \subseteq Behind[t]
    <3>1. /\ DOMAIN sinks = 1 .. Len(sinks) /\ Len(sinks) \in Nat
          /\ at[t] \in 1 .. Len(sinks) + 1
      BY <1>1 DEF OnWay, SinkShapes
    <3>2. at[t] = Len(sinks) + 1
      BY <1>1, <3>1
    <3>3. \A i \in DOMAIN sinks : i < at[t]
      BY <3>1, <3>2
    <3> QED
      BY <3>3 DEF Admitted, Behind
  <2>3. \A n \in DOMAIN posts[t] : posts[t][n].steady => Given[t][n] = posts[t][n].sinks
    <3> SUFFICES ASSUME NEW n \in DOMAIN posts[t], posts[t][n].steady
                 PROVE  Given[t][n] = posts[t][n].sinks
      OBVIOUS
    <3>1. n < Len(posts[t]) \/ n = Len(posts[t])
      BY DEF SinkShapes
    <3>2. CASE n < Len(posts[t])
      BY <3>2 DEF GivenSoFar
    <3>3. CASE n = Len(posts[t])
      <4>1. Given[t][n] = posts[t][n].sinks \cap Behind[t] /\ posts[t][n].sinks = Admitted[t]
        BY <1>1, <3>3 DEF GivenSoFar
      <4> QED
        BY <2>2, <4>1
    <3> QED
      BY <3>1, <3>2, <3>3
  <2>4. step'[t] = "idle" /\ \A u \in Threads \ {t} : step'[u] = step[u] /\ at'[u] = at[u]
    BY <1>1 DEF SinkShapes
  <2> QED
    BY <1>1, <1>2, <2>1, <2>3, <2>4, OthersGiven
<1> QED
  BY <1>3, <1>4, <1>5, <1>6

-----------------------------------------------------------------------------
(* Steps that put a line.                                                   *)

\* A line is added to those of one sink.
LineAdded(a, line) ==
    /\ lines' \in Seq(Seq(Threads \X Nat)) /\ DOMAIN lines' = DOMAIN lines
    /\ Len(lines') = Len(lines)
    /\ \A i \in DOMAIN lines \ {a} : lines'[i] = lines[i]
    /\ Len(lines[a]) \in Nat /\ Len(lines'[a]) = Len(lines[a]) + 1
    /\ DOMAIN lines'[a] = 1 .. Len(lines[a]) + 1 /\ DOMAIN lines[a] = 1 .. Len(lines[a])
    /\ \A k \in 1 .. Len(lines[a]) : lines'[a][k] = lines[a][k]
    /\ lines'[a][Len(lines[a]) + 1] = line
    /\ \A i \in DOMAIN lines : \A l : l \in ToSet(lines'[i]) <=>
            l \in ToSet(lines[i]) \/ (i = a /\ l = line)

\* The line a thread puts: as it begins, when nobody has the sink's lock, or the
\* other half of the last one.
LEMMA PutsGrow ==
    ASSUME SinkIInv, NEW t \in Threads, Puts(t), at[t] \in DOMAIN sinks,
           \/ holder[at[t]] = NoThread /\ step[t] = "lock"
           \/ holder[at[t]] = t,
           NEW a, a = at[t], NEW line, line = <<t, Len(posts[t])>>
    PROVE  LineAdded(a, line) /\ LinesWhole' /\ InOrder'
<1>1. /\ lines \in Seq(Seq(Threads \X Nat)) /\ a \in DOMAIN lines /\ line \in Threads \X Nat
      /\ a \in DOMAIN sinks /\ a \in Nat /\ Len(posts[t]) \in Nat
  BY DEF SinkIInv, SinkShapes
<1> DEFINE S == Threads \X Nat
           old == lines[a]
           new == Append(old, line)
<1>2. old \in Seq(S) /\ new \in Seq(S) /\ line \in S
  BY <1>1
<1>3. line[1] = t /\ line[2] = Len(posts[t]) /\ \A j \in DOMAIN old : old[j][2] \in Nat
  BY <1>2
<1>4. /\ lines' \in Seq(Seq(S)) /\ DOMAIN lines' = DOMAIN lines
      /\ Len(lines') = Len(lines) /\ lines'[a] = new
      /\ \A i \in DOMAIN lines \ {a} : lines'[i] = lines[i]
  BY <1>1, <1>2 DEF Puts
<1>5. \/ Len(old) % 2 = 0 /\ step[t] = "lock"
      \/ Len(old) % 2 = 1 /\ old[Len(old)] = line
  <2>1. Len(old) \in Nat
    BY <1>2
  <2>2. /\ Len(old) % 2 = 0 <=> holder[a] = NoThread
        /\ holder[a] # NoThread => old[Len(old)] = <<holder[a], Len(posts[holder[a]])>>
    BY <1>1 DEF SinkIInv, LastLine
  <2> QED
    BY <2>1, <2>2, SinkAssumption, Parity
<1>6. Whole(old) /\ Ordered(old)
  BY <1>1 DEF SinkIInv, LinesWhole, InOrder, Whole
<1>7. step[t] = "lock" => \A j \in DOMAIN old : old[j][1] = line[1] => old[j][2] < line[2]
  <2> SUFFICES ASSUME step[t] = "lock", NEW j \in DOMAIN old, old[j][1] = t
               PROVE  old[j][2] < Len(posts[t])
    BY <1>3
  <2>1. /\ old[j][2] <= Len(posts[t])
        /\ old[j][2] = Len(posts[t]) => a < a \/ step[t] = "write"
    BY <1>1 DEF SinkIInv, PutBehind
  <2> QED
    BY <1>1, <1>3, <2>1
<1>8. new = Append(old, line)
  OBVIOUS
<1> HIDE DEF S, old, new
<1>9. /\ Len(old) \in Nat /\ Len(new) = Len(old) + 1
      /\ DOMAIN old = 1 .. Len(old) /\ DOMAIN new = 1 .. Len(old) + 1
      /\ \A k \in 1 .. Len(old) : new[k] = old[k]
      /\ new[Len(old) + 1] = line
      /\ ToSet(new) = ToSet(old) \cup {line}
  <2>1. Len(old) \in Nat /\ Len(new) = Len(old) + 1
    BY <1>2, <1>8, OneMore
  <2>2. DOMAIN old = 1 .. Len(old) /\ DOMAIN new = 1 .. Len(old) + 1
    BY <1>2, <1>8, OneMore
  <2>3. \A k \in 1 .. Len(old) : new[k] = old[k]
    BY <1>2, <1>8, OneMore
  <2>4. new[Len(old) + 1] = line
    BY <1>2, <1>8, OneMore
  <2>5. ToSet(new) = ToSet(old) \cup {line}
    <3>1. \A k \in 1 .. Len(old) + 1 : k \in 1 .. Len(old) \/ k = Len(old) + 1
      BY <2>1, Before
    <3>2. Len(old) + 1 \in 1 .. Len(old) + 1 /\ \A k \in 1 .. Len(old) : k \in 1 .. Len(old) + 1
      BY <2>1
    <3> QED
      BY <2>2, <2>3, <2>4, <3>1, <3>2 DEF ToSet
  <2> QED
    BY <2>1, <2>2, <2>3, <2>4, <2>5
<1>10. LinesWhole'
  <2>1. Whole(new)
    BY <1>2, <1>5, <1>6, <1>8, WholeGrows
  <2>2. \A i \in DOMAIN lines \ {a} : Whole(lines'[i])
    BY <1>4 DEF SinkIInv, LinesWhole, Whole
  <2> QED
    BY <1>4, <2>1, <2>2 DEF LinesWhole, Whole
<1>11. InOrder'
  <2>1. Ordered(new)
    BY <1>1, <1>2, <1>3, <1>5, <1>6, <1>7, <1>8, OrderGrows
  <2>2. \A i \in DOMAIN lines \ {a} : Ordered(lines'[i])
    BY <1>4 DEF SinkIInv, InOrder
  <2> QED
    BY <1>4, <2>1, <2>2 DEF InOrder
<1>12. \A i \in DOMAIN lines : \A l : l \in ToSet(lines'[i]) <=>
           l \in ToSet(lines[i]) \/ (i = a /\ l = line)
  <2>1. lines[a] = old /\ lines'[a] = new
    BY <1>4 DEF old
  <2>2. ToSet(new) = ToSet(old) \cup {line}
    BY <1>9
  <2>3. \A l : l \in ToSet(lines'[a]) <=> l \in ToSet(lines[a]) \/ l = line
    BY <2>1, <2>2
  <2> QED
    BY <1>4, <2>3
<1> QED
  BY <1>4, <1>9, <1>10, <1>11, <1>12 DEF S, old, LineAdded

LEMMA LockSinkKeeps ==
    ASSUME SinkIInv, NEW t \in Threads, LockSink(t)
    PROVE  SinkIInv'
<1> DEFINE a == at[t]
           line == <<t, Len(posts[t])>>
<1>0. /\ DOMAIN sinks = 1 .. Len(sinks) /\ DOMAIN lines = DOMAIN sinks
      /\ DOMAIN holder = DOMAIN sinks /\ at[t] \in Nat /\ Len(posts[t]) \in Nat
      /\ Len(sinks) \in Nat /\ \A u \in Threads : posts[u] \in Seq(Posts) /\ at[u] \in Nat
  BY DEF SinkIInv, SinkShapes
<1>1. /\ UNCHANGED <<sinks, level, at, agenda, posts>>
      /\ step[t] = "lock" /\ at[t] \in DOMAIN sinks /\ holder[a] = NoThread
      /\ step' = [step EXCEPT ![t] = "write"] /\ holder' = [holder EXCEPT ![a] = t] /\ Puts(t)
  <2>1. at[t] \in DOMAIN sinks
    BY <1>0 DEF SinkIInv, OnWay, LockSink
  <2> QED
    BY <2>1 DEF LockSink
<1>2. /\ step'[t] = "write" /\ \A u \in Threads \ {t} : step'[u] = step[u]
      /\ step' \in [Threads -> Places]
      /\ holder' \in Seq(Threads \cup {NoThread}) /\ Len(holder') = Len(holder)
      /\ holder'[a] = t /\ \A i \in DOMAIN sinks \ {a} : holder'[i] = holder[i]
  BY <1>0, <1>1 DEF SinkIInv, SinkShapes, Places
<1>3. /\ a = at[t] /\ line = <<t, Len(posts[t])>> /\ line[1] = t /\ line[2] = Len(posts[t])
  OBVIOUS
<1> HIDE DEF a, line
<1>4. LineAdded(a, line) /\ LinesWhole' /\ InOrder'
  BY <1>1, <1>3, PutsGrow
<1>5. SinkShapes'
  BY <1>1, <1>2, <1>4 DEF SinkIInv, SinkShapes, LineAdded
<1>6. OnWay'
  BY <1>1, <1>2 DEF SinkIInv, OnWay
<1>7. HolderWrites'
  BY <1>0, <1>1, <1>2, <1>3, SinkAssumption DEF SinkIInv, HolderWrites
<1>8. LastLine'
  <2>1. Len(lines[a]) % 2 = 0
    BY <1>1, <1>3 DEF SinkIInv, LastLine
  <2>2. Len(lines'[a]) % 2 # 0 /\ lines'[a][Len(lines'[a])] = <<holder'[a], Len(posts'[holder'[a]])>>
    BY <1>1, <1>2, <1>3, <1>4, <2>1, Parity DEF LineAdded
  <2>3. ASSUME NEW i \in DOMAIN sinks \ {a}
        PROVE  /\ Len(lines'[i]) % 2 = 0 <=> holder'[i] = NoThread
               /\ holder'[i] # NoThread =>
                     lines'[i][Len(lines'[i])] = <<holder'[i], Len(posts'[holder'[i]])>>
    <3>1. lines'[i] = lines[i] /\ holder'[i] = holder[i] /\ posts' = posts
      BY <1>0, <1>1, <1>2, <1>4 DEF LineAdded
    <3> QED
      BY <3>1 DEF SinkIInv, LastLine
  <2>4. holder'[a] # NoThread
    BY <1>2, SinkAssumption
  <2> QED
    BY <1>1, <2>2, <2>3, <2>4 DEF LastLine
<1>9. PutBehind'
  <2> SUFFICES ASSUME NEW i \in DOMAIN sinks, NEW k \in DOMAIN lines'[i], NEW u \in Threads,
                      lines'[i][k][1] = u
               PROVE  /\ lines'[i][k][2] <= Len(posts[u])
                      /\ (lines'[i][k][2] = Len(posts[u]) /\ step'[u] # "idle") =>
                            i < at[u] \/ (i = at[u] /\ step'[u] = "write")
    BY <1>1 DEF PutBehind
  <2>1. CASE i = a /\ k = Len(lines[a]) + 1
    BY <1>0, <1>2, <1>3, <1>4, <2>1 DEF LineAdded
  <2>2. CASE ~ (i = a /\ k = Len(lines[a]) + 1)
    <3>1. k \in DOMAIN lines[i] /\ lines'[i][k] = lines[i][k]
      BY <1>0, <1>4, <2>2, Before DEF LineAdded
    <3> QED
      BY <1>1, <1>2, <3>1 DEF SinkIInv, PutBehind
  <2> QED
    BY <2>1, <2>2
<1>10. GivenSoFar'
  <2>8. /\ DOMAIN lines' = DOMAIN lines
        /\ \A i \in DOMAIN lines : \A u \in Threads : \A n \in Nat :
            <<u, n>> \in ToSet(lines'[i]) <=>
                <<u, n>> \in ToSet(lines[i]) \/ (i = a /\ u = t /\ n = Len(posts[t]))
    <3>1. \A u \in Threads, n \in Nat : <<u, n>> = line <=> u = t /\ n = Len(posts[t])
      BY <1>3
    <3> QED
      BY <1>4, <3>1 DEF LineAdded
  <2>1. \A n \in DOMAIN posts[t] : Given'[t][n] = IF n = Len(posts[t]) THEN Given[t][n] \cup {a}
                                                ELSE Given[t][n]
    <3>1. \A n \in DOMAIN posts[t] : n \in Nat
      BY <1>0
    <3>2. a \in DOMAIN lines
      BY <1>0, <1>1, <1>3
    <3> QED
      BY <1>1, <2>8, <3>1, <3>2 DEF Given
  <2>2. Behind'[t] = Behind[t] \cup {a}
    BY <1>0, <1>1, <1>2, <1>3 DEF Behind
  <2>3. Admitted' = Admitted
    BY <1>1 DEF Admitted, isLoggable, Current
  <2>4. \A n \in DOMAIN posts[t] : posts[t][n].steady =>
            /\ n < Len(posts[t]) => Given[t][n] = posts[t][n].sinks
            /\ n = Len(posts[t]) => /\ Given[t][n] = posts[t][n].sinks \cap Behind[t]
                                   /\ posts[t][n].sinks = Admitted[t] /\ a \in Admitted[t]
    BY <1>1, <1>3 DEF SinkIInv, GivenSoFar
  <2>5. \A n \in DOMAIN posts[t] : n < Len(posts[t]) => n # Len(posts[t])
    BY <1>0
  <2>6. \A n \in DOMAIN posts'[t] : posts'[t][n].steady =>
               /\ n < Len(posts'[t]) \/ step'[t] = "idle" => Given'[t][n] = posts'[t][n].sinks
               /\ n = Len(posts'[t]) /\ step'[t] # "idle" =>
                     /\ Given'[t][n] = posts'[t][n].sinks \cap Behind'[t]
                     /\ posts'[t][n].sinks = Admitted'[t]
                     /\ step'[t] \in {"lock", "write"} => at'[t] \in Admitted'[t]
    <3> SUFFICES ASSUME NEW n \in DOMAIN posts[t], posts[t][n].steady
                 PROVE  /\ n < Len(posts[t]) => Given'[t][n] = posts[t][n].sinks
                        /\ n = Len(posts[t]) => /\ Given'[t][n] = posts[t][n].sinks \cap Behind'[t]
                                               /\ posts[t][n].sinks = Admitted[t]
                                               /\ a \in Admitted[t]
      BY <1>1, <1>2, <1>3, <2>3
    <3>1. CASE n < Len(posts[t])
      BY <2>1, <2>4, <2>5, <3>1
    <3>2. CASE n = Len(posts[t])
      BY <2>1, <2>2, <2>4, <2>5, <3>2
    <3> QED
      BY <3>1, <3>2, <2>4
  <2> QED
    BY <1>1, <1>2, <2>6, <2>8, OthersGiven
<1> QED
  BY <1>4, <1>5, <1>6, <1>7, <1>8, <1>9, <1>10 DEF SinkIInv

LEMMA WrittenKeeps ==
    ASSUME SinkIInv, NEW t \in Threads, Written(t)
    PROVE  SinkIInv'
<1> DEFINE a == at[t]
           line == <<t, Len(posts[t])>>
<1>0. /\ DOMAIN sinks = 1 .. Len(sinks) /\ DOMAIN lines = DOMAIN sinks
      /\ DOMAIN holder = DOMAIN sinks /\ at[t] \in Nat /\ Len(posts[t]) \in Nat
      /\ Len(sinks) \in Nat /\ \A u \in Threads : posts[u] \in Seq(Posts) /\ at[u] \in Nat
  BY DEF SinkIInv, SinkShapes
<1>1. /\ UNCHANGED <<sinks, level, agenda, posts>>
      /\ step[t] = "write" /\ at[t] \in DOMAIN sinks /\ holder[a] = t
      /\ step' = [step EXCEPT ![t] = "check"] /\ at' = [at EXCEPT ![t] = a + 1]
      /\ holder' = [holder EXCEPT ![a] = NoThread] /\ Puts(t)
  <2>1. at[t] \in DOMAIN sinks
    BY <1>0 DEF SinkIInv, OnWay, Written
  <2>2. holder[a] = t
    BY <2>1 DEF SinkIInv, HolderWrites, Written
  <2> QED
    BY <2>1, <2>2 DEF Written, NextSink
<1>2. /\ step'[t] = "check" /\ at'[t] = a + 1
      /\ \A u \in Threads \ {t} : step'[u] = step[u] /\ at'[u] = at[u]
      /\ step' \in [Threads -> Places] /\ at' \in [Threads -> Nat]
      /\ holder' \in Seq(Threads \cup {NoThread}) /\ Len(holder') = Len(holder)
      /\ holder'[a] = NoThread /\ \A i \in DOMAIN sinks \ {a} : holder'[i] = holder[i]
  BY <1>0, <1>1 DEF SinkIInv, SinkShapes, Places
<1>3. /\ a = at[t] /\ line = <<t, Len(posts[t])>> /\ line[1] = t /\ line[2] = Len(posts[t])
  OBVIOUS
<1> HIDE DEF a, line
<1>4. LineAdded(a, line) /\ LinesWhole' /\ InOrder'
  BY <1>1, <1>3, PutsGrow
<1>5. SinkShapes'
  BY <1>1, <1>2, <1>4 DEF SinkIInv, SinkShapes, LineAdded
<1>6. OnWay'
  BY <1>0, <1>1, <1>2, <1>3 DEF SinkIInv, OnWay
<1>7. HolderWrites'
  BY <1>0, <1>1, <1>2, <1>3, SinkAssumption DEF SinkIInv, HolderWrites
<1>8. LastLine'
  <2>1. Len(lines[a]) % 2 # 0
    BY <1>1, <1>3, SinkAssumption DEF SinkIInv, LastLine
  <2>2. Len(lines'[a]) % 2 = 0
    BY <1>4, <2>1, Parity DEF LineAdded
  <2>3. ASSUME NEW i \in DOMAIN sinks \ {a}
        PROVE  /\ Len(lines'[i]) % 2 = 0 <=> holder'[i] = NoThread
               /\ holder'[i] # NoThread =>
                     lines'[i][Len(lines'[i])] = <<holder'[i], Len(posts'[holder'[i]])>>
    <3>1. lines'[i] = lines[i] /\ holder'[i] = holder[i] /\ posts' = posts
      BY <1>0, <1>1, <1>2, <1>4 DEF LineAdded
    <3> QED
      BY <3>1 DEF SinkIInv, LastLine
  <2> QED
    BY <1>1, <1>2, <2>2, <2>3 DEF LastLine
<1>9. PutBehind'
  <2> SUFFICES ASSUME NEW i \in DOMAIN sinks, NEW k \in DOMAIN lines'[i], NEW u \in Threads,
                      lines'[i][k][1] = u
               PROVE  /\ lines'[i][k][2] <= Len(posts[u])
                      /\ (lines'[i][k][2] = Len(posts[u]) /\ step'[u] # "idle") =>
                            i < at'[u] \/ (i = at'[u] /\ step'[u] = "write")
    BY <1>1 DEF PutBehind
  <2>1. CASE i = a /\ k = Len(lines[a]) + 1
    BY <1>0, <1>1, <1>2, <1>3, <1>4, <2>1 DEF LineAdded
  <2>2. CASE ~ (i = a /\ k = Len(lines[a]) + 1)
    <3>1. k \in DOMAIN lines[i] /\ lines'[i][k] = lines[i][k]
      BY <1>0, <1>4, <2>2, Before DEF LineAdded
    <3>2. /\ lines[i][k][2] <= Len(posts[u])
          /\ (lines[i][k][2] = Len(posts[u]) /\ step[u] # "idle") =>
                i < at[u] \/ (i = at[u] /\ step[u] = "write")
      BY <3>1 DEF SinkIInv, PutBehind
    <3>3. i < a \/ i = a => i < a + 1
      BY <1>0, <1>3
    <3> QED
      BY <1>1, <1>2, <1>3, <3>1, <3>2, <3>3
  <2> QED
    BY <2>1, <2>2
<1>10. GivenSoFar'
  <2>1. /\ DOMAIN lines' = DOMAIN lines
        /\ \A i \in DOMAIN lines : \A u \in Threads : \A n \in Nat :
            <<u, n>> \in ToSet(lines'[i]) <=>
                <<u, n>> \in ToSet(lines[i]) \/ (i = a /\ u = t /\ n = Len(posts[t]))
    <3>1. \A u \in Threads, n \in Nat : <<u, n>> = line <=> u = t /\ n = Len(posts[t])
      BY <1>3
    <3> QED
      BY <1>4, <3>1 DEF LineAdded
  <2>2. line \in ToSet(lines[a])
    <3>1. /\ lines[a][Len(lines[a])] = line /\ Len(lines[a]) % 2 # 0
      BY <1>1, <1>3, SinkAssumption DEF SinkIInv, LastLine
    <3>2. Len(lines[a]) \in DOMAIN lines[a]
      <4>1. lines[a] \in Seq(Threads \X Nat)
        BY <1>0, <1>1, <1>3 DEF SinkIInv, SinkShapes
      <4> QED
        BY <3>1, <4>1, OddLast
    <3> QED
      BY <3>1, <3>2 DEF ToSet
  <2>3. \A n \in DOMAIN posts[t] : Given'[t][n] = Given[t][n]
    <3>1. \A n \in DOMAIN posts[t] : n \in Nat
      BY <1>0
    <3> QED
      BY <1>1, <1>3, <2>1, <2>2, <3>1 DEF Given
  <2>4. Behind'[t] = Behind[t]
    <3>1. \A i \in DOMAIN sinks : (i < a + 1) <=> (i < a \/ i = a)
      BY <1>0, <1>3
    <3> QED
      BY <1>1, <1>2, <1>3, <3>1 DEF Behind
  <2>5. Admitted' = Admitted
    BY <1>1 DEF Admitted, isLoggable, Current
  <2>6. \A n \in DOMAIN posts[t] : posts[t][n].steady =>
            /\ n < Len(posts[t]) => Given[t][n] = posts[t][n].sinks
            /\ n = Len(posts[t]) => /\ Given[t][n] = posts[t][n].sinks \cap Behind[t]
                                   /\ posts[t][n].sinks = Admitted[t]
    BY <1>1 DEF SinkIInv, GivenSoFar
  <2> QED
    BY <1>1, <1>2, <2>1, <2>3, <2>4, <2>5, <2>6, OthersGiven
<1> QED
  BY <1>4, <1>5, <1>6, <1>7, <1>8, <1>9, <1>10 DEF SinkIInv

\* A sink is added while no message is on its way.
LEMMA AddLockedKeeps ==
    ASSUME SinkIInv, NEW t \in Threads, AddLocked(t)
    PROVE  SinkIInv'
<1>1. /\ UNCHANGED <<level, step, at, posts>> /\ agenda[t].sinks # <<>>
      /\ \A u \in Threads : step[u] = "idle"
      /\ sinks' = sinks \o agenda[t].sinks
      /\ holder' = Append(holder, NoThread) /\ lines' = Append(lines, <<>>)
      /\ agenda' = [agenda EXCEPT ![t] = NoAgenda]
  BY DEF AddLocked, Alone
<1> DEFINE n == Len(sinks)
<1>2. /\ sinks \in Seq(SinkInfos) /\ n \in Nat
      /\ lines \in Seq(Seq(Threads \X Nat)) /\ Len(lines) = n
      /\ holder \in Seq(Threads \cup {NoThread}) /\ Len(holder) = n
  BY DEF SinkIInv, SinkShapes
<1>3. /\ sinks' \in Seq(SinkInfos) /\ Len(sinks') = n + 1
      /\ DOMAIN sinks = 1 .. n /\ DOMAIN sinks' = 1 .. n + 1
  <2>1. agenda[t].sinks \in Seq(SinkInfos)
    BY DEF SinkIInv, SinkShapes, Agendas
  <2>2. Len(agenda[t].sinks) <= 1
    BY DEF SinkIInv, OnWay
  <2> QED
    BY <1>1, <1>2, <2>1, <2>2, OneAdded
<1>4. /\ holder' \in Seq(Threads \cup {NoThread}) /\ Len(holder') = n + 1
      /\ DOMAIN holder' = 1 .. n + 1 /\ DOMAIN holder = 1 .. n
      /\ \A i \in 1 .. n : holder'[i] = holder[i]
      /\ holder'[n + 1] = NoThread
  BY <1>1, <1>2
<1>5. /\ lines' \in Seq(Seq(Threads \X Nat)) /\ Len(lines') = n + 1
      /\ DOMAIN lines' = 1 .. n + 1 /\ DOMAIN lines = 1 .. n
      /\ \A i \in 1 .. n : lines'[i] = lines[i]
      /\ lines'[n + 1] = <<>>
  <2>1. <<>> \in Seq(Threads \X Nat)
    OBVIOUS
  <2> QED
    BY <1>1, <1>2, <2>1
<1>6. \A i \in 1 .. n + 1 : i \in 1 .. n \/ i = n + 1
  BY <1>2, Before
<1>7. NoAgenda \in Agendas /\ Len(NoAgenda.sinks) = 0
  BY DEF NoAgenda, Agendas
<1> HIDE DEF n
<1>8. SinkShapes'
  BY <1>1, <1>3, <1>4, <1>5, <1>7 DEF SinkIInv, SinkShapes
<1>9. OnWay'
  BY <1>1, <1>7 DEF SinkIInv, SinkShapes, OnWay
<1>10. HolderWrites'
  BY <1>1, <1>3, <1>4, <1>6, SinkAssumption DEF SinkIInv, HolderWrites
<1>11. LastLine'
  <2>1. Len(<<>>) % 2 = 0
    OBVIOUS
  <2>2. \A i \in 1 .. n : /\ Len(lines[i]) % 2 = 0 <=> holder[i] = NoThread
                          /\ holder[i] # NoThread =>
                                lines[i][Len(lines[i])] = <<holder[i], Len(posts[holder[i]])>>
    BY <1>3 DEF SinkIInv, LastLine
  <2> QED
    BY <1>1, <1>3, <1>4, <1>5, <1>6, <2>1, <2>2 DEF LastLine
<1>12. LinesWhole' /\ InOrder'
  <2>1. Whole(<<>>) /\ Ordered(<<>>)
    BY DEF Whole, Ordered
  <2>2. \A i \in 1 .. n : Whole(lines[i]) /\ Ordered(lines[i])
    BY <1>5 DEF SinkIInv, LinesWhole, InOrder, Whole
  <2>3. \A i \in 1 .. n + 1 : Whole(lines'[i]) /\ Ordered(lines'[i])
    BY <1>5, <1>6, <2>1, <2>2
  <2> QED
    BY <1>5, <2>3 DEF LinesWhole, InOrder, Whole
<1>13. PutBehind'
  <2> SUFFICES ASSUME NEW i \in 1 .. n + 1, NEW k \in DOMAIN lines'[i], NEW u \in Threads,
                      lines'[i][k][1] = u
               PROVE  /\ lines'[i][k][2] <= Len(posts[u])
                      /\ (lines'[i][k][2] = Len(posts[u]) /\ step[u] # "idle") =>
                            i < at[u] \/ (i = at[u] /\ step[u] = "write")
    BY <1>1, <1>3 DEF PutBehind
  <2>1. i # n + 1
    <3>1. DOMAIN <<>> = {}
      OBVIOUS
    <3> QED
      BY <1>5, <3>1
  <2>2. i \in DOMAIN sinks /\ lines'[i] = lines[i]
    BY <1>3, <1>5, <1>6, <2>1
  <2> QED
    BY <2>2 DEF SinkIInv, PutBehind
<1>14. GivenSoFar'
  <2>1. \A l : l \notin ToSet(<<>>)
    BY DEF ToSet
  <2>2. \A l : {i \in DOMAIN lines' : l \in ToSet(lines'[i])} =
               {i \in DOMAIN lines : l \in ToSet(lines[i])}
    <3>1. \A i \in 1 .. n + 1 : \A l : l \in ToSet(lines'[i]) => i \in 1 .. n
      BY <1>5, <1>6, <2>1
    <3>2. 1 .. n \subseteq 1 .. n + 1
      BY <1>2 DEF n
    <3> QED
      BY <1>5, <3>1, <3>2
  <2>3. Given' = Given
    BY <1>1, <2>2 DEF Given
  <2>4. \A u \in Threads : step'[u] = "idle"
    BY <1>1
  <2>5. \A u \in Threads : \A m \in DOMAIN posts[u] :
            posts[u][m].steady => Given[u][m] = posts[u][m].sinks
    BY <1>1 DEF SinkIInv, GivenSoFar
  <2> QED
    BY <1>1, <2>3, <2>4, <2>5 DEF GivenSoFar
<1> QED
  BY <1>8, <1>9, <1>10, <1>11, <1>12, <1>13, <1>14 DEF SinkIInv

-----------------------------------------------------------------------------
(* The theorems.                                                            *)

\* The invariant holds in every state.
THEOREM SinkInvariant == LogSpec => []SinkIInv
<1>1. LogInit => SinkIInv
  BY AtFirst
<1>2. SinkIInv /\ [LogNext]_logVars => SinkIInv'
  <2> SUFFICES ASSUME SinkIInv, [LogNext]_logVars
               PROVE  SinkIInv'
    OBVIOUS
  <2>1. ASSUME NEW t \in Threads,
               \/ LogAt(t) \/ LogWithTag(t) \/ Output(t) \/ AddSink(t)
               \/ SetSinkLevels(t) \/ SetLogLevel(t)
        PROVE  SinkIInv'
    BY <2>1, OperationsKeep, SetSinkLevelsKeeps, SetLogLevelKeeps
  <2>2. ASSUME NEW t \in Threads, Share(t) \/ Check(t) \/ Passed(t)
        PROVE  SinkIInv'
    BY <2>2, ShareKeeps, CheckKeeps, PassedKeeps
  <2>3. ASSUME NEW t \in Threads, LockSink(t) \/ Written(t) \/ AddLocked(t)
        PROVE  SinkIInv'
    BY <2>3, LockSinkKeeps, WrittenKeeps, AddLockedKeeps
  <2>4. CASE UNCHANGED logVars
    <3> USE <2>4 DEF logVars, sinkVars, SinkIInv
    <3>1. SinkShapes' /\ OnWay'
      BY DEF SinkShapes, OnWay
    <3>2. HolderWrites'
      BY DEF HolderWrites
    <3>5. LastLine'
      BY DEF LastLine
    <3>6. LinesWhole' /\ InOrder'
      BY DEF LinesWhole, InOrder
    <3>7. PutBehind'
      BY DEF PutBehind
    <3>3. Given' = Given /\ Behind' = Behind /\ Admitted' = Admitted
      BY DEF Given, Behind, Admitted, isLoggable, Current
    <3>4. GivenSoFar'
      BY <3>3 DEF GivenSoFar
    <3> QED
      BY <3>1, <3>2, <3>4, <3>5, <3>6, <3>7
  <2> QED
    BY <2>1, <2>2, <2>3, <2>4 DEF LogNext
<1> QED
  BY <1>1, <1>2, PTL DEF LogSpec

\* No two threads' lines mix in a sink, whatever sinks are added and levels set.
THEOREM NoLineIsTorn == LogSpec => []LinesWhole
<1>1. SinkIInv => LinesWhole
  BY DEF SinkIInv
<1> QED
  BY <1>1, SinkInvariant, PTL

\* A message is given once, in its thread's order, to just the sinks that
\* admitted it when it set out.
THEOREM MessagesArrive == LogSpec => []DeliveredExactly
<1>1. SinkIInv => DeliveredExactly
  <2> SUFFICES ASSUME SinkIInv, NEW t \in Threads
               PROVE  /\ \A n \in DOMAIN posts[t] :
                             (posts[t][n].steady /\ (n < Len(posts[t]) \/ step[t] = "idle")) =>
                                 {i \in DOMAIN lines : <<t, n>> \in ToSet(lines[i])} = posts[t][n].sinks
                      /\ \A i \in DOMAIN lines : \A j, k \in DOMAIN lines[i] :
                             (j < k /\ lines[i][j][1] = t /\ lines[i][k][1] = t) =>
                                 \/ lines[i][j][2] < lines[i][k][2]
                                 \/ lines[i][j] = lines[i][k] /\ j % 2 = 1 /\ k = j + 1
    BY DEF DeliveredExactly
  <2>1. \A n \in DOMAIN posts[t] :
            Given[t][n] = {i \in DOMAIN lines : <<t, n>> \in ToSet(lines[i])}
    BY DEF Given
  <2>2. \A n \in DOMAIN posts[t] :
            (posts[t][n].steady /\ (n < Len(posts[t]) \/ step[t] = "idle")) =>
                Given[t][n] = posts[t][n].sinks
    BY DEF SinkIInv, GivenSoFar
  <2>3. \A i \in DOMAIN lines : Ordered(lines[i])
    BY DEF SinkIInv, InOrder
  <2> QED
    BY <2>1, <2>2, <2>3 DEF Ordered
<1> QED
  BY <1>1, SinkInvariant, PTL

-----------------------------------------------------------------------------
(***************************************************************************)
(* The errors.  The frames an error holds are what was said of it: its      *)
(* links, from the root cause on, share out what was said among them, so    *)
(* the report, link by link, tells all of it.                               *)
(***************************************************************************)

Frames == [id : Nat, debug : BOOLEAN]

Links == [severity : Severities, frames : Seq(Frames)]

Errors == [severity : Severities, frames : Seq(Frames), cause : Seq(Links)]

Sayings == [frame : Frames, severity : Severities, how : {"add", "chain"}]

\* LinkOf, of anything said.
ChainsIn(m, n) == {i \in 2 .. n : m[i].how = "chain"}

LinkIn(m, n) == 1 + Cardinality(ChainsIn(m, n))

\* A link holds what was said from some place to another, all that belongs to it.
LinkSpans(m, l, n, frames, severity, a, b) ==
    /\ a \in 1 .. l /\ b \in 1 .. l /\ a <= b
    /\ \A i \in 1 .. l : LinkIn(m, i) = n <=> a <= i /\ i <= b
    /\ frames = [k \in 1 .. (b + 1) - a |-> m[(a - 1) + k].frame]
    /\ severity = IF \E i \in a .. b : m[i].severity = "Fatal" THEN "Fatal" ELSE m[b].severity

LinkHolds(m, n, frames, severity) ==
    \E a, b \in 1 .. Len(m) : LinkSpans(m, Len(m), n, frames, severity, a, b)

\* The links of an error, from the root cause on.
LinkAt(e, n) == IF n = Len(e.cause) + 1 THEN Link(e) ELSE e.cause[(Len(e.cause) + 1) - n]

\* An error is what was said of it.
ErrorOf(e, m) ==
    /\ m = <<>> => e = EmptyError
    /\ m # <<>> =>
          /\ LinkIn(m, Len(m)) = Len(e.cause) + 1
          /\ \A n \in 1 .. Len(e.cause) + 1 :
                LinkHolds(m, n, LinkAt(e, n).frames, LinkAt(e, n).severity)

ErrIInv ==
    /\ made \in Seq(Sayings)
    /\ \A i \in DOMAIN made : made[i].frame.id = i
    /\ err \in Errors
    /\ ErrorOf(err, made)
    /\ ReportTellsAll

-----------------------------------------------------------------------------
(* The links of what is said.                                               *)

LEMMA ChainsFinite ==
    ASSUME NEW m, NEW n \in Nat
    PROVE  /\ IsFiniteSet(ChainsIn(m, n)) /\ Cardinality(ChainsIn(m, n)) \in Nat
           /\ LinkIn(m, n) \in Nat /\ LinkIn(m, n) >= 1
           /\ \A i \in 0 .. n : LinkIn(m, i) <= LinkIn(m, n)
<1>1. \A i \in Nat : IsFiniteSet(ChainsIn(m, i)) /\ Cardinality(ChainsIn(m, i)) \in Nat
  <2>1. \A i \in Nat : IsFiniteSet(2 .. i)
    BY FS_Interval
  <2>2. \A i \in Nat : ChainsIn(m, i) \subseteq 2 .. i
    BY DEF ChainsIn
  <2>3. \A i \in Nat : IsFiniteSet(ChainsIn(m, i))
    BY <2>1, <2>2, FS_Subset
  <2> QED
    BY <2>3, FS_CardinalityType
<1>2. ASSUME NEW i \in 0 .. n
      PROVE  Cardinality(ChainsIn(m, i)) <= Cardinality(ChainsIn(m, n))
  <2>1. ChainsIn(m, i) \subseteq ChainsIn(m, n)
    BY DEF ChainsIn
  <2> QED
    BY <1>1, <2>1, FS_Subset
<1>3. \A i \in 0 .. n : i \in Nat
  OBVIOUS
<1> QED
  BY <1>1, <1>2, <1>3 DEF LinkIn

LEMMA FirstLink ==
    ASSUME NEW m
    PROVE  LinkIn(m, 1) = 1
<1>1. ChainsIn(m, 1) = {}
  BY DEF ChainsIn
<1>2. Cardinality(ChainsIn(m, 1)) = 0
  <2>1. Cardinality({}) = 0
    BY FS_EmptySet
  <2> QED
    BY <1>1, <2>1, Zenon
<1> QED
  BY <1>2 DEF LinkIn

LEMMA Said ==
    ASSUME NEW m \in Seq(Sayings), NEW x \in Sayings
    PROVE  /\ Append(m, x) \in Seq(Sayings) /\ Append(m, x) # <<>>
           /\ Len(Append(m, x)) = Len(m) + 1 /\ Len(m) \in Nat
           /\ \A i \in 1 .. Len(m) : Append(m, x)[i] = m[i]
           /\ Append(m, x)[Len(m) + 1] = x
           /\ DOMAIN m = 1 .. Len(m) /\ DOMAIN Append(m, x) = 1 .. Len(m) + 1
OBVIOUS

LEMMA LinksGrow ==
    ASSUME NEW m \in Seq(Sayings), NEW x \in Sayings
    PROVE  /\ \A i \in 1 .. Len(m) : LinkIn(Append(m, x), i) = LinkIn(m, i)
           /\ m # <<>> /\ x.how = "chain" => LinkIn(Append(m, x), Len(m) + 1) = LinkIn(m, Len(m)) + 1
           /\ m # <<>> /\ x.how = "add" => LinkIn(Append(m, x), Len(m) + 1) = LinkIn(m, Len(m))
<1> DEFINE n == Len(m)
           d == Append(m, x)
<1>1. n \in Nat /\ (\A i \in 1 .. n : d[i] = m[i]) /\ d[n + 1] = x /\ (m # <<>> => n >= 1)
  BY Said
<1> HIDE DEF d, n
<1>2. ASSUME NEW i \in 1 .. n
      PROVE  ChainsIn(d, i) = ChainsIn(m, i)
  <2>1. \A j \in 2 .. i : d[j] = m[j]
    BY <1>1
  <2> QED
    BY <2>1 DEF ChainsIn
<1>3. ASSUME m # <<>>, x.how = "chain"
      PROVE  LinkIn(d, n + 1) = LinkIn(m, n) + 1
  <2>1. /\ n + 1 \in 2 .. n + 1 /\ n \in 1 .. n
        /\ \A j : j \in 2 .. n + 1 <=> j \in 2 .. n \/ j = n + 1
        /\ n + 1 \notin 2 .. n
    BY <1>1, <1>3
  <2>2. ChainsIn(d, n + 1) = ChainsIn(m, n) \cup {n + 1}
    <3>1. \A j \in 2 .. n : d[j] = m[j]
      BY <1>1
    <3> QED
      BY <1>1, <1>3, <2>1, <3>1 DEF ChainsIn
  <2>3. n + 1 \notin ChainsIn(m, n)
    BY <2>1 DEF ChainsIn
  <2>4. Cardinality(ChainsIn(m, n) \cup {n + 1}) = Cardinality(ChainsIn(m, n)) + 1
    BY <1>1, <2>3, ChainsFinite, FS_AddElement
  <2>5. Cardinality(ChainsIn(m, n)) \in Nat
    BY <1>1, ChainsFinite
  <2> QED
    <3>1. Cardinality(ChainsIn(d, n + 1)) = Cardinality(ChainsIn(m, n)) + 1
      BY <2>2, <2>4
    <3> QED
      BY <2>5, <3>1 DEF LinkIn
<1>4. ASSUME m # <<>>, x.how = "add"
      PROVE  LinkIn(d, n + 1) = LinkIn(m, n)
  <2>1. \A j : j \in 2 .. n + 1 <=> j \in 2 .. n \/ (j = n + 1 /\ n + 1 \in 2 .. n + 1)
    BY <1>1, <1>4
  <2>2. ChainsIn(d, n + 1) = ChainsIn(m, n)
    <3>1. \A j \in 2 .. n : d[j] = m[j]
      BY <1>1
    <3> QED
      BY <1>1, <1>4, <2>1, <3>1 DEF ChainsIn
  <2> QED
    BY <2>2 DEF LinkIn
<1> QED
  BY <1>2, <1>3, <1>4 DEF LinkIn, d, n

\* A link that is not the last is not changed by what is said later.
LEMMA LinkStays ==
    ASSUME NEW m \in Seq(Sayings), NEW x \in Sayings, NEW n, NEW frames, NEW severity,
           LinkHolds(m, n, frames, severity), LinkIn(Append(m, x), Len(m) + 1) # n
    PROVE  LinkHolds(Append(m, x), n, frames, severity)
<1> DEFINE l == Len(m)
<1>1. PICK d : d = Append(m, x)
  OBVIOUS
<1>2. /\ l \in Nat /\ Len(d) = l + 1 /\ \A i \in 1 .. l : d[i] = m[i]
      /\ \A i \in 1 .. l : LinkIn(d, i) = LinkIn(m, i)
      /\ LinkIn(d, l + 1) # n
  BY <1>1, Said, LinksGrow
<1>3. PICK a, b \in 1 .. l :
         /\ a <= b
         /\ \A i \in 1 .. l : LinkIn(m, i) = n <=> a <= i /\ i <= b
         /\ frames = [k \in 1 .. (b + 1) - a |-> m[(a - 1) + k].frame]
         /\ severity = IF \E i \in a .. b : m[i].severity = "Fatal" THEN "Fatal" ELSE m[b].severity
  BY DEF LinkHolds, LinkSpans
<1> HIDE DEF l
<1>4. a \in 1 .. l + 1 /\ b \in 1 .. l + 1 /\ l + 1 > b
  BY <1>2
<1>5. \A i \in 1 .. l + 1 : LinkIn(d, i) = n <=> a <= i /\ i <= b
  <2>1. \A i \in 1 .. l + 1 : i \in 1 .. l \/ i = l + 1
    BY <1>2
  <2>2. ~ (l + 1 <= b)
    BY <1>2, <1>4
  <2> QED
    BY <1>2, <1>3, <2>1, <2>2
<1>6. frames = [k \in 1 .. (b + 1) - a |-> d[(a - 1) + k].frame]
  <2>1. \A k \in 1 .. (b + 1) - a : (a - 1) + k \in 1 .. l
    BY <1>2, <1>3
  <2>2. \A k \in 1 .. (b + 1) - a : d[(a - 1) + k] = m[(a - 1) + k]
    BY <1>2, <2>1
  <2> QED
    BY <1>3, <2>2
<1>7. severity = IF \E i \in a .. b : d[i].severity = "Fatal" THEN "Fatal" ELSE d[b].severity
  <2>1. \A i \in a .. b : i \in 1 .. l
    BY <1>2
  <2>2. \A i \in a .. b : d[i] = m[i]
    BY <1>2, <2>1
  <2> QED
    BY <1>2, <1>3, <2>2
<1>8. LinkSpans(d, l + 1, n, frames, severity, a, b)
  BY <1>3, <1>4, <1>5, <1>6, <1>7 DEF LinkSpans
<1> QED
  BY <1>1, <1>2, <1>4, <1>8 DEF LinkHolds

\* What is added belongs to the last link.
LEMMA LinkExtends ==
    ASSUME NEW m \in Seq(Sayings), m # <<>>, NEW x \in Sayings, x.how = "add", NEW n,
           n = LinkIn(m, Len(m)), NEW frames, NEW severity,
           LinkHolds(m, n, frames, severity)
    PROVE  LinkHolds(Append(m, x), n, Append(frames, x.frame), Worse(severity, x.severity))
<1> DEFINE l == Len(m)
<1>1. PICK d : d = Append(m, x)
  OBVIOUS
<1>2. /\ l \in Nat /\ l >= 1 /\ Len(d) = l + 1 /\ \A i \in 1 .. l : d[i] = m[i]
      /\ d[l + 1] = x
      /\ \A i \in 1 .. l : LinkIn(d, i) = LinkIn(m, i)
      /\ LinkIn(d, l + 1) = n /\ LinkIn(m, l) = n
  BY <1>1, Said, LinksGrow
<1>3. PICK a, b \in 1 .. l :
         /\ a <= b
         /\ \A i \in 1 .. l : LinkIn(m, i) = n <=> a <= i /\ i <= b
         /\ frames = [k \in 1 .. (b + 1) - a |-> m[(a - 1) + k].frame]
         /\ severity = IF \E i \in a .. b : m[i].severity = "Fatal" THEN "Fatal" ELSE m[b].severity
  BY DEF LinkHolds, LinkSpans
<1> HIDE DEF l
<1>4. b = l
  <2>1. l \in 1 .. l
    BY <1>2
  <2>2. l <= b
    BY <1>2, <1>3, <2>1
  <2> QED
    BY <1>2, <2>2
<1>5. a \in 1 .. l + 1 /\ l + 1 \in 1 .. l + 1 /\ a <= l + 1
  BY <1>2
<1>6. \A i \in 1 .. l + 1 : LinkIn(d, i) = n <=> a <= i /\ i <= l + 1
  <2>1. \A i \in 1 .. l + 1 : i \in 1 .. l \/ i = l + 1
    BY <1>2
  <2>2. \A i \in 1 .. l : (a <= i /\ i <= b) <=> (a <= i /\ i <= l + 1)
    BY <1>2, <1>4
  <2> QED
    BY <1>2, <1>3, <1>5, <2>1, <2>2
<1>7. Append(frames, x.frame) = [k \in 1 .. ((l + 1) + 1) - a |-> d[(a - 1) + k].frame]
  <2> DEFINE N == (l + 1) - a
             f(k) == m[(a - 1) + k].frame
  <2>1. N \in Nat /\ ((l + 1) + 1) - a = N + 1 /\ (a - 1) + (N + 1) = l + 1
    BY <1>2
  <2>2. \A k \in 1 .. N : (a - 1) + k \in 1 .. l
    BY <1>2
  <2>3. \A k \in 1 .. N : d[(a - 1) + k].frame = f(k)
    BY <1>2, <2>2
  <2>4. d[(a - 1) + (N + 1)].frame = x.frame
    BY <1>2, <2>1
  <2>5. frames = [k \in 1 .. N |-> f(k)]
    BY <1>3, <1>4
  <2> HIDE DEF N, f
  <2>6. PICK g : g = [k \in 1 .. N + 1 |-> d[(a - 1) + k].frame]
    OBVIOUS
  <2>7. Append(frames, x.frame) = [k \in 1 .. N + 1 |-> IF k = N + 1 THEN x.frame ELSE f(k)]
    <3>1. frames = [k \in 1 .. N |-> frames[k]] /\ \A k \in 1 .. N : frames[k] = f(k)
      BY <2>5
    <3>2. PICK S : S = {f(k) : k \in 1 .. N}
      OBVIOUS
    <3>3. frames \in Seq(S) /\ Len(frames) = N
      BY <2>1, <2>5, <3>2
    <3>4. Append(frames, x.frame) = [k \in 1 .. N + 1 |-> IF k = N + 1 THEN x.frame ELSE frames[k]]
      BY <2>1, <3>3
    <3>5. \A k \in 1 .. N + 1 : k # N + 1 => k \in 1 .. N
      BY <2>1
    <3> QED
      BY <3>1, <3>4, <3>5
  <2>8. \A k \in 1 .. N + 1 : d[(a - 1) + k].frame = IF k = N + 1 THEN x.frame ELSE f(k)
    <3>1. \A k \in 1 .. N + 1 : k # N + 1 => k \in 1 .. N
      BY <2>1
    <3> QED
      BY <2>3, <2>4, <3>1
  <2> QED
    BY <2>1, <2>7, <2>8
<1>8. Worse(severity, x.severity)
         = IF \E i \in a .. l + 1 : d[i].severity = "Fatal" THEN "Fatal" ELSE d[l + 1].severity
  <2>1. \A i \in a .. l : d[i] = m[i]
    BY <1>2
  <2>2. \A i : i \in a .. l + 1 <=> i \in a .. l \/ i = l + 1
    BY <1>2, <1>5
  <2>3. severity = IF \E i \in a .. l : d[i].severity = "Fatal" THEN "Fatal" ELSE m[l].severity
    BY <1>3, <1>4, <2>1
  <2>4. l \in a .. l /\ m[l] = d[l]
    BY <1>2, <1>3, <1>4
  <2>5. CASE \E i \in a .. l : d[i].severity = "Fatal"
    BY <1>2, <2>2, <2>3, <2>5 DEF Worse
  <2>6. CASE ~ \E i \in a .. l : d[i].severity = "Fatal"
    <3>1. severity # "Fatal"
      BY <2>3, <2>4, <2>6
    <3> QED
      BY <1>2, <2>2, <2>6, <3>1 DEF Worse
  <2> QED
    BY <2>5, <2>6
<1>9. LinkSpans(d, l + 1, n, Append(frames, x.frame), Worse(severity, x.severity), a, l + 1)
  BY <1>5, <1>6, <1>7, <1>8 DEF LinkSpans
<1> QED
  BY <1>1, <1>2, <1>5, <1>9 DEF LinkHolds

\* What begins a link is all that belongs to it.
LEMMA LinkBegins ==
    ASSUME NEW m \in Seq(Sayings), NEW x \in Sayings, m # <<>> => x.how = "chain", NEW n,
           n = LinkIn(Append(m, x), Len(m) + 1)
    PROVE  LinkHolds(Append(m, x), n, <<x.frame>>, x.severity)
<1> DEFINE l == Len(m)
<1>1. PICK d : d = Append(m, x)
  OBVIOUS
<1>2. /\ l \in Nat /\ Len(d) = l + 1 /\ d[l + 1] = x
      /\ \A i \in 1 .. l : LinkIn(d, i) = LinkIn(m, i)
      /\ LinkIn(d, l + 1) = n
      /\ m # <<>> => n = LinkIn(m, l) + 1
      /\ m = <<>> => l = 0
  BY <1>1, Said, LinksGrow
<1>3. \A i \in 1 .. l : LinkIn(m, i) <= LinkIn(m, l) /\ LinkIn(m, l) \in Nat /\ LinkIn(m, i) \in Nat
  <2>1. \A i \in 1 .. l : i \in 0 .. l /\ i \in Nat
    OBVIOUS
  <2> QED
    BY <1>2, <2>1, ChainsFinite
<1> HIDE DEF l
<1>4. \A i \in 1 .. l + 1 : LinkIn(d, i) = n <=> l + 1 <= i /\ i <= l + 1
  <2>1. ASSUME NEW i \in 1 .. l
        PROVE  LinkIn(d, i) # n
    <3>1. m # <<>>
      BY <1>2, <2>1
    <3> QED
      BY <1>2, <1>3, <2>1, <3>1
  <2>2. \A i \in 1 .. l + 1 : i \in 1 .. l \/ i = l + 1
    BY <1>2
  <2>3. \A i \in 1 .. l : ~ (l + 1 <= i)
    BY <1>2
  <2> QED
    BY <1>2, <2>1, <2>2, <2>3
<1>5. /\ l + 1 \in 1 .. l + 1 /\ ((l + 1) + 1) - (l + 1) = 1 /\ ((l + 1) - 1) + 1 = l + 1
      /\ \A k \in 1 .. 1 : ((l + 1) - 1) + k = l + 1
  BY <1>2
<1>6. <<x.frame>> = [k \in 1 .. ((l + 1) + 1) - (l + 1) |-> d[((l + 1) - 1) + k].frame]
  <2>1. \A k \in 1 .. 1 : d[((l + 1) - 1) + k].frame = x.frame
    BY <1>2, <1>5
  <2>2. <<x.frame>> = [k \in 1 .. 1 |-> x.frame]
    OBVIOUS
  <2> QED
    BY <1>5, <2>1, <2>2
<1>7. x.severity = IF \E i \in l + 1 .. l + 1 : d[i].severity = "Fatal" THEN "Fatal"
                   ELSE d[l + 1].severity
  <2>1. \A i \in l + 1 .. l + 1 : i = l + 1
    BY <1>2
  <2>2. l + 1 \in l + 1 .. l + 1
    BY <1>2
  <2> QED
    BY <1>2, <2>1, <2>2
<1>8. l + 1 <= l + 1
  BY <1>2
<1>9. LinkSpans(d, l + 1, n, <<x.frame>>, x.severity, l + 1, l + 1)
  BY <1>4, <1>5, <1>6, <1>7, <1>8 DEF LinkSpans
<1> QED
  BY <1>1, <1>2, <1>5, <1>9 DEF LinkHolds

-----------------------------------------------------------------------------
(* An error is what was said of it.                                         *)

LEMMA FramesThere ==
    ASSUME NEW m \in Seq(Sayings), NEW e \in Errors, ErrorOf(e, m), m # <<>>
    PROVE  e.frames # <<>>
<1> DEFINE L == Len(e.cause) + 1
<1>1. L \in 1 .. L
  BY DEF Errors
<1>2. LinkAt(e, L).frames = e.frames
  BY DEF LinkAt, Link
<1>3. LinkHolds(m, L, e.frames, LinkAt(e, L).severity)
  BY <1>1, <1>2 DEF ErrorOf
<1> HIDE DEF L
<1>4. PICK a, b \in 1 .. Len(m) : a <= b /\ e.frames = [k \in 1 .. (b + 1) - a |-> m[(a - 1) + k].frame]
  BY <1>3 DEF LinkHolds, LinkSpans
<1>5. 1 \in DOMAIN e.frames
  BY <1>4
<1> QED
  BY <1>5

LEMMA MadeRight ==
    ASSUME NEW x \in Sayings
    PROVE  /\ Make(x.frame, x.severity) \in Errors
           /\ ErrorOf(Make(x.frame, x.severity), Append(<<>>, x))
<1> DEFINE e == Make(x.frame, x.severity)
<1>1. e = [severity |-> x.severity, frames |-> <<x.frame>>, cause |-> <<>>]
  BY DEF Make
<1>2. x.frame \in Frames /\ x.severity \in Severities
  BY DEF Sayings
<1>3. <<x.frame>> \in Seq(Frames) /\ <<>> \in Seq(Links) /\ Len(<<>>) = 0
      /\ <<>> \in Seq(Sayings)
  BY <1>2
<1>4. e \in Errors
  BY <1>1, <1>2, <1>3 DEF Errors
<1>5. PICK m : m = Append(<<>>, x)
  OBVIOUS
<1>6. m # <<>> /\ Len(m) = 1
  BY <1>3, <1>5
<1>7. LinkIn(m, 1) = 1
  BY FirstLink
<1>8. LinkHolds(m, 1, <<x.frame>>, x.severity)
  <2>1. 1 = LinkIn(Append(<<>>, x), Len(<<>>) + 1)
    BY <1>3, <1>5, <1>7
  <2>2. LinkHolds(Append(<<>>, x), 1, <<x.frame>>, x.severity)
    BY <1>3, <2>1, LinkBegins
  <2> QED
    BY <1>5, <2>2
<1>9. /\ LinkAt(e, 1).frames = <<x.frame>> /\ LinkAt(e, 1).severity = x.severity
      /\ Len(e.cause) + 1 = 1
  BY <1>1, <1>3 DEF LinkAt, Link
<1> HIDE DEF e
<1>10. \A n \in 1 .. Len(e.cause) + 1 : n = 1
  BY <1>9
<1>11. ErrorOf(e, m)
  BY <1>6, <1>7, <1>8, <1>9, <1>10 DEF ErrorOf
<1> QED
  BY <1>4, <1>5, <1>11 DEF e

LEMMA AddedRight ==
    ASSUME NEW m \in Seq(Sayings), NEW x \in Sayings, m # <<>> => x.how = "add",
           NEW e \in Errors, ErrorOf(e, m)
    PROVE  /\ Add(e, x.frame, x.severity) \in Errors
           /\ ErrorOf(Add(e, x.frame, x.severity), Append(m, x))
<1>1. x.frame \in Frames /\ x.severity \in Severities
  BY DEF Sayings
<1>2. CASE m = <<>>
  <2>1. e = EmptyError
    BY <1>2 DEF ErrorOf
  <2>3. Add(e, x.frame, x.severity) = Make(x.frame, x.severity)
    <3>1. PICK e2 : e2 = Add(e, x.frame, x.severity)
      OBVIOUS
    <3>2. e2 = [severity |-> Worse(e.severity, x.severity), frames |-> Append(e.frames, x.frame),
                cause |-> e.cause]
      BY <3>1 DEF Add, Errors
    <3>3. e.severity = "Error" /\ e.frames = <<>> /\ e.cause = <<>>
      BY <2>1 DEF EmptyError
    <3>4. Worse(e.severity, x.severity) = x.severity
      BY <3>3 DEF Worse
    <3>5. Append(e.frames, x.frame) = <<x.frame>>
      <4>1. <<>> \in Seq({x.frame})
        OBVIOUS
      <4> QED
        BY <3>3, <4>1
    <3>6. Make(x.frame, x.severity)
             = [severity |-> Worse(e.severity, x.severity), frames |-> Append(e.frames, x.frame),
                cause |-> e.cause]
      BY <3>3, <3>4, <3>5 DEF Make
    <3> QED
      BY <3>1, <3>2, <3>6
  <2> QED
    BY <1>2, <2>3, MadeRight
<1>3. CASE m # <<>>
  <2> DEFINE L == Len(e.cause) + 1
  <2>1. PICK e2 : e2 = Add(e, x.frame, x.severity)
    OBVIOUS
  <2>2. PICK m2 : m2 = Append(m, x)
    OBVIOUS
  <2>3. /\ e.frames \in Seq(Frames) /\ e.severity \in Severities /\ e.cause \in Seq(Links)
        /\ L \in Nat /\ L \in 1 .. L
    BY DEF Errors
  <2>4. e2 = [severity |-> Worse(e.severity, x.severity), frames |-> Append(e.frames, x.frame),
              cause |-> e.cause]
    BY <2>1 DEF Add, Errors
  <2>5. e2 \in Errors
    <3>1. Worse(e.severity, x.severity) \in Severities
      BY <1>1, <2>3 DEF Worse
    <3>2. Append(e.frames, x.frame) \in Seq(Frames)
      BY <1>1, <2>3
    <3> QED
      BY <2>3, <2>4, <3>1, <3>2 DEF Errors
  <2>6. /\ LinkIn(m, Len(m)) = L
        /\ \A n \in 1 .. L : LinkHolds(m, n, LinkAt(e, n).frames, LinkAt(e, n).severity)
    BY <1>3 DEF ErrorOf
  <2>7. /\ m2 # <<>> /\ Len(m2) = Len(m) + 1 /\ LinkIn(m2, Len(m) + 1) = L
    BY <1>3, <2>2, <2>6, Said, LinksGrow
  <2>8. /\ LinkAt(e2, L).frames = Append(e.frames, x.frame)
        /\ LinkAt(e2, L).severity = Worse(e.severity, x.severity)
        /\ LinkAt(e, L).frames = e.frames /\ LinkAt(e, L).severity = e.severity
        /\ \A n \in 1 .. L : n # L => LinkAt(e2, n) = LinkAt(e, n)
        /\ Len(e2.cause) + 1 = L
    BY <2>4 DEF LinkAt, Link
  <2> HIDE DEF L
  <2>9. ASSUME NEW n \in 1 .. L
        PROVE  LinkHolds(m2, n, LinkAt(e2, n).frames, LinkAt(e2, n).severity)
    <3>1. CASE n = L
      <4>1. LinkHolds(m, L, e.frames, e.severity)
        BY <2>3, <2>6, <2>8
      <4>2. L = LinkIn(m, Len(m)) /\ x.how = "add"
        BY <1>3, <2>6
      <4>3. LinkHolds(Append(m, x), L, Append(e.frames, x.frame), Worse(e.severity, x.severity))
        BY <1>3, <4>1, <4>2, LinkExtends
      <4> QED
        BY <2>2, <2>8, <3>1, <4>3
    <3>2. CASE n # L
      <4>1. LinkHolds(m, n, LinkAt(e, n).frames, LinkAt(e, n).severity)
        BY <2>6
      <4>2. LinkIn(Append(m, x), Len(m) + 1) # n
        BY <2>2, <2>7, <3>2
      <4>3. LinkHolds(Append(m, x), n, LinkAt(e, n).frames, LinkAt(e, n).severity)
        BY <4>1, <4>2, LinkStays
      <4> QED
        BY <2>2, <2>8, <3>2, <4>3
    <3> QED
      BY <3>1, <3>2
  <2>10. ErrorOf(e2, m2)
    BY <2>7, <2>8, <2>9 DEF ErrorOf
  <2> QED
    BY <2>1, <2>2, <2>5, <2>10
<1> QED
  BY <1>2, <1>3

LEMMA ChainedRight ==
    ASSUME NEW m \in Seq(Sayings), NEW x \in Sayings, x.how = "chain",
           NEW e \in Errors, ErrorOf(e, m)
    PROVE  /\ Chain(e, x.frame, x.severity) \in Errors
           /\ ErrorOf(Chain(e, x.frame, x.severity), Append(m, x))
<1>1. x.frame \in Frames /\ x.severity \in Severities
  BY DEF Sayings
<1>2. CASE m = <<>>
  <2>1. e.frames = <<>>
    BY <1>2 DEF ErrorOf, EmptyError
  <2>2. Chain(e, x.frame, x.severity) = Add(e, x.frame, x.severity)
    BY <2>1 DEF Chain
  <2> QED
    BY <1>2, <2>2, AddedRight
<1>3. CASE m # <<>>
  <2> DEFINE L == Len(e.cause) + 1
  <2>1. PICK e2 : e2 = Chain(e, x.frame, x.severity)
    OBVIOUS
  <2>2. PICK m2 : m2 = Append(m, x)
    OBVIOUS
  <2>3. /\ e.frames \in Seq(Frames) /\ e.severity \in Severities /\ e.cause \in Seq(Links)
        /\ L \in Nat /\ L \in 1 .. L /\ Len(e.cause) \in Nat
    BY DEF Errors
  <2>4. e2 = [severity |-> x.severity, frames |-> <<x.frame>>, cause |-> <<Link(e)>> \o e.cause]
    <3>1. e.frames # <<>>
      BY <1>3, FramesThere
    <3> QED
      BY <2>1, <3>1 DEF Chain, Make, EmptyError
  <2>5. PICK c2 : c2 = <<Link(e)>> \o e.cause
    OBVIOUS
  <2>6. /\ c2 \in Seq(Links) /\ Len(c2) = L
        /\ c2[1] = Link(e) /\ \A i \in 1 .. Len(e.cause) : c2[i + 1] = e.cause[i]
    <3>1. Link(e) \in Links
      BY <2>3 DEF Link, Links
    <3>2. PICK k : k = Link(e)
      OBVIOUS
    <3>3. k \in Links /\ c2 = <<k>> \o e.cause
      BY <2>5, <3>1, <3>2
    <3>4. /\ <<k>> \o e.cause \in Seq(Links) /\ Len(<<k>> \o e.cause) = Len(e.cause) + 1
          /\ (<<k>> \o e.cause)[1] = k
          /\ \A i \in 1 .. Len(e.cause) : (<<k>> \o e.cause)[i + 1] = e.cause[i]
      BY <2>3, <3>3
    <3> QED
      BY <3>2, <3>3, <3>4
  <2>7. e2 \in Errors
    <3>1. <<x.frame>> \in Seq(Frames)
      BY <1>1
    <3> QED
      BY <1>1, <2>4, <2>5, <2>6, <3>1 DEF Errors
  <2>8. /\ LinkIn(m, Len(m)) = L
        /\ \A n \in 1 .. L : LinkHolds(m, n, LinkAt(e, n).frames, LinkAt(e, n).severity)
    BY <1>3 DEF ErrorOf
  <2>9. /\ m2 # <<>> /\ Len(m2) = Len(m) + 1 /\ LinkIn(m2, Len(m) + 1) = L + 1
    BY <1>3, <2>2, <2>8, Said, LinksGrow
  <2>10. /\ LinkAt(e2, L + 1).frames = <<x.frame>> /\ LinkAt(e2, L + 1).severity = x.severity
         /\ Len(e2.cause) + 1 = L + 1
    BY <2>4, <2>5, <2>6 DEF LinkAt, Link
  <2>11. ASSUME NEW n \in 1 .. L
         PROVE  LinkAt(e2, n) = LinkAt(e, n)
    <3>1. LinkAt(e2, n) = c2[(L + 1) - n]
      <4>1. n # Len(e2.cause) + 1 /\ e2.cause = c2
        BY <2>3, <2>4, <2>5, <2>10
      <4> QED
        BY <2>6, <4>1 DEF LinkAt
    <3>2. CASE n = L
      <4>1. (L + 1) - n = 1
        BY <2>3, <3>2
      <4> QED
        BY <2>6, <3>1, <3>2, <4>1 DEF LinkAt
    <3>3. CASE n # L
      <4>1. L - n \in 1 .. Len(e.cause)
        BY <2>3, <3>3
      <4>2. PICK i \in 1 .. Len(e.cause) : i = L - n
        BY <4>1
      <4>3. i + 1 = (L + 1) - n
        BY <2>3, <4>2
      <4>4. c2[i + 1] = e.cause[i]
        BY <2>6
      <4>5. c2[(L + 1) - n] = e.cause[L - n]
        BY <4>2, <4>3, <4>4
      <4> QED
        BY <3>1, <3>3, <4>5 DEF LinkAt
    <3> QED
      BY <3>2, <3>3
  <2> HIDE DEF L
  <2>12. ASSUME NEW n \in 1 .. L + 1
         PROVE  LinkHolds(m2, n, LinkAt(e2, n).frames, LinkAt(e2, n).severity)
    <3>1. CASE n = L + 1
      <4>1. n = LinkIn(Append(m, x), Len(m) + 1)
        BY <2>2, <2>9, <3>1
      <4>2. LinkHolds(Append(m, x), n, <<x.frame>>, x.severity)
        BY <4>1, LinkBegins
      <4> QED
        BY <2>2, <2>10, <3>1, <4>2
    <3>2. CASE n # L + 1
      <4>1. n \in 1 .. L
        BY <2>3, <3>2
      <4>2. LinkHolds(m, n, LinkAt(e, n).frames, LinkAt(e, n).severity)
        BY <2>8, <4>1
      <4>3. LinkIn(Append(m, x), Len(m) + 1) # n
        BY <2>2, <2>9, <3>2
      <4>4. LinkHolds(Append(m, x), n, LinkAt(e, n).frames, LinkAt(e, n).severity)
        BY <4>2, <4>3, LinkStays
      <4> QED
        BY <2>2, <2>11, <4>1, <4>4
    <3> QED
      BY <3>1, <3>2
  <2>13. ErrorOf(e2, m2)
    BY <2>9, <2>10, <2>12 DEF ErrorOf
  <2> QED
    BY <2>1, <2>2, <2>7, <2>13
<1> QED
  BY <1>2, <1>3

-----------------------------------------------------------------------------
(* What a report shows.                                                     *)

\* Induction, for a set.
LEMMA EachNumber ==
    ASSUME NEW S, 0 \in S, \A n \in Nat : n \in S => n + 1 \in S
    PROVE  Nat \subseteq S
<1> SUFFICES ASSUME Nat \ S # {}
             PROVE  FALSE
  OBVIOUS
<1>1. PICK x \in Nat \ S : \A y \in Nat \ S : ~ (<<y, x>> \in OpToRel(<, Nat))
  BY WFMin, NatLessThanWellFounded, Zenon
<1>2. \A y \in Nat \ S : ~ (y < x)
  BY <1>1 DEF OpToRel
<1>3. x # 0 /\ x - 1 \in Nat
  OBVIOUS
<1>4. x - 1 \in S
  BY <1>2, <1>3
<1>5. (x - 1) + 1 \in S
  BY <1>3, <1>4
<1> QED
  BY <1>5

\* What is put out of the last n of l frames.
TextOf(g, frames, l, n, verbose) ==
    g = [k \in 0 .. n |->
            IF k = 0 THEN <<>>
            ELSE IF k = 1 \/ verbose \/ ~ frames[l + 1 - k].debug
            THEN Append(g[k - 1], frames[l + 1 - k])
            ELSE g[k - 1]]

LEMMA TextExists ==
    ASSUME NEW frames, NEW verbose, NEW l, NEW n \in Nat
    PROVE  \E g : TextOf(g, frames, l, n, verbose)
<1> DEFINE Good == {k \in Nat : \E g : TextOf(g, frames, l, k, verbose)}
           More(t, k) ==
              IF k = 1 \/ verbose \/ ~ frames[l + 1 - k].debug
              THEN Append(t, frames[l + 1 - k])
              ELSE t
<1>1. 0 \in Good
  <2>1. TextOf([k \in 0 .. 0 |-> <<>>], frames, l, 0, verbose)
    BY DEF TextOf
  <2> QED
    BY <2>1
<1>2. ASSUME NEW k \in Nat, k \in Good
      PROVE  k + 1 \in Good
  <2>1. PICK g : TextOf(g, frames, l, k, verbose)
    BY <1>2
  <2> DEFINE h == [j \in 0 .. k + 1 |-> IF j = k + 1 THEN More(g[k], k + 1) ELSE g[j]]
  <2>2. \A j \in 0 .. k : g[j] = IF j = 0 THEN <<>> ELSE More(g[j - 1], j)
    BY <2>1 DEF TextOf
  <2> HIDE DEF More
  <2>3. ASSUME NEW j \in 0 .. k + 1
        PROVE  h[j] = IF j = 0 THEN <<>> ELSE More(h[j - 1], j)
    <3>1. CASE j = k + 1
      <4>1. h[j] = More(g[k], k + 1) /\ j # 0 /\ j - 1 = k /\ k \in 0 .. k + 1 /\ h[k] = g[k]
        BY <3>1
      <4> HIDE DEF h
      <4> QED
        BY <3>1, <4>1
    <3>2. CASE j # k + 1
      <4>1. j \in 0 .. k /\ h[j] = g[j] /\ (j # 0 => j - 1 \in 0 .. k /\ h[j - 1] = g[j - 1])
        BY <3>2
      <4> HIDE DEF h
      <4> QED
        BY <2>2, <4>1
    <3> QED
      BY <3>1, <3>2
  <2>4. h = [j \in 0 .. k + 1 |-> h[j]]
    OBVIOUS
  <2> HIDE DEF h
  <2>5. TextOf(h, frames, l, k + 1, verbose)
    BY <2>3, <2>4 DEF TextOf, More
  <2> QED
    BY <2>5
<1> HIDE DEF Good
<1>3. Nat \subseteq Good
  BY <1>1, <1>2, EachNumber
<1> QED
  BY <1>3 DEF Good

\* The text of the frames from a to b, in the order of their making: the later
\* first, each once, and but for the last only frames for debugging are missing.
Tells(text, frames, a, b, all) ==
    /\ text \in Seq(Frames)
    /\ \A i \in 1 .. Len(text) : text[i].id \in a .. b
    /\ \A i, j \in 1 .. Len(text) : i < j => text[i].id > text[j].id
    /\ \A q \in a .. b : \/ \E i \in 1 .. Len(text) : text[i].id = q
                         \/ q # all /\ frames[q].debug

\* One more frame, made before those of the text.
LEMMA TellsMore ==
    ASSUME NEW text, NEW frames, NEW a \in Nat, NEW b \in Nat, NEW all,
           Tells(text, frames, a + 1, b, all), a <= b, NEW f \in Frames, f.id = a
    PROVE  Tells(Append(text, f), frames, a, b, all)
<1>1. PICK t : t = Append(text, f)
  OBVIOUS
<1>2. /\ text \in Seq(Frames) /\ Len(text) \in Nat
      /\ \A i \in 1 .. Len(text) : text[i].id \in a + 1 .. b
      /\ \A i, j \in 1 .. Len(text) : i < j => text[i].id > text[j].id
      /\ \A q \in a + 1 .. b : \/ \E i \in 1 .. Len(text) : text[i].id = q
                               \/ q # all /\ frames[q].debug
  BY DEF Tells
<1>3. /\ t \in Seq(Frames) /\ Len(t) = Len(text) + 1
      /\ \A i \in 1 .. Len(text) : t[i] = text[i]
      /\ t[Len(text) + 1] = f
  BY <1>1, <1>2
<1>4. \A i \in 1 .. Len(text) + 1 : i \in 1 .. Len(text) \/ i = Len(text) + 1
  BY <1>2
<1>5. \A i \in 1 .. Len(text) : i \in 1 .. Len(text) + 1 /\ t[i].id \in a + 1 .. b
  BY <1>2, <1>3
<1>6. \A i \in 1 .. Len(t) : t[i].id \in a .. b
  BY <1>2, <1>3, <1>4, <1>5
<1>7. ASSUME NEW i \in 1 .. Len(t), NEW j \in 1 .. Len(t), i < j
      PROVE  t[i].id > t[j].id
  <2>1. i \in 1 .. Len(text)
    BY <1>2, <1>3, <1>7
  <2>2. CASE j = Len(text) + 1
    BY <1>3, <1>5, <2>1, <2>2
  <2>3. CASE j # Len(text) + 1
    <3>1. j \in 1 .. Len(text)
      BY <1>3, <1>4, <2>3
    <3> QED
      BY <1>2, <1>3, <1>7, <2>1, <3>1
  <2> QED
    BY <2>2, <2>3
<1>8. ASSUME NEW q \in a .. b
      PROVE  (\E i \in 1 .. Len(t) : t[i].id = q) \/ (q # all /\ frames[q].debug)
  <2>1. CASE q = a
    <3>1. Len(text) + 1 \in 1 .. Len(t) /\ t[Len(text) + 1].id = q
      BY <1>2, <1>3, <2>1
    <3> QED
      BY <3>1
  <2>2. CASE q # a
    <3>1. q \in a + 1 .. b
      BY <2>2
    <3>2. CASE \E i \in 1 .. Len(text) : text[i].id = q
      <4>1. PICK i \in 1 .. Len(text) : text[i].id = q
        BY <3>2
      <4>2. i \in 1 .. Len(t) /\ t[i].id = q
        BY <1>2, <1>3, <4>1
      <4> QED
        BY <4>2
    <3> QED
      BY <1>2, <3>1, <3>2
  <2> QED
    BY <2>1, <2>2
<1> QED
  BY <1>1, <1>3, <1>6, <1>7, <1>8 DEF Tells

\* One more that is left out.
LEMMA TellsNoMore ==
    ASSUME NEW text, NEW frames, NEW a \in Nat, NEW b \in Nat, NEW all,
           Tells(text, frames, a + 1, b, all), a <= b, a # all, frames[a].debug
    PROVE  Tells(text, frames, a, b, all)
<1>1. \A q : q \in a .. b <=> q = a \/ q \in a + 1 .. b
  OBVIOUS
<1> QED
  BY <1>1 DEF Tells

\* A link that holds what was said from a to b is told as that.
LEMMA FormatTells ==
    ASSUME NEW link \in Links, NEW verbose \in BOOLEAN, NEW frames,
           NEW a \in Nat \ {0}, NEW b \in Nat, a <= b,
           Len(link.frames) = (b + 1) - a,
           \A k \in 1 .. (b + 1) - a :
              link.frames[k] = frames[(a - 1) + k] /\ link.frames[k].id = (a - 1) + k
    PROVE  Tells(Format(link, verbose), frames, a, b, b)
<1> DEFINE N == Len(link.frames)
           g == CHOOSE t : TextOf(t, link.frames, N, N, verbose)
           Good == {k \in Nat : k <= N => Tells(g[k], frames, (b + 1) - k, b, b)}
<1>1. N \in Nat /\ N = (b + 1) - a
  BY DEF Links
<1>2. Format(link, verbose) = g[N]
  BY DEF Format, TextOf
<1> HIDE DEF N
<1>3. TextOf(g, link.frames, N, N, verbose)
  BY <1>1, TextExists
<1> HIDE DEF g
<1>4. g[0] = <<>>
  BY <1>1, <1>3 DEF TextOf
<1>5. ASSUME NEW k \in Nat, k + 1 <= N
      PROVE  g[k + 1] = IF k + 1 = 1 \/ verbose \/ ~ link.frames[N + 1 - (k + 1)].debug
                        THEN Append(g[k], link.frames[N + 1 - (k + 1)])
                        ELSE g[k]
  <2>1. k + 1 \in 0 .. N /\ k + 1 # 0 /\ (k + 1) - 1 = k
    BY <1>1, <1>5
  <2>2. \A j \in 0 .. N :
           g[j] = IF j = 0 THEN <<>>
                  ELSE IF j = 1 \/ verbose \/ ~ link.frames[N + 1 - j].debug
                  THEN Append(g[j - 1], link.frames[N + 1 - j])
                  ELSE g[j - 1]
    BY <1>3 DEF TextOf
  <2> QED
    BY <2>1, <2>2
<1>6. 0 \in Good
  <2>1. \A q : q \notin (b + 1) - 0 .. b
    OBVIOUS
  <2>2. <<>> \in Seq(Frames) /\ Len(<<>>) = 0
    OBVIOUS
  <2>3. Tells(<<>>, frames, (b + 1) - 0, b, b)
    BY <2>1, <2>2 DEF Tells
  <2> QED
    BY <1>4, <2>3
<1>7. ASSUME NEW k \in Nat, k \in Good
      PROVE  k + 1 \in Good
  <2> SUFFICES ASSUME k + 1 <= N
               PROVE  Tells(g[k + 1], frames, (b + 1) - (k + 1), b, b)
    OBVIOUS
  <2>1. PICK q : q = (b + 1) - (k + 1)
    OBVIOUS
  <2>2. /\ q \in Nat /\ q <= b /\ q + 1 = (b + 1) - k
        /\ N + 1 - (k + 1) \in 1 .. (b + 1) - a
        /\ (a - 1) + (N + 1 - (k + 1)) = q
        /\ k + 1 = 1 <=> q = b
    BY <1>1, <2>1
  <2>3. Tells(g[k], frames, q + 1, b, b)
    BY <1>1, <1>7, <2>2
  <2>4. PICK f : f = link.frames[N + 1 - (k + 1)]
    OBVIOUS
  <2>5. f = frames[q] /\ f.id = q /\ f \in Frames
    <3>1. link.frames \in Seq(Frames)
      BY DEF Links
    <3>2. PICK k0 \in 1 .. (b + 1) - a : k0 = N + 1 - (k + 1)
      BY <2>2
    <3>3. link.frames[k0] = frames[(a - 1) + k0] /\ link.frames[k0].id = (a - 1) + k0
      OBVIOUS
    <3>4. k0 \in 1 .. Len(link.frames)
      OBVIOUS
    <3>5. link.frames[k0] \in Frames
      BY <3>1, <3>4
    <3> QED
      BY <2>2, <2>4, <3>2, <3>3, <3>5
  <2>6. g[k + 1] = IF q = b \/ verbose \/ ~ f.debug THEN Append(g[k], f) ELSE g[k]
    BY <1>5, <2>2, <2>4
  <2>7. CASE q = b \/ verbose \/ ~ f.debug
    <3>1. Tells(Append(g[k], f), frames, q, b, b)
      BY <2>2, <2>3, <2>5, TellsMore
    <3> QED
      BY <2>1, <2>6, <2>7, <3>1
  <2>8. CASE ~ (q = b \/ verbose \/ ~ f.debug)
    <3>1. q # b /\ frames[q].debug
      BY <2>5, <2>8
    <3>2. Tells(g[k], frames, q, b, b)
      BY <2>2, <2>3, <3>1, TellsNoMore
    <3> QED
      BY <2>1, <2>6, <2>8, <3>2
  <2> QED
    BY <2>7, <2>8
<1>8. N \in Good
  <2> HIDE DEF Good
  <2> QED
    BY <1>1, <1>6, <1>7, EachNumber
<1>9. (b + 1) - N = a /\ N <= N
  BY <1>1
<1> QED
  BY <1>2, <1>8, <1>9

-----------------------------------------------------------------------------
\* ReportTellsAll, of one link and of any report.
TellsLink(v, m, n) ==
    LET mine == {i \in DOMAIN m : LinkIn(m, i) = n}
        ids  == [i \in DOMAIN v.text |-> v.text[i].id]
    IN  /\ \A i, j \in DOMAIN ids : i < j => ids[i] > ids[j]
        /\ ToSet(ids) \subseteq mine
        /\ \A i \in mine \ ToSet(ids) : m[i].frame.debug /\ i # Max(mine)
        /\ v.severity = IF \E i \in mine : m[i].severity = "Fatal"
                        THEN "Fatal" ELSE m[Max(mine)].severity

TellsAll(s, m) ==
    s # <<>> =>
        /\ Len(s) = LinkIn(m, Len(m))
        /\ \A n \in DOMAIN s : TellsLink(s[n], m, n)

LEMMA LinkTold ==
    ASSUME NEW m \in Seq(Sayings), NEW n, NEW v, NEW frames, NEW severity, NEW told,
           NEW a \in 1 .. Len(m), NEW b \in 1 .. Len(m),
           LinkSpans(m, Len(m), n, frames, severity, a, b),
           \A i \in 1 .. Len(m) : told[i] = m[i].frame,
           Tells(v.text, told, a, b, b), v.severity = severity
    PROVE  TellsLink(v, m, n)
<1> DEFINE mine == {i \in DOMAIN m : LinkIn(m, i) = n}
           ids == [i \in DOMAIN v.text |-> v.text[i].id]
<1>1. /\ a <= b
      /\ \A i \in 1 .. Len(m) : LinkIn(m, i) = n <=> a <= i /\ i <= b
      /\ severity = IF \E i \in a .. b : m[i].severity = "Fatal" THEN "Fatal" ELSE m[b].severity
  BY DEF LinkSpans
<1>2. DOMAIN m = 1 .. Len(m) /\ Len(m) \in Nat
  OBVIOUS
<1>3. \A i : i \in mine <=> i \in a .. b
  BY <1>1, <1>2
<1>4. mine = a .. b
  BY <1>3
<1>5. Max(mine) = b
  <2>1. b \in mine /\ \A y \in mine : b >= y
    BY <1>1, <1>4
  <2>2. \A x \in mine : (\A y \in mine : x >= y) => x = b
    BY <1>1, <1>4
  <2> HIDE DEF mine
  <2> QED
    BY <2>1, <2>2 DEF Max
<1>6. /\ v.text \in Seq(Frames) /\ DOMAIN v.text = 1 .. Len(v.text)
      /\ \A i \in 1 .. Len(v.text) : v.text[i].id \in a .. b
      /\ \A i, j \in 1 .. Len(v.text) : i < j => v.text[i].id > v.text[j].id
      /\ \A q \in a .. b : \/ \E i \in 1 .. Len(v.text) : v.text[i].id = q
                           \/ q # b /\ told[q].debug
  BY DEF Tells
<1>7. DOMAIN ids = 1 .. Len(v.text) /\ \A i \in 1 .. Len(v.text) : ids[i] = v.text[i].id
  BY <1>6
<1>8. ToSet(ids) = {ids[i] : i \in DOMAIN ids}
  BY DEF ToSet
<1> HIDE DEF ids, mine
<1>9. \A i, j \in DOMAIN ids : i < j => ids[i] > ids[j]
  BY <1>6, <1>7
<1>10. ToSet(ids) \subseteq mine
  BY <1>4, <1>6, <1>7, <1>8
<1>11. ASSUME NEW i \in mine \ ToSet(ids)
       PROVE  m[i].frame.debug /\ i # Max(mine)
  <2>1. i \in a .. b /\ i \in 1 .. Len(m)
    BY <1>4
  <2>2. ~ \E k \in 1 .. Len(v.text) : v.text[k].id = i
    BY <1>7, <1>8
  <2>3. i # b /\ told[i].debug
    BY <1>6, <2>1, <2>2
  <2> QED
    BY <1>5, <2>1, <2>3
<1>12. v.severity = IF \E i \in mine : m[i].severity = "Fatal"
                    THEN "Fatal" ELSE m[Max(mine)].severity
  BY <1>1, <1>4, <1>5
<1> QED
  BY <1>9, <1>10, <1>11, <1>12 DEF TellsLink, ids, mine

\* One link of a report.
LEMMA FormatTold ==
    ASSUME NEW m \in Seq(Sayings), \A i \in DOMAIN m : m[i].frame.id = i, NEW n,
           NEW link \in Links, NEW verbose \in BOOLEAN,
           LinkHolds(m, n, link.frames, link.severity)
    PROVE  TellsLink([severity |-> link.severity, text |-> Format(link, verbose)], m, n)
<1>1. PICK a, b \in 1 .. Len(m) :
         LinkSpans(m, Len(m), n, link.frames, link.severity, a, b)
  BY DEF LinkHolds
<1>2. PICK told : told = [i \in 1 .. Len(m) |-> m[i].frame]
  OBVIOUS
<1>3. \A i \in 1 .. Len(m) : told[i] = m[i].frame /\ told[i].id = i
  BY <1>2
<1>4. /\ a <= b /\ link.frames = [k \in 1 .. (b + 1) - a |-> m[(a - 1) + k].frame]
      /\ a \in Nat \ {0} /\ b \in Nat /\ (b + 1) - a \in Nat
  BY <1>1 DEF LinkSpans
<1>5. Len(link.frames) = (b + 1) - a
  BY <1>4 DEF Links
<1>6. \A k \in 1 .. (b + 1) - a : link.frames[k] = m[(a - 1) + k].frame /\ (a - 1) + k \in 1 .. Len(m)
  BY <1>4
<1>7. \A k \in 1 .. (b + 1) - a :
         link.frames[k] = told[(a - 1) + k] /\ link.frames[k].id = (a - 1) + k
  BY <1>3, <1>6
<1>8. Tells(Format(link, verbose), told, a, b, b)
  BY <1>4, <1>5, <1>7, FormatTells
<1>9. PICK v : v = [severity |-> link.severity, text |-> Format(link, verbose)]
  OBVIOUS
<1>10. v.severity = link.severity /\ v.text = Format(link, verbose)
  BY <1>9
<1>11. Tells(v.text, told, a, b, b)
  BY <1>8, <1>10
<1>12. TellsLink(v, m, n)
  BY <1>1, <1>3, <1>10, <1>11, LinkTold
<1> QED
  BY <1>9, <1>12

\* The chain of an error is its links, from the root cause on.
LEMMA ChainIs ==
    ASSUME NEW e \in Errors
    PROVE  /\ DOMAIN GetChain(e) = 1 .. Len(e.cause) + 1
           /\ \A n \in 1 .. Len(e.cause) + 1 :
                 GetChain(e)[n] = LinkAt(e, n) /\ GetChain(e)[n] \in Links
<1> DEFINE L == Len(e.cause) + 1
<1>1. PICK k : k = Link(e)
  OBVIOUS
<1>2. PICK s : s = <<k>> \o e.cause
  OBVIOUS
<1>3. e.cause \in Seq(Links) /\ Len(e.cause) \in Nat
  BY DEF Errors
<1>4. k \in Links
  BY <1>1 DEF Errors, Link, Links
<1>5. /\ s \in Seq(Links) /\ Len(s) = L /\ s[1] = k
      /\ \A i \in 1 .. Len(e.cause) : s[i + 1] = e.cause[i]
  BY <1>2, <1>3, <1>4
<1>6. GetChain(e) = [i \in 1 .. L |-> s[(L - i) + 1]]
  BY <1>1, <1>2, <1>5 DEF GetChain, Reverse
<1>7. ASSUME NEW n \in 1 .. L
      PROVE  s[(L - n) + 1] = LinkAt(e, n) /\ s[(L - n) + 1] \in Links
  <2>1. CASE n = L
    <3>1. (L - n) + 1 = 1
      BY <1>3, <2>1
    <3> QED
      BY <1>1, <1>4, <1>5, <2>1, <3>1 DEF LinkAt
  <2>2. CASE n # L
    <3>1. L - n \in 1 .. Len(e.cause)
      BY <1>3, <2>2
    <3>2. PICK i \in 1 .. Len(e.cause) : i = L - n
      BY <3>1
    <3>3. LinkAt(e, n) = e.cause[i]
      BY <2>2, <3>2 DEF LinkAt
    <3>4. s[(L - n) + 1] = e.cause[i]
      BY <1>5, <3>2
    <3>5. e.cause[i] \in Links
      BY <1>3
    <3> QED
      BY <3>3, <3>4, <3>5
  <2> QED
    BY <2>1, <2>2
<1> HIDE DEF L
<1>8. DOMAIN GetChain(e) = 1 .. L /\ \A n \in 1 .. L : GetChain(e)[n] = s[(L - n) + 1]
  BY <1>6
<1> QED
  BY <1>7, <1>8 DEF L

LEMMA ReportTold ==
    ASSUME NEW m \in Seq(Sayings), m # <<>>, \A i \in DOMAIN m : m[i].frame.id = i,
           NEW e \in Errors, ErrorOf(e, m), NEW verbose \in BOOLEAN
    PROVE  TellsAll([i \in DOMAIN GetChain(e) |->
                        [severity |-> GetChain(e)[i].severity,
                         text     |-> Format(GetChain(e)[i], verbose)]], m)
<1> DEFINE L == Len(e.cause) + 1
           told(i) == [severity |-> GetChain(e)[i].severity,
                       text     |-> Format(GetChain(e)[i], verbose)]
<1>1. L \in Nat /\ DOMAIN GetChain(e) = 1 .. L
  BY ChainIs DEF Errors
<1>2. /\ LinkIn(m, Len(m)) = L
      /\ \A n \in 1 .. L : LinkHolds(m, n, LinkAt(e, n).frames, LinkAt(e, n).severity)
  BY DEF ErrorOf
<1>3. \A n \in 1 .. L : GetChain(e)[n] = LinkAt(e, n) /\ GetChain(e)[n] \in Links
  BY ChainIs
<1> HIDE DEF L
<1>4. ASSUME NEW n \in 1 .. L
      PROVE  TellsLink(told(n), m, n)
  <2>1. PICK link \in Links : link = GetChain(e)[n]
    BY <1>3
  <2>2. LinkHolds(m, n, link.frames, link.severity)
    BY <1>2, <1>3, <2>1
  <2>3. TellsLink([severity |-> link.severity, text |-> Format(link, verbose)], m, n)
    BY <2>2, FormatTold
  <2> QED
    BY <2>1, <2>3
<1> HIDE DEF told
<1>5. PICK s : s = [i \in DOMAIN GetChain(e) |-> told(i)]
  OBVIOUS
<1>6. PICK S : S = {told(i) : i \in 1 .. L}
  OBVIOUS
<1>7. s \in Seq(S) /\ Len(s) = L
  BY <1>1, <1>5, <1>6
<1>8. DOMAIN s = 1 .. L /\ \A n \in 1 .. L : s[n] = told(n)
  BY <1>1, <1>5
<1>9. TellsAll(s, m)
  BY <1>2, <1>4, <1>7, <1>8 DEF TellsAll
<1> QED
  BY <1>5, <1>9 DEF told

-----------------------------------------------------------------------------
(* The steps.                                                               *)

LEMMA ErrStart ==
    ErrInit => ErrIInv
<1> SUFFICES ASSUME ErrInit
             PROVE  ErrIInv
  OBVIOUS
<1>1. err = EmptyError /\ made = <<>> /\ shown = <<>>
  BY DEF ErrInit
<1>2. EmptyError \in Errors
  BY DEF EmptyError, Errors, Severities
<1>3. made \in Seq(Sayings) /\ DOMAIN made = {}
  BY <1>1
<1>4. ErrorOf(err, made)
  BY <1>1 DEF ErrorOf
<1>5. ReportTellsAll
  BY <1>1 DEF ReportTellsAll
<1> QED
  BY <1>1, <1>2, <1>3, <1>4, <1>5 DEF ErrIInv

\* What every message does beside the error.
LEMMA SaidRight ==
    ASSUME ErrIInv, NEW how \in {"add", "chain"}, NEW debug \in BOOLEAN, NEW severity \in Severities,
           Say(how, Frame(debug), severity)
    PROVE  \E x \in Sayings :
              /\ x.frame = Frame(debug) /\ x.severity = severity /\ x.how = how
              /\ made' = Append(made, x) /\ made' \in Seq(Sayings)
              /\ \A i \in DOMAIN made' : made'[i].frame.id = i
              /\ ReportTellsAll'
<1>1. made \in Seq(Sayings) /\ \A i \in DOMAIN made : made[i].frame.id = i
  BY DEF ErrIInv
<1>2. PICK f : f = Frame(debug)
  OBVIOUS
<1>3. f \in Frames /\ f.id = Len(made) + 1
  BY <1>1, <1>2 DEF Frame, Frames
<1>4. PICK x : x = [frame |-> f, severity |-> severity, how |-> how]
  OBVIOUS
<1>5. x \in Sayings /\ x.frame = f /\ x.severity = severity /\ x.how = how
  BY <1>3, <1>4 DEF Sayings
<1>6. made' = Append(made, x) /\ shown' = <<>>
  BY <1>2, <1>4 DEF Say
<1>7. /\ Append(made, x) \in Seq(Sayings) /\ DOMAIN Append(made, x) = 1 .. Len(made) + 1
      /\ \A i \in 1 .. Len(made) : Append(made, x)[i] = made[i]
      /\ Append(made, x)[Len(made) + 1] = x
      /\ DOMAIN made = 1 .. Len(made) /\ Len(made) \in Nat
  BY <1>1, <1>5, Said
<1>8. \A i \in 1 .. Len(made) + 1 : i \in 1 .. Len(made) \/ i = Len(made) + 1
  BY <1>7
<1>9. \A i \in DOMAIN Append(made, x) : Append(made, x)[i].frame.id = i
  BY <1>1, <1>3, <1>5, <1>7, <1>8
<1>10. ReportTellsAll'
  BY <1>6 DEF ReportTellsAll
<1> QED
  BY <1>2, <1>5, <1>6, <1>7, <1>9, <1>10

LEMMA ErrStep ==
    ErrIInv /\ [ErrNext]_errVars => ErrIInv'
<1> SUFFICES ASSUME ErrIInv, [ErrNext]_errVars
             PROVE  ErrIInv'
  OBVIOUS
<1>1. /\ made \in Seq(Sayings) /\ err \in Errors /\ ErrorOf(err, made)
      /\ \A i \in DOMAIN made : made[i].frame.id = i
  BY DEF ErrIInv
<1>2. ASSUME NEW s \in Severities, NEW debug \in BOOLEAN, NewError(s, debug)
      PROVE  ErrIInv'
  <2>1. made = <<>> /\ Say("add", Frame(debug), s) /\ err' = Make(Frame(debug), s)
    BY <1>2 DEF NewError
  <2>2. PICK x \in Sayings :
           /\ x.frame = Frame(debug) /\ x.severity = s /\ x.how = "add"
           /\ made' = Append(made, x) /\ made' \in Seq(Sayings)
           /\ \A i \in DOMAIN made' : made'[i].frame.id = i
           /\ ReportTellsAll'
    BY <2>1, SaidRight
  <2>3. err' \in Errors /\ ErrorOf(err', made')
    BY <2>1, <2>2, MadeRight
  <2> QED
    BY <2>2, <2>3 DEF ErrIInv
<1>3. ASSUME NEW s \in Severities, NEW debug \in BOOLEAN, AddFrame(s, debug)
      PROVE  ErrIInv'
  <2>1. Say("add", Frame(debug), s) /\ err' = Add(err, Frame(debug), s)
    BY <1>3 DEF AddFrame
  <2>2. PICK x \in Sayings :
           /\ x.frame = Frame(debug) /\ x.severity = s /\ x.how = "add"
           /\ made' = Append(made, x) /\ made' \in Seq(Sayings)
           /\ \A i \in DOMAIN made' : made'[i].frame.id = i
           /\ ReportTellsAll'
    BY <2>1, SaidRight
  <2>3. err' \in Errors /\ ErrorOf(err', made')
    <3>1. /\ Add(err, x.frame, x.severity) \in Errors
          /\ ErrorOf(Add(err, x.frame, x.severity), Append(made, x))
      BY <1>1, <2>2, AddedRight
    <3> QED
      BY <2>1, <2>2, <3>1
  <2> QED
    BY <2>2, <2>3 DEF ErrIInv
<1>4. ASSUME NEW s \in Severities, NEW debug \in BOOLEAN, ChainFrame(s, debug)
      PROVE  ErrIInv'
  <2>1. Say("chain", Frame(debug), s) /\ err' = Chain(err, Frame(debug), s)
    BY <1>4 DEF ChainFrame
  <2>2. PICK x \in Sayings :
           /\ x.frame = Frame(debug) /\ x.severity = s /\ x.how = "chain"
           /\ made' = Append(made, x) /\ made' \in Seq(Sayings)
           /\ \A i \in DOMAIN made' : made'[i].frame.id = i
           /\ ReportTellsAll'
    BY <2>1, SaidRight
  <2>3. err' \in Errors /\ ErrorOf(err', made')
    <3>1. /\ Chain(err, x.frame, x.severity) \in Errors
          /\ ErrorOf(Chain(err, x.frame, x.severity), Append(made, x))
      BY <1>1, <2>2, ChainedRight
    <3> QED
      BY <2>1, <2>2, <3>1
  <2> QED
    BY <2>2, <2>3 DEF ErrIInv
<1>5. ASSUME NEW verbose \in BOOLEAN, Report(verbose)
      PROVE  ErrIInv'
  <2>1. /\ made # <<>> /\ err' = err /\ made' = made
        /\ shown' = [i \in DOMAIN GetChain(err) |->
                        [severity |-> GetChain(err)[i].severity,
                         text     |-> Format(GetChain(err)[i], verbose)]]
    BY <1>5 DEF Report
  <2>2. TellsAll([i \in DOMAIN GetChain(err) |->
                        [severity |-> GetChain(err)[i].severity,
                         text     |-> Format(GetChain(err)[i], verbose)]], made)
    BY <1>1, <2>1, ReportTold
  <2>3. TellsAll(shown', made')
    BY <2>1, <2>2
  <2>4. ReportTellsAll'
    BY <2>3 DEF ReportTellsAll, TellsAll, TellsLink, LinkOf, LinkIn, ChainsIn
  <2> QED
    BY <1>1, <2>1, <2>4 DEF ErrIInv
<1>6. CASE UNCHANGED errVars
  <2>1. err' = err /\ made' = made /\ shown' = shown
    BY <1>6 DEF errVars
  <2>2. ReportTellsAll
    BY DEF ErrIInv
  <2>3. TellsAll(shown, made)
    BY <2>2 DEF ReportTellsAll, TellsAll, TellsLink, LinkOf, LinkIn, ChainsIn
  <2>4. TellsAll(shown', made')
    BY <2>1, <2>3
  <2>5. ReportTellsAll'
    BY <2>4 DEF ReportTellsAll, TellsAll, TellsLink, LinkOf, LinkIn, ChainsIn
  <2> QED
    BY <1>1, <2>1, <2>5 DEF ErrIInv
<1> QED
  BY <1>2, <1>3, <1>4, <1>5, <1>6 DEF ErrNext

\* The error a function holds is what was said of it: its links, from the root
\* cause on, share out the frames made among them without gap or overlap, each
\* link fatal once anything in it was, and otherwise as severe as what was said of
\* it last (Error.h, Add and Chain).
THEOREM ErrorInvariant == ErrSpec => []ErrIInv
<1> QED
  BY ErrStart, ErrStep, PTL DEF ErrSpec

\* However often an error was added to and chained, its report tells what was said,
\* link by link and in order; a fatal severity is kept, any other is the last one
\* said of the link (ErrorOutput::Report, Format).
THEOREM ReportsTellAll == ErrSpec => []ReportTellsAll
<1>1. ErrIInv => ReportTellsAll
  BY DEF ErrIInv
<1> QED
  BY <1>1, ErrorInvariant, PTL

=============================================================================
