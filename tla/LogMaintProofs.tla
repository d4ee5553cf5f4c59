--------------------------- MODULE LogMaintProofs ---------------------------
(***************************************************************************)
(* Proofs about LogMaint: for any number of programs, any logs and any       *)
(* control file, the threads that maintain one directory never fail on each  *)
(* other, and leave the logs the control file asks for.                      *)
(***************************************************************************)
EXTENDS LogMaint, FiniteSetTheorems, TLAPS

MainPlaces == {"start", "mkdir", "name", "probe", "open", "running", "exiting",
               "ended", "crashed"}

MaintPlaces == Maintaining \cup {"none", "ctrl", "lock", "done", "beaten", "undefined",
                                 "crashed", "thrown"}

Works == [listed : SUBSET Names, visited : SUBSET Names, victim : Names \cup {NoLog},
          files : Seq(Names),
          stamps : {<<>>} \cup UNION {[S -> Nat] : S \in SUBSET Names}, count : Nat]

Shapes ==
    /\ written \in [Logs -> Nat] /\ IsFiniteSet(Logs)
    /\ logDir \in {"absent", "directory", "file"}
    /\ main \in [Programs -> MainPlaces]
    /\ log \in [Programs -> Names \cup {NoLog}]
    /\ maint \in [Programs -> MaintPlaces]
    /\ work \in [Programs -> Works]

\* A program looks for a name once there is a directory, and has its log from
\* then on; its thread begins after that, and lives no longer than it does.
Stages ==
    \A p \in Programs :
        /\ main[p] \in {"name", "probe", "open"} => logDir = "directory"
        /\ main[p] \in {"probe", "open", "running", "exiting"} => log[p] \in Names
        /\ main[p] \in {"start", "mkdir", "name", "probe", "open"} => maint[p] = "none"
        /\ maint[p] \in {"ctrl", "lock"} \cup Maintaining => main[p] \in {"running", "exiting"}

\* The holder of the lock maintains, and nobody else knows anything.
LockHeld ==
    \A p \in Programs :
        /\ maint[p] \in Maintaining <=> lock = p
        /\ maint[p] \notin Maintaining => work[p] = NoWork
        /\ maint[p] \in {"lock"} \cup Maintaining => ctrl # Malformed

\* Nobody else deletes logs: those a thread has not visited yet are there, and
\* those it has kept, each once.
Listed ==
    \A p \in Programs :
        maint[p] \in Maintaining =>
            /\ work[p].listed \ work[p].visited \subseteq Logs
            /\ Range(work[p].files) \subseteq work[p].visited \cap Logs
            /\ IsInjective(work[p].files)
            /\ work[p].count <= Len(work[p].files)

\* The log it is about to remove is not one of those it has kept.
Victim ==
    \A p \in Programs :
        maint[p] = "remove" => work[p].victim \in work[p].visited \ Range(work[p].files)

\* After pass 1 all have been visited, and the rest of pass 2 leaves maxLogs.
Passed1 ==
    \A p \in Programs :
        maint[p] \in {"sort", "pass2"} =>
            /\ work[p].listed \subseteq work[p].visited
            /\ Len(work[p].files) - work[p].count = ctrl.maxLogs

Opened == {p \in Programs : main[p] \in {"running", "exiting", "ended", "crashed"}}

\* The logs that the programs beside p have opened.
OpenedBeside == [p \in Programs |-> {log[q] : q \in Opened \ {p}}]

\* A log the thread has visited and not kept is gone, is about to go, or has
\* been opened again by its name.
VisitedGone ==
    \A p \in Programs :
        maint[p] \in Maintaining =>
            work[p].visited \cap Logs \subseteq
                Range(work[p].files) \cup OpenedBeside[p]
                    \cup (IF maint[p] = "remove" THEN {work[p].victim} ELSE {})

\* A thread was beaten by one that maintains, has maintained or was killed.
BeatenBySome ==
    (\E p \in Programs : maint[p] = "beaten") =>
        \E p \in Programs : maint[p] \in Maintaining \cup {"done"} \/ main[p] = "crashed"

MaintIInv ==
    /\ TypeOK /\ Shapes /\ Stages /\ LockHeld /\ NothingThrown
    /\ Listed /\ Victim /\ Passed1 /\ VisitedGone /\ BeatenBySome

-----------------------------------------------------------------------------
(* Sequences of logs.                                                       *)

\* What a sequence holds, and what is left of it without its first element.
LEMMA RangeIn ==
    ASSUME NEW S, NEW s \in Seq(S)
    PROVE  Range(s) \subseteq S
BY DEF Range

LEMMA RangeAppend ==
    ASSUME NEW S, NEW s \in Seq(S), NEW x \in S
    PROVE  /\ Append(s, x) \in Seq(S) /\ Len(Append(s, x)) = Len(s) + 1
           /\ Range(Append(s, x)) = Range(s) \cup {x}
           /\ IsInjective(s) /\ x \notin Range(s) => IsInjective(Append(s, x))
<1> DEFINE a == Append(s, x)
<1>1. /\ a \in Seq(S) /\ Len(a) = Len(s) + 1 /\ DOMAIN a = 1 .. Len(s) + 1
      /\ \A i \in 1 .. Len(s) : a[i] = s[i]
      /\ a[Len(s) + 1] = x
  OBVIOUS
<1>2. DOMAIN s = 1 .. Len(s) /\ Len(s) \in Nat
  OBVIOUS
<1> HIDE DEF a
<1>3. Range(a) = Range(s) \cup {x}
  <2>1. \A i \in 1 .. Len(s) + 1 : i = Len(s) + 1 \/ i \in 1 .. Len(s)
    BY <1>2
  <2>2. Len(s) + 1 \in 1 .. Len(s) + 1
    BY <1>2
  <2>3. \A i \in 1 .. Len(s) : i \in 1 .. Len(s) + 1
    BY <1>2
  <2> QED
    BY <1>1, <1>2, <2>1, <2>2, <2>3 DEF Range
<1>4. IsInjective(s) /\ x \notin Range(s) => IsInjective(a)
  BY <1>1, <1>2 DEF IsInjective, Range
<1> QED
  BY <1>1, <1>3, <1>4 DEF a

LEMMA RangeTail ==
    ASSUME NEW S, NEW s \in Seq(S), s # <<>>, IsInjective(s)
    PROVE  /\ Head(s) \in Range(s)
           /\ Tail(s) \in Seq(S) /\ Len(Tail(s)) = Len(s) - 1
           /\ Range(Tail(s)) = Range(s) \ {Head(s)}
           /\ IsInjective(Tail(s))
<1> DEFINE a == Tail(s)
<1>1. /\ a \in Seq(S) /\ Len(a) = Len(s) - 1 /\ DOMAIN a = 1 .. Len(s) - 1
      /\ \A i \in 1 .. Len(s) - 1 : a[i] = s[i + 1]
      /\ Head(s) = s[1]
  OBVIOUS
<1>2. DOMAIN s = 1 .. Len(s) /\ Len(s) \in Nat \ {0}
  OBVIOUS
<1> HIDE DEF a
<1>3. \A i \in 1 .. Len(s) : i = 1 \/ (i - 1 \in 1 .. Len(s) - 1 /\ s[i] = a[i - 1])
  BY <1>1, <1>2
<1>4. \A i \in 1 .. Len(s) - 1 : i + 1 \in 1 .. Len(s) /\ i + 1 # 1
  BY <1>2
<1>5. Range(a) = Range(s) \ {Head(s)}
  <2>1. \A i \in 1 .. Len(s) - 1 : a[i] \in Range(s) \ {s[1]}
    BY <1>1, <1>2, <1>4 DEF Range, IsInjective
  <2>2. \A i \in 1 .. Len(s) : s[i] = s[1] \/ s[i] \in Range(a)
    BY <1>1, <1>2, <1>3 DEF Range
  <2> QED
    BY <1>1, <1>2, <2>1, <2>2 DEF Range
<1>6. IsInjective(a)
  BY <1>1, <1>2, <1>4 DEF IsInjective
<1>7. Head(s) \in Range(s)
  BY <1>1, <1>2 DEF Range
<1> QED
  BY <1>1, <1>5, <1>6, <1>7 DEF a

\* The elements of a sequence that are all different are as many as it is long.
LEMMA RangeCount ==
    ASSUME NEW S, NEW s \in Seq(S)
    PROVE  /\ IsFiniteSet(Range(s)) /\ Cardinality(Range(s)) <= Len(s)
           /\ IsInjective(s) => Cardinality(Range(s)) = Len(s)
<1>1. Len(s) \in Nat /\ DOMAIN s = 1 .. Len(s) /\ s \in [1 .. Len(s) -> S]
  OBVIOUS
<1>2. s \in Surjection(1 .. Len(s), Range(s))
  BY <1>1 DEF Surjection, Range
<1>3. IsFiniteSet(1 .. Len(s)) /\ Cardinality(1 .. Len(s)) = Len(s)
  BY <1>1, FS_Interval
<1>4. /\ IsFiniteSet(Range(s)) /\ Cardinality(Range(s)) <= Len(s)
      /\ Cardinality(Range(s)) = Len(s) <=> s \in Injection(1 .. Len(s), Range(s))
  <2> DEFINE D == 1 .. Len(s)
             R == Range(s)
  <2> HIDE DEF D, R
  <2>1. s \in Surjection(D, R) /\ IsFiniteSet(D) /\ Cardinality(D) = Len(s)
    BY <1>2, <1>3 DEF D, R
  <2>2. /\ IsFiniteSet(R) /\ Cardinality(R) <= Cardinality(D)
        /\ Cardinality(R) = Cardinality(D) <=> s \in Injection(D, R)
    BY <2>1, FS_Surjection
  <2> QED
    BY <2>1, <2>2 DEF D, R
<1>5. IsInjective(s) => s \in Injection(1 .. Len(s), Range(s))
  BY <1>1, <1>2 DEF IsInjective, Injection, Surjection
<1> QED
  BY <1>4, <1>5

\* SetToSeqs puts the elements of a finite set in an order.
LEMMA Orders ==
    ASSUME NEW S, IsFiniteSet(S), NEW s \in SetToSeqs(S)
    PROVE  /\ s \in Seq(S) /\ Len(s) = Cardinality(S)
           /\ Range(s) = S /\ IsInjective(s)
<1>1. Cardinality(S) \in Nat
  BY FS_CardinalityType
<1>2. /\ s \in [1 .. Cardinality(S) -> S]
      /\ \A i, j \in 1 .. Cardinality(S) : i # j => s[i] # s[j]
  BY DEF SetToSeqs
<1>3. s \in Seq(S) /\ Len(s) = Cardinality(S)
  BY <1>1, <1>2
<1>4. IsInjective(s)
  BY <1>2 DEF IsInjective
<1>5. Range(s) \in SUBSET S /\ Cardinality(Range(s)) = Cardinality(S)
  BY <1>3, <1>4, RangeIn, RangeCount
<1> QED
  BY <1>3, <1>4, <1>5, FS_Subset

-----------------------------------------------------------------------------
(* Types.                                                                   *)

LEMMA NextName ==
    ASSUME NEW n \in Names
    PROVE  [n EXCEPT ![2] = @ + 1] \in Names
BY DEF Names

LEMMA ControlTypes ==
    ASSUME ctrl \in Controls, ctrl # Malformed
    PROVE  ctrl.maxAge \in Nat /\ ctrl.maxLogs \in Nat
BY LogAssumption

LEMMA TypesAtFirst ==
    ASSUME MaintInit
    PROVE  MaintIInv
<1> USE DEF MaintInit, NoWork
<1>1. PICK old \in SUBSET OldLogs : (old # {} => logDir = "directory") /\ written = [l \in old |-> 0]
  OBVIOUS
<1>2. Logs = old /\ old \subseteq Names /\ IsFiniteSet(old)
  <2>1. IsFiniteSet(old)
    BY LogAssumption, FS_Subset
  <2>2. OldLogs \subseteq Names
    BY LogAssumption DEF Names
  <2> QED
    BY <1>1, <2>1, <2>2 DEF Logs
<1>3. NoWork \in Works /\ Range(NoWork.files) = {}
  BY DEF Works, Range
<1>4. TypeOK
  <2>1. \A p \in Programs : /\ work[p].listed \cup work[p].visited \cup Range(work[p].files) \subseteq Names
                             /\ work[p].count \in 0 .. Len(work[p].files)
    BY <1>3
  <2> QED
    BY <1>1, <1>2, <2>1, LogAssumption DEF TypeOK, Maintaining
<1>5. Shapes
  BY <1>1, <1>2, <1>3 DEF Shapes, MainPlaces, MaintPlaces
<1>6. Stages /\ LockHeld /\ NothingThrown
  BY LogAssumption DEF Stages, LockHeld, NothingThrown, Maintaining
<1>7. Listed /\ Victim /\ Passed1 /\ VisitedGone /\ BeatenBySome
  BY DEF Listed, Victim, Passed1, VisitedGone, BeatenBySome, Maintaining
<1> QED
  BY <1>4, <1>5, <1>6, <1>7 DEF MaintIInv

\* The state keeps its shape in a step of a program or of its thread.
LEMMA MainShapes ==
    ASSUME MaintIInv, NEW p \in Programs, Main(p)
    PROVE  Shapes' /\ Stages'
<1> USE DEF MaintIInv, Shapes, Stages, MainPlaces, MaintPlaces, Maintaining, dirVars, maintVars, MainTo
<1>1. CASE FindDir(p)
  BY <1>1 DEF FindDir, Logs
<1>2. CASE MakeDir(p)
  BY <1>2 DEF MakeDir, Logs
<1>3. CASE getLogName(p)
  <2>1. <<clock, -1>> \in Names
    BY LogAssumption DEF TypeOK, Names
  <2> QED
    BY <1>3, <2>1 DEF getLogName, Logs
<1>4. CASE Probe(p)
  <2>1. log[p] \in Names /\ [log[p] EXCEPT ![2] = @ + 1] \in Names
    BY <1>4, NextName DEF Probe
  <2> QED
    BY <1>4, <2>1 DEF Probe, Logs
<1>5. CASE Open(p)
  <2>1. Logs' = Logs \cup {log[p]} /\ IsFiniteSet(Logs')
    BY <1>5, FS_AddElement DEF Open, Logs
  <2>2. written' \in [Logs' -> Nat]
    BY <1>5, <2>1, LogAssumption DEF Open, Logs, TypeOK
  <2> QED
    BY <1>5, <2>1, <2>2 DEF Open
<1>6. CASE Write(p)
  <2>1. Logs' = Logs /\ written' \in [Logs -> Nat]
    BY <1>6, LogAssumption DEF Write, Logs, TypeOK
  <2> QED
    BY <1>6, <2>1 DEF Write
<1>7. CASE Exit(p)
  BY <1>7 DEF Exit, Logs
<1>8. CASE JoinMaint(p)
  BY <1>8 DEF JoinMaint, Logs
<1>9. CASE Crash(p)
  <2>1. NoWork \in Works
    BY DEF NoWork, Works
  <2> QED
    BY <1>9, <2>1 DEF Crash, Logs
<1>10. CASE OpenFails(p)
  BY <1>10 DEF OpenFails, Logs
<1> QED
  BY <1>1, <1>2, <1>3, <1>4, <1>5, <1>6, <1>7, <1>8, <1>9, <1>10 DEF Main

LEMMA MaintShapes ==
    ASSUME MaintIInv, NEW p \in Programs, logMaintWorker(p)
    PROVE  Shapes' /\ Stages'
<1> USE DEF MaintIInv, Shapes, Stages, MainPlaces, MaintPlaces, Maintaining, dirVars, MaintTo
<1>0. /\ NoWork \in Works
      /\ work[p] \in Works /\ work[p].files \in Seq(Names) /\ Logs \subseteq Names
  BY DEF NoWork, Works, TypeOK
<1>1. CASE openLogCtrl(p)
  BY <1>1 DEF openLogCtrl, Logs
<1>2. CASE TryAcquire(p)
  <2>1. [work[p] EXCEPT !.listed = Logs] \in Works
    BY <1>0 DEF Works
  <2>2. CASE Crash(p)
    BY <2>2, MainShapes DEF Main
  <2>3. CASE ~ Crash(p)
    BY <1>2, <2>1, <2>3 DEF TryAcquire, Begin, Logs
  <2> QED
    BY <2>2, <2>3
<1>3. ASSUME NEW l \in work[p].listed \cup Logs, checkLog(p, l)
      PROVE  Shapes' /\ Stages'
  <2>1. l \in Names
    BY <1>0 DEF Works
  <2>2. Append(work[p].files, l) \in Seq(Names)
    BY <1>0, <2>1
  <2>3. /\ [work[p] EXCEPT !.visited = @ \cup {l}, !.victim = l] \in Works
        /\ [work[p] EXCEPT !.visited = @ \cup {l}, !.files = Append(@, l)] \in Works
    BY <1>0, <2>1, <2>2 DEF Works
  <2>4. work' \in [Programs -> Works]
    BY <1>3, <2>3 DEF checkLog
  <2>5. /\ maint[p] = "pass1" /\ written' = written /\ logDir' = logDir
        /\ main' = main /\ log' = log
        /\ maint' \in {maint, [maint EXCEPT ![p] = "remove"], [maint EXCEPT ![p] = "thrown"]}
    BY <1>3 DEF checkLog
  <2>6. Shapes'
    BY <2>4, <2>5 DEF Logs
  <2>7. Stages'
    BY <2>5
  <2> QED
    BY <2>6, <2>7
<1>4. CASE RemoveOutOfDate(p)
  <2>1. [work[p] EXCEPT !.victim = NoLog] \in Works
    BY <1>0 DEF Works
  <2>2. Logs' = Logs \ {work[p].victim} /\ written' \in [Logs' -> Nat] /\ IsFiniteSet(Logs')
    BY <1>4, FS_RemoveElement DEF RemoveOutOfDate, Without, Restrict, Logs
  <2> QED
    BY <1>4, <2>1, <2>2 DEF RemoveOutOfDate
<1>5. CASE EndPass1(p)
  <2>1. CASE Excess(p) > 0
    <3> DEFINE stamps == Restrict(written, Range(work[p].files))
    <3>1. Range(work[p].files) \subseteq Logs /\ Range(work[p].files) \subseteq Names
      BY <1>0, <1>5, RangeIn DEF Listed, EndPass1
    <3>2. stamps \in [Range(work[p].files) -> Nat]
      BY <3>1 DEF Restrict
    <3>3. Excess(p) \in Nat
      <4>1. ctrl.maxLogs \in Nat
        BY <1>5, ControlTypes DEF LockHeld, EndPass1, TypeOK
      <4> QED
        BY <1>0, <2>1, <4>1 DEF Excess
    <3>4. stamps \in UNION {[S -> Nat] : S \in SUBSET Names}
      BY <3>1, <3>2
    <3> HIDE DEF stamps
    <3>5. [work[p] EXCEPT !.stamps = stamps, !.count = Excess(p)] \in Works
      BY <1>0, <3>3, <3>4 DEF Works
    <3> QED
      BY <1>5, <2>1, <3>5 DEF EndPass1, Logs, stamps
  <2>2. CASE ~ (Excess(p) > 0)
    BY <1>0, <1>5, <2>2 DEF EndPass1, Return, Logs
  <2> QED
    BY <2>1, <2>2
<1>6. CASE Sort(p)
  <2>1. CASE Range(work[p].files) \subseteq Logs
    <3>1. PICK order \in SetToSeqs(Range(work[p].files)) : work' = [work EXCEPT ![p].files = order]
      BY <1>6, <2>1 DEF Sort
    <3>2. IsFiniteSet(Range(work[p].files)) /\ Range(work[p].files) \subseteq Names
      BY <1>0, RangeIn, RangeCount
    <3>3. order \in Seq(Range(work[p].files))
      BY <3>2, Orders
    <3>4. order \in Seq(Names)
      BY <3>2, <3>3
    <3>5. [work[p] EXCEPT !.files = order] \in Works
      BY <1>0, <3>4 DEF Works
    <3> QED
      BY <1>6, <2>1, <3>1, <3>5 DEF Sort, Logs
  <2>2. CASE ~ (Range(work[p].files) \subseteq Logs)
    BY <1>6, <2>2 DEF Sort, Logs
  <2> QED
    BY <2>1, <2>2
<1>7. CASE deleteOldestLogs(p)
  <2>1. Len(work[p].files) # 0 /\ work[p].count \in Nat \ {0}
    BY <1>0, <1>7 DEF deleteOldestLogs, Listed, Works
  <2>2. Tail(work[p].files) \in Seq(Names) /\ work[p].count - 1 \in Nat
    BY <1>0, <2>1
  <2>3. [work[p] EXCEPT !.files = Tail(@), !.count = @ - 1] \in Works
    BY <1>0, <2>2 DEF Works
  <2>4. /\ Logs' = Logs \ {Head(work[p].files)} /\ written' \in [Logs' -> Nat]
        /\ IsFiniteSet(Logs')
    BY <1>7, FS_RemoveElement DEF deleteOldestLogs, Without, Restrict, Logs
  <2> QED
    BY <1>7, <2>3, <2>4 DEF deleteOldestLogs
<1>8. CASE EndPass2(p)
  BY <1>0, <1>8 DEF EndPass2, Return, Logs
<1> QED
  BY <1>1, <1>2, <1>3, <1>4, <1>5, <1>6, <1>7, <1>8 DEF logMaintWorker

\* The rest of TypeOK.
Bounds ==
    /\ clock \in 0 .. MaxClock
    /\ ctrl \in Controls
    /\ Logs \subseteq Names /\ \A l \in Logs : written[l] \in 0 .. clock
    /\ Logs # {} => logDir = "directory"
    /\ lock \in Programs \cup {NoProgram}
    /\ \A p \in Programs : maint[p] = "none" => main[p] \in {"start", "mkdir", "name",
                                                             "probe", "open", "ended"}

LEMMA MainBounds ==
    ASSUME MaintIInv, NEW p \in Programs, Main(p)
    PROVE  Bounds'
<1> USE DEF MaintIInv, TypeOK, Bounds, Shapes, Stages, MaintPlaces, Maintaining, dirVars, maintVars, MainTo
<1>1. CASE FindDir(p)
  BY <1>1 DEF FindDir, Logs
<1>2. CASE MakeDir(p)
  BY <1>2 DEF MakeDir, Logs
<1>3. CASE getLogName(p)
  BY <1>3 DEF getLogName, Logs
<1>4. CASE Probe(p)
  BY <1>4 DEF Probe, Logs
<1>5. CASE Open(p)
  BY <1>5, LogAssumption DEF Open, Logs
<1>6. CASE Write(p)
  <2>1. Logs' = Logs /\ \A l \in Logs : written'[l] = IF l = log[p] THEN clock ELSE written[l]
    BY <1>6 DEF Write, Logs
  <2> QED
    BY <1>6, <2>1, LogAssumption DEF Write
<1>7. CASE Exit(p)
  BY <1>7 DEF Exit, Logs
<1>8. CASE JoinMaint(p)
  BY <1>8 DEF JoinMaint, Logs
<1>9. CASE Crash(p)
  BY <1>9 DEF Crash, Logs
<1>10. CASE OpenFails(p)
  BY <1>10 DEF OpenFails, Logs
<1> QED
  BY <1>1, <1>2, <1>3, <1>4, <1>5, <1>6, <1>7, <1>8, <1>9, <1>10 DEF Main

LEMMA MaintBounds ==
    ASSUME MaintIInv, NEW p \in Programs, logMaintWorker(p)
    PROVE  Bounds'
<1> USE DEF MaintIInv, TypeOK, Bounds, Shapes, MaintPlaces, Maintaining, dirVars, MaintTo
<1>1. CASE openLogCtrl(p)
  BY <1>1 DEF openLogCtrl, Logs
<1>2. CASE TryAcquire(p)
  <2>1. CASE Crash(p)
    BY <2>1, MainBounds DEF Main
  <2>2. CASE ~ Crash(p)
    BY <1>2, <2>2 DEF TryAcquire, Begin, Logs
  <2> QED
    BY <2>1, <2>2
<1>3. ASSUME NEW l \in work[p].listed \cup Logs, checkLog(p, l)
      PROVE  Bounds'
  BY <1>3 DEF checkLog, Logs
<1>4. CASE RemoveOutOfDate(p)
  BY <1>4 DEF RemoveOutOfDate, Without, Restrict, Logs
<1>5. CASE EndPass1(p)
  BY <1>5 DEF EndPass1, Return, Logs
<1>6. CASE Sort(p)
  BY <1>6 DEF Sort, Logs
<1>7. CASE deleteOldestLogs(p)
  BY <1>7 DEF deleteOldestLogs, Without, Restrict, Logs
<1>8. CASE EndPass2(p)
  BY <1>8 DEF EndPass2, Return, Logs
<1> QED
  BY <1>1, <1>2, <1>3, <1>4, <1>5, <1>6, <1>7, <1>8 DEF logMaintWorker

-----------------------------------------------------------------------------
(* The lock excludes: what one thread knows no other step makes untrue.     *)

\* No step takes a program back to where it had not opened its log, or gives
\* it another one then; a new log is that of a program that opens it.
LEMMA OpenedGrow ==
    ASSUME MaintIInv, NEW p \in Programs, Main(p)
    PROVE  /\ Logs \subseteq Logs'
           /\ \A q \in Programs : OpenedBeside[q] \subseteq OpenedBeside'[q]
           /\ \A q \in Programs : maint[q] \in Maintaining =>
                  Logs' \ Logs \subseteq OpenedBeside'[q]
<1> USE DEF MaintIInv, Shapes, MainPlaces, dirVars, maintVars, MainTo, Opened
<1>1. CASE FindDir(p)
  BY <1>1 DEF FindDir, Logs, OpenedBeside
<1>2. CASE MakeDir(p)
  BY <1>2 DEF MakeDir, Logs, OpenedBeside
<1>3. CASE getLogName(p)
  BY <1>3 DEF getLogName, Logs, OpenedBeside
<1>4. CASE Probe(p)
  BY <1>4 DEF Probe, Logs, OpenedBeside
<1>5. CASE Open(p)
  <2>1. \A q \in Programs : maint[q] \in Maintaining => q # p
    BY <1>5 DEF Open, Stages
  <2>2. /\ Logs' = Logs \cup {log[p]}
        /\ main' = [main EXCEPT ![p] = "running"] /\ log' = log
    BY <1>5 DEF Open, Logs
  <2> QED
    BY <2>1, <2>2 DEF OpenedBeside
<1>6. CASE Write(p)
  BY <1>6 DEF Write, Logs, OpenedBeside
<1>7. CASE Exit(p)
  BY <1>7 DEF Exit, Logs, OpenedBeside
<1>8. CASE JoinMaint(p)
  BY <1>8 DEF JoinMaint, Logs, OpenedBeside
<1>9. CASE Crash(p)
  BY <1>9 DEF Crash, Logs, OpenedBeside
<1>10. CASE OpenFails(p)
  BY <1>10 DEF OpenFails, Logs, OpenedBeside
<1> QED
  BY <1>1, <1>2, <1>3, <1>4, <1>5, <1>6, <1>7, <1>8, <1>9, <1>10 DEF Main

LEMMA MainLeaves ==
    ASSUME MaintIInv, NEW p \in Programs, Main(p)
    PROVE  /\ ctrl' = ctrl
           /\ \A q \in Programs :
                  \/ maint'[q] = maint[q] /\ work'[q] = work[q] /\ (lock' = q <=> lock = q)
                  \/ maint'[q] \in {"ctrl", "crashed"} /\ work'[q] = NoWork /\ lock' # q
<1> USE DEF MaintIInv, Shapes, dirVars, maintVars
<1>1. CASE FindDir(p)
  BY <1>1 DEF FindDir
<1>2. CASE MakeDir(p)
  BY <1>2 DEF MakeDir
<1>3. CASE getLogName(p)
  BY <1>3 DEF getLogName
<1>4. CASE Probe(p)
  BY <1>4 DEF Probe
<1>5. CASE Open(p)
  <2>1. maint[p] \notin Maintaining
    BY <1>5 DEF Open, Stages
  <2>2. lock # p /\ work[p] = NoWork
    BY <2>1 DEF LockHeld
  <2> QED
    BY <1>5, <2>2 DEF Open
<1>6. CASE Write(p)
  BY <1>6 DEF Write
<1>7. CASE Exit(p)
  BY <1>7 DEF Exit
<1>8. CASE JoinMaint(p)
  BY <1>8 DEF JoinMaint
<1>9. CASE Crash(p)
  BY <1>9, LogAssumption DEF Crash
<1>10. CASE OpenFails(p)
  BY <1>10 DEF OpenFails
<1> QED
  BY <1>1, <1>2, <1>3, <1>4, <1>5, <1>6, <1>7, <1>8, <1>9, <1>10 DEF Main

LEMMA MainKeeps ==
    ASSUME MaintIInv, NEW p \in Programs, Main(p)
    PROVE  /\ LockHeld' /\ NothingThrown' /\ Listed' /\ Victim' /\ Passed1'
           /\ VisitedGone' /\ BeatenBySome'
<1> USE DEF MaintIInv
<1>1. /\ ctrl' = ctrl
      /\ \A q \in Programs :
             \/ maint'[q] = maint[q] /\ work'[q] = work[q] /\ (lock' = q <=> lock = q)
             \/ maint'[q] \in {"ctrl", "crashed"} /\ work'[q] = NoWork /\ lock' # q
  BY MainLeaves
<1>2. /\ Logs \subseteq Logs'
      /\ \A q \in Programs : OpenedBeside[q] \subseteq OpenedBeside'[q]
      /\ \A q \in Programs : maint[q] \in Maintaining =>
             Logs' \ Logs \subseteq OpenedBeside'[q]
  BY OpenedGrow
<1>3. LockHeld'
  BY <1>1 DEF LockHeld, Maintaining
<1>4. NothingThrown'
  BY <1>1 DEF NothingThrown
<1>5. Listed'
  BY <1>1, <1>2 DEF Listed, Maintaining
<1>6. Victim' /\ Passed1'
  BY <1>1 DEF Victim, Passed1
<1>7. VisitedGone'
  <2> SUFFICES ASSUME NEW q \in Programs, maint'[q] \in Maintaining,
                      NEW l \in work'[q].visited \cap Logs'
               PROVE  \/ l \in Range(work'[q].files) \/ l \in OpenedBeside'[q]
                      \/ maint'[q] = "remove" /\ l = work'[q].victim
    BY DEF VisitedGone
  <2>1. maint'[q] = maint[q] /\ work'[q] = work[q]
    BY <1>1 DEF Maintaining
  <2>2. CASE l \in Logs
    BY <1>2, <2>1, <2>2 DEF VisitedGone
  <2>3. CASE l \notin Logs
    BY <1>2, <2>1, <2>3
  <2> QED
    BY <2>2, <2>3
<1>8. BeatenBySome'
  <2> USE DEF Shapes, Maintaining, dirVars, maintVars, MainTo
  <2>1. CASE Crash(p)
    <3>1. main' = [main EXCEPT ![p] = "crashed"]
      BY <2>1 DEF Crash
    <3> QED
      BY <3>1 DEF BeatenBySome
  <2>2. CASE Open(p)
    <3>1. maint[p] = "none"
      BY <2>2 DEF Open, Stages
    <3> QED
      BY <2>2, <3>1 DEF Open, BeatenBySome
  <2>3. CASE ~ Crash(p) /\ ~ Open(p)
    <3>1. maint' = maint /\ main' = [main EXCEPT ![p] = main'[p]] /\ main[p] # "crashed"
      BY <2>3 DEF Main, FindDir, MakeDir, getLogName, Probe, OpenFails, Write, Exit, JoinMaint
    <3> QED
      BY <3>1 DEF BeatenBySome
  <2> QED
    BY <2>1, <2>2, <2>3
<1> QED
  BY <1>3, <1>4, <1>5, <1>6, <1>7, <1>8

\* A thread without the lock knows nothing; when it takes the lock it lists the
\* logs.
LEMMA AcquireKeeps ==
    ASSUME MaintIInv, NEW p \in Programs, openLogCtrl(p) \/ TryAcquire(p)
    PROVE  /\ LockHeld' /\ NothingThrown' /\ Listed' /\ Victim' /\ Passed1'
           /\ VisitedGone' /\ BeatenBySome'
<1> USE DEF MaintIInv, Shapes, dirVars, MaintTo, Maintaining
<1>1. CASE openLogCtrl(p)
  <2>1. maint' = [maint EXCEPT ![p] = maint'[p]] /\ maint'[p] \in {"lock", "undefined", "done"}
    BY <1>1 DEF openLogCtrl
  <2>2. /\ ctrl' = ctrl /\ lock' = lock /\ work' = work /\ written' = written
        /\ main' = main /\ log' = log /\ maint[p] = "ctrl"
        /\ maint'[p] = "lock" => ctrl # Malformed
    BY <1>1 DEF openLogCtrl
  <2>3. Logs' = Logs /\ OpenedBeside' = OpenedBeside
    BY <2>2 DEF Logs, OpenedBeside, Opened
  <2>4. LockHeld' /\ NothingThrown'
    BY <2>1, <2>2 DEF LockHeld, NothingThrown
  <2>5. Listed' /\ Victim' /\ Passed1'
    BY <2>1, <2>2, <2>3 DEF Listed, Victim, Passed1
  <2>6. VisitedGone'
    BY <2>1, <2>2, <2>3 DEF VisitedGone
  <2>7. BeatenBySome'
    BY <2>1, <2>2 DEF BeatenBySome
  <2> QED
    BY <2>4, <2>5, <2>6, <2>7
<1>2. CASE TryAcquire(p) /\ ~ Crash(p) /\ lock = NoProgram
  <2>1. /\ maint[p] = "lock" /\ maint' = [maint EXCEPT ![p] = "pass1"]
        /\ work' = [work EXCEPT ![p].listed = Logs] /\ lock' = p
        /\ ctrl' = ctrl /\ written' = written /\ main' = main /\ log' = log
    BY <1>2 DEF TryAcquire, Begin
  <2>2. Logs' = Logs
    BY <2>1 DEF Logs
  <2>3. \A q \in Programs : maint[q] \notin Maintaining /\ work[q] = NoWork
    BY <1>2, LogAssumption DEF LockHeld
  <2>4. /\ work'[p].listed = Logs /\ work'[p].visited = {} /\ work'[p].files = <<>>
        /\ work'[p].count = 0
        /\ \A q \in Programs \ {p} : work'[q] = work[q] /\ maint'[q] = maint[q]
    BY <2>1, <2>3 DEF NoWork
  <2>5. Range(<<>>) = {} /\ IsInjective(<<>>) /\ Len(<<>>) = 0
    BY DEF Range, IsInjective
  <2>6. LockHeld' /\ NothingThrown'
    BY <2>1, <2>3, <2>4 DEF LockHeld, NothingThrown
  <2>7. Listed'
    BY <2>1, <2>2, <2>3, <2>4, <2>5 DEF Listed
  <2>8. Victim' /\ Passed1'
    BY <2>1, <2>3 DEF Victim, Passed1
  <2>9. VisitedGone'
    BY <2>1, <2>3, <2>4 DEF VisitedGone
  <2>10. BeatenBySome'
    BY <2>1 DEF BeatenBySome
  <2> QED
    BY <2>6, <2>7, <2>8, <2>9, <2>10
<1>3. CASE TryAcquire(p) /\ ~ Crash(p) /\ lock # NoProgram
  <2>1. /\ maint[p] = "lock" /\ maint' = [maint EXCEPT ![p] = "beaten"]
        /\ work' = work /\ lock' = lock
        /\ ctrl' = ctrl /\ written' = written /\ main' = main /\ log' = log
    BY <1>3 DEF TryAcquire
  <2>2. Logs' = Logs /\ OpenedBeside' = OpenedBeside
    BY <2>1 DEF Logs, OpenedBeside, Opened
  <2>3. LockHeld' /\ NothingThrown'
    BY <2>1 DEF LockHeld, NothingThrown
  <2>4. Listed' /\ Victim' /\ Passed1'
    BY <2>1, <2>2 DEF Listed, Victim, Passed1
  <2>5. VisitedGone'
    BY <2>1, <2>2 DEF VisitedGone
  <2>6. BeatenBySome'
    <3>1. PICK q \in Programs : lock = q
      BY <1>3 DEF TypeOK
    <3>2. maint[q] \in Maintaining /\ maint'[q] = maint[q]
      BY <2>1, <3>1 DEF LockHeld
    <3> QED
      BY <3>2 DEF BeatenBySome
  <2> QED
    BY <2>3, <2>4, <2>5, <2>6
<1>4. CASE Crash(p)
  BY <1>4, MainKeeps DEF Main
<1> QED
  BY <1>1, <1>2, <1>3, <1>4

\* What the holder does touches nobody else; it keeps the lock or returns.
LEMMA HolderKeeps ==
    ASSUME MaintIInv, NEW p \in Programs, maint[p] \in Maintaining,
           ctrl' = ctrl, main' = main, log' = log,
           \A q \in Programs \ {p} : maint'[q] = maint[q] /\ work'[q] = work[q],
           \/ lock' = lock /\ maint'[p] \in Maintaining
           \/ lock' = NoProgram /\ maint'[p] = "done" /\ work'[p] = NoWork
    PROVE  /\ LockHeld' /\ NothingThrown' /\ BeatenBySome' /\ OpenedBeside' = OpenedBeside
           /\ lock = p /\ ctrl.maxLogs \in Nat
           /\ \A q \in Programs \ {p} : maint'[q] \notin Maintaining
<1> USE DEF MaintIInv, Maintaining
<1>1. lock = p /\ \A q \in Programs \ {p} : maint[q] \notin Maintaining
  BY DEF LockHeld
<1>2. LockHeld'
  BY <1>1, LogAssumption DEF LockHeld
<1>3. NothingThrown'
  BY DEF NothingThrown
<1>4. BeatenBySome'
  BY DEF BeatenBySome
<1>5. OpenedBeside' = OpenedBeside
  BY DEF OpenedBeside, Opened
<1>6. ctrl.maxLogs \in Nat
  BY ControlTypes DEF LockHeld, TypeOK
<1> QED
  BY <1>1, <1>2, <1>3, <1>4, <1>5, <1>6

LEMMA checkLogKeeps ==
    ASSUME MaintIInv, NEW p \in Programs, NEW l \in work[p].listed \cup Logs, checkLog(p, l)
    PROVE  /\ LockHeld' /\ NothingThrown' /\ Listed' /\ Victim' /\ Passed1'
           /\ VisitedGone' /\ BeatenBySome'
<1> USE DEF MaintIInv, Shapes, dirVars, MaintTo, Maintaining
<1>1. /\ maint[p] = "pass1" /\ l \notin work[p].visited /\ work[p] \in Works
      /\ work[p].files \in Seq(Names) /\ l \in Names
  BY DEF checkLog, Works, TypeOK
<1>2. l \in Logs
  BY <1>1 DEF Listed
<1>3. /\ ctrl' = ctrl /\ main' = main /\ log' = log /\ lock' = lock /\ Logs' = Logs
      /\ \A q \in Programs \ {p} : maint'[q] = maint[q] /\ work'[q] = work[q]
      /\ work'[p].listed = work[p].listed /\ work'[p].visited = work[p].visited \cup {l}
      /\ work'[p].count = work[p].count
      /\ \/ maint'[p] = "remove" /\ work'[p].victim = l /\ work'[p].files = work[p].files
         \/ maint'[p] = "pass1" /\ work'[p].files = Append(work[p].files, l)
  BY <1>1, <1>2 DEF checkLog, Logs, Works
<1>4. /\ LockHeld' /\ NothingThrown' /\ BeatenBySome' /\ OpenedBeside' = OpenedBeside
      /\ \A q \in Programs \ {p} : maint'[q] \notin Maintaining
  BY <1>1, <1>3, HolderKeeps
<1>5. l \notin Range(work[p].files)
  BY <1>1 DEF Listed
<1>6. CASE maint'[p] = "remove"
  <2>1. Listed' /\ Victim' /\ Passed1'
    BY <1>1, <1>2, <1>3, <1>4, <1>5, <1>6 DEF Listed, Victim, Passed1
  <2>2. VisitedGone'
    BY <1>1, <1>3, <1>4, <1>6 DEF VisitedGone
  <2> QED
    BY <1>4, <2>1, <2>2
<1>7. CASE maint'[p] = "pass1"
  <2>1. /\ Range(work'[p].files) = Range(work[p].files) \cup {l}
        /\ IsInjective(work'[p].files) /\ Len(work'[p].files) = Len(work[p].files) + 1
    <3>1. work'[p].files = Append(work[p].files, l)
      BY <1>3, <1>7
    <3>2. IsInjective(work[p].files)
      BY <1>1 DEF Listed
    <3> QED
      BY <1>1, <1>5, <3>1, <3>2, RangeAppend
  <2>2. work[p].count <= Len(work[p].files) /\ work[p].count \in Nat /\ Len(work[p].files) \in Nat
    BY <1>1 DEF Listed, Works
  <2>3. Listed'
    BY <1>1, <1>2, <1>3, <1>4, <2>1, <2>2 DEF Listed
  <2>4. Victim' /\ Passed1'
    BY <1>4, <1>7 DEF Victim, Passed1
  <2>5. VisitedGone'
    BY <1>1, <1>3, <1>4, <1>7, <2>1 DEF VisitedGone
  <2> QED
    BY <1>4, <2>3, <2>4, <2>5
<1> QED
  BY <1>3, <1>6, <1>7

LEMMA RemoveKeeps ==
    ASSUME MaintIInv, NEW p \in Programs, RemoveOutOfDate(p)
    PROVE  /\ LockHeld' /\ NothingThrown' /\ Listed' /\ Victim' /\ Passed1'
           /\ VisitedGone' /\ BeatenBySome'
<1> USE DEF MaintIInv, Shapes, dirVars, MaintTo, Maintaining
<1>1. maint[p] = "remove" /\ work[p] \in Works
  BY DEF RemoveOutOfDate
<1>2. /\ ctrl' = ctrl /\ main' = main /\ log' = log /\ lock' = lock
      /\ Logs' = Logs \ {work[p].victim} /\ maint'[p] = "pass1"
      /\ \A q \in Programs \ {p} : maint'[q] = maint[q] /\ work'[q] = work[q]
      /\ work'[p].listed = work[p].listed /\ work'[p].visited = work[p].visited
      /\ work'[p].count = work[p].count /\ work'[p].files = work[p].files
  BY <1>1 DEF RemoveOutOfDate, Without, Restrict, Logs, Works
<1>3. /\ LockHeld' /\ NothingThrown' /\ BeatenBySome' /\ OpenedBeside' = OpenedBeside
      /\ \A q \in Programs \ {p} : maint'[q] \notin Maintaining
  BY <1>1, <1>2, HolderKeeps
<1>4. work[p].victim \in work[p].visited \ Range(work[p].files)
  BY <1>1 DEF Victim
<1>5. Listed' /\ Victim' /\ Passed1'
  BY <1>1, <1>2, <1>3, <1>4 DEF Listed, Victim, Passed1
<1>6. VisitedGone'
  BY <1>1, <1>2, <1>3 DEF VisitedGone
<1> QED
  BY <1>3, <1>5, <1>6

LEMMA ReturnKeeps ==
    ASSUME MaintIInv, NEW p \in Programs, maint[p] \in Maintaining, Return(p),
           ctrl' = ctrl, main' = main, log' = log, written' = written
    PROVE  /\ LockHeld' /\ NothingThrown' /\ Listed' /\ Victim' /\ Passed1'
           /\ VisitedGone' /\ BeatenBySome'
<1> USE DEF MaintIInv, Shapes, Maintaining
<1>1. /\ lock' = NoProgram /\ maint'[p] = "done" /\ work'[p] = NoWork
      /\ \A q \in Programs \ {p} : maint'[q] = maint[q] /\ work'[q] = work[q]
  BY DEF Return, MaintTo
<1>2. /\ LockHeld' /\ NothingThrown' /\ BeatenBySome'
      /\ \A q \in Programs \ {p} : maint'[q] \notin Maintaining
  BY <1>1, HolderKeeps
<1>3. \A q \in Programs : maint'[q] \notin Maintaining
  BY <1>1, <1>2
<1>4. Listed' /\ Victim' /\ Passed1' /\ VisitedGone'
  BY <1>3 DEF Listed, Victim, Passed1, VisitedGone
<1> QED
  BY <1>2, <1>4

LEMMA EndPass1Keeps ==
    ASSUME MaintIInv, NEW p \in Programs, EndPass1(p)
    PROVE  /\ LockHeld' /\ NothingThrown' /\ Listed' /\ Victim' /\ Passed1'
           /\ VisitedGone' /\ BeatenBySome'
<1> USE DEF MaintIInv, Shapes, dirVars, MaintTo, Maintaining
<1>1. /\ maint[p] = "pass1" /\ work[p] \in Works /\ work[p].files \in Seq(Names)
      /\ work[p].listed \subseteq work[p].visited
  BY DEF EndPass1, Works
<1>2. CASE Excess(p) > 0
  <2>1. /\ ctrl' = ctrl /\ main' = main /\ log' = log /\ lock' = lock
        /\ Logs' = Logs /\ maint'[p] = "sort"
        /\ \A q \in Programs \ {p} : maint'[q] = maint[q] /\ work'[q] = work[q]
        /\ work'[p].listed = work[p].listed /\ work'[p].visited = work[p].visited
        /\ work'[p].count = Excess(p) /\ work'[p].files = work[p].files
    BY <1>1, <1>2 DEF EndPass1, Logs, Works
  <2>2. /\ LockHeld' /\ NothingThrown' /\ BeatenBySome' /\ OpenedBeside' = OpenedBeside
        /\ ctrl.maxLogs \in Nat
        /\ \A q \in Programs \ {p} : maint'[q] \notin Maintaining
    BY <1>1, <2>1, HolderKeeps
  <2>3. /\ Excess(p) <= Len(work[p].files)
        /\ Len(work[p].files) - Excess(p) = ctrl.maxLogs
    BY <1>1, <2>2 DEF Excess
  <2>4. Listed'
    BY <1>1, <2>1, <2>2, <2>3 DEF Listed
  <2>5. Victim' /\ Passed1'
    BY <1>1, <2>1, <2>2, <2>3 DEF Victim, Passed1
  <2>6. VisitedGone'
    BY <1>1, <2>1, <2>2 DEF VisitedGone
  <2> QED
    BY <2>2, <2>4, <2>5, <2>6
<1>3. CASE ~ (Excess(p) > 0)
  <2>1. Return(p) /\ ctrl' = ctrl /\ main' = main /\ log' = log /\ written' = written
    BY <1>3 DEF EndPass1
  <2> QED
    BY <1>1, <2>1, ReturnKeeps
<1> QED
  BY <1>2, <1>3

LEMMA SortKeeps ==
    ASSUME MaintIInv, NEW p \in Programs, Sort(p)
    PROVE  /\ LockHeld' /\ NothingThrown' /\ Listed' /\ Victim' /\ Passed1'
           /\ VisitedGone' /\ BeatenBySome'
<1> USE DEF MaintIInv, Shapes, dirVars, MaintTo, Maintaining
<1>1. maint[p] = "sort" /\ work[p] \in Works /\ work[p].files \in Seq(Names)
  BY DEF Sort, Works
<1>2. Range(work[p].files) \subseteq Logs
  BY <1>1 DEF Listed
<1>3. PICK order \in SetToSeqs(Range(work[p].files)) : work' = [work EXCEPT ![p].files = order]
  BY <1>2 DEF Sort
<1>4. /\ IsFiniteSet(Range(work[p].files))
      /\ Cardinality(Range(work[p].files)) = Len(work[p].files)
  BY <1>1, RangeCount DEF Listed
<1>5. /\ Len(order) = Len(work[p].files) /\ Range(order) = Range(work[p].files)
      /\ IsInjective(order)
  BY <1>4, Orders
<1>6. /\ ctrl' = ctrl /\ main' = main /\ log' = log /\ lock' = lock
      /\ Logs' = Logs /\ maint'[p] = "pass2"
      /\ \A q \in Programs \ {p} : maint'[q] = maint[q] /\ work'[q] = work[q]
      /\ work'[p].listed = work[p].listed /\ work'[p].visited = work[p].visited
      /\ work'[p].count = work[p].count /\ work'[p].files = order
  BY <1>1, <1>2, <1>3 DEF Sort, Logs, Works
<1>7. /\ LockHeld' /\ NothingThrown' /\ BeatenBySome' /\ OpenedBeside' = OpenedBeside
      /\ \A q \in Programs \ {p} : maint'[q] \notin Maintaining
  BY <1>1, <1>6, HolderKeeps
<1>8. Listed'
  BY <1>1, <1>5, <1>6, <1>7 DEF Listed
<1>9. Victim' /\ Passed1'
  BY <1>1, <1>5, <1>6, <1>7 DEF Victim, Passed1
<1>10. VisitedGone'
  BY <1>1, <1>5, <1>6, <1>7 DEF VisitedGone
<1> QED
  BY <1>7, <1>8, <1>9, <1>10

\* What a thread deletes in pass 2, and what it has kept after that.
LEMMA DeletesHead ==
    ASSUME MaintIInv, NEW p \in Programs, deleteOldestLogs(p)
    PROVE  /\ maint[p] = "pass2" /\ work[p].files \in Seq(Names) /\ work[p].files # <<>>
           /\ work[p].count \in Nat \ {0}
           /\ ctrl' = ctrl /\ main' = main /\ log' = log /\ lock' = lock /\ maint' = maint
           /\ Logs' = Logs \ {Head(work[p].files)}
           /\ \A q \in Programs \ {p} : work'[q] = work[q]
           /\ work'[p].listed = work[p].listed /\ work'[p].visited = work[p].visited
           /\ work'[p].count = work[p].count - 1 /\ work'[p].files = Tail(work[p].files)
           /\ Len(work'[p].files) = Len(work[p].files) - 1
           /\ Range(work'[p].files) = Range(work[p].files) \ {Head(work[p].files)}
           /\ IsInjective(work'[p].files)
<1> USE DEF MaintIInv, Shapes, dirVars
<1>1. /\ maint[p] = "pass2" /\ work[p] \in Works /\ work[p].files \in Seq(Names)
      /\ work[p].count \in Nat \ {0}
  BY DEF deleteOldestLogs, Works
<1>2. work[p].files # <<>> /\ IsInjective(work[p].files)
  BY <1>1 DEF Listed, Maintaining
<1>3. /\ ctrl' = ctrl /\ main' = main /\ log' = log /\ lock' = lock /\ maint' = maint
      /\ Logs' = Logs \ {Head(work[p].files)}
      /\ \A q \in Programs \ {p} : work'[q] = work[q]
      /\ work'[p].listed = work[p].listed /\ work'[p].visited = work[p].visited
      /\ work'[p].count = work[p].count - 1 /\ work'[p].files = Tail(work[p].files)
  BY <1>1 DEF deleteOldestLogs, Without, Restrict, Logs, Works
<1> QED
  BY <1>1, <1>2, <1>3, RangeTail

LEMMA DeleteKeeps ==
    ASSUME MaintIInv, NEW p \in Programs, deleteOldestLogs(p)
    PROVE  /\ LockHeld' /\ NothingThrown' /\ Listed' /\ Victim' /\ Passed1'
           /\ VisitedGone' /\ BeatenBySome'
<1> USE DEF MaintIInv, Maintaining
<1>1. /\ maint[p] = "pass2" /\ work[p].files \in Seq(Names) /\ work[p].count \in Nat \ {0}
      /\ ctrl' = ctrl /\ main' = main /\ log' = log /\ lock' = lock /\ maint' = maint
      /\ Logs' = Logs \ {Head(work[p].files)}
      /\ \A q \in Programs \ {p} : work'[q] = work[q]
      /\ work'[p].listed = work[p].listed /\ work'[p].visited = work[p].visited
      /\ work'[p].count = work[p].count - 1
      /\ Len(work'[p].files) = Len(work[p].files) - 1
      /\ Range(work'[p].files) = Range(work[p].files) \ {Head(work[p].files)}
      /\ IsInjective(work'[p].files)
  BY DeletesHead
<1>2. /\ LockHeld' /\ NothingThrown' /\ BeatenBySome' /\ OpenedBeside' = OpenedBeside
      /\ ctrl.maxLogs \in Nat
      /\ \A q \in Programs \ {p} : maint'[q] \notin Maintaining
  BY <1>1, HolderKeeps
<1>3. /\ work[p].listed \subseteq work[p].visited /\ Len(work[p].files) \in Nat
      /\ Len(work[p].files) - work[p].count = ctrl.maxLogs
  BY <1>1 DEF Passed1
<1>4. Listed'
  <2>1. work[p].count - 1 <= Len(work[p].files) - 1
    BY <1>1, <1>2, <1>3
  <2> QED
    BY <1>1, <1>2, <1>3, <2>1 DEF Listed
<1>5. Victim' /\ Passed1'
  <2>1. Len(work[p].files) - 1 - (work[p].count - 1) = ctrl.maxLogs
    BY <1>1, <1>2, <1>3
  <2> QED
    BY <1>1, <1>2, <1>3, <2>1 DEF Victim, Passed1
<1>6. VisitedGone'
  BY <1>1, <1>2 DEF VisitedGone
<1> QED
  BY <1>2, <1>4, <1>5, <1>6

LEMMA EndPass2Keeps ==
    ASSUME MaintIInv, NEW p \in Programs, EndPass2(p)
    PROVE  /\ LockHeld' /\ NothingThrown' /\ Listed' /\ Victim' /\ Passed1'
           /\ VisitedGone' /\ BeatenBySome'
<1>1. /\ maint[p] \in Maintaining /\ Return(p)
      /\ ctrl' = ctrl /\ main' = main /\ log' = log /\ written' = written
  BY DEF EndPass2, Maintaining
<1> QED
  BY <1>1, ReturnKeeps

\* What TypeOK says of the threads' work follows from the rest of the invariant.
LEMMA TypesFollow ==
    ASSUME Shapes', Stages', Bounds', LockHeld', Listed'
    PROVE  TypeOK'
<1> SUFFICES ASSUME NEW p \in Programs
             PROVE  /\ log'[p] \in Names \cup {NoLog}
                    /\ maint'[p] \in Maintaining => main'[p] \in {"running", "exiting"}
                    /\ work'[p].listed \cup work'[p].visited \cup Range(work'[p].files) \subseteq Names
                    /\ work'[p].count \in 0 .. Len(work'[p].files)
  BY DEF Bounds, TypeOK
<1>1. work'[p] \in Works /\ log'[p] \in Names \cup {NoLog}
  BY DEF Shapes
<1>2. /\ work'[p].listed \in SUBSET Names /\ work'[p].visited \in SUBSET Names
      /\ work'[p].files \in Seq(Names) /\ work'[p].count \in Nat
  BY <1>1 DEF Works
<1>3. Range(work'[p].files) \subseteq Names
  BY <1>2, RangeIn
<1>4. work'[p].count <= Len(work'[p].files)
  BY DEF LockHeld, Listed, NoWork
<1>5. work'[p].count \in 0 .. Len(work'[p].files)
  BY <1>2, <1>4
<1> QED
  BY <1>1, <1>2, <1>3, <1>5 DEF Stages

\* Each step keeps the invariant.
LEMMA MaintStep ==
    ASSUME MaintIInv, [MaintNext]_managedVars
    PROVE  MaintIInv'
<1>1. ASSUME NEW p \in Programs, Main(p)
      PROVE  MaintIInv'
  <2>1. Shapes' /\ Stages' /\ Bounds'
    BY <1>1, MainShapes, MainBounds
  <2>2. /\ LockHeld' /\ NothingThrown' /\ Listed' /\ Victim' /\ Passed1'
        /\ VisitedGone' /\ BeatenBySome'
    BY <1>1, MainKeeps
  <2>3. TypeOK'
    BY <2>1, <2>2, TypesFollow
  <2> QED
    BY <2>1, <2>2, <2>3 DEF MaintIInv
<1>2. ASSUME NEW p \in Programs, logMaintWorker(p)
      PROVE  MaintIInv'
  <2>1. Shapes' /\ Stages' /\ Bounds'
    BY <1>2, MaintShapes, MaintBounds
  <2>2. /\ LockHeld' /\ NothingThrown' /\ Listed' /\ Victim' /\ Passed1'
        /\ VisitedGone' /\ BeatenBySome'
    BY <1>2, AcquireKeeps, checkLogKeeps, RemoveKeeps, EndPass1Keeps, SortKeeps,
       DeleteKeeps, EndPass2Keeps DEF logMaintWorker
  <2>3. TypeOK'
    BY <2>1, <2>2, TypesFollow
  <2> QED
    BY <2>1, <2>2, <2>3 DEF MaintIInv
<1>3. CASE Tick
  <2>1. Logs' = Logs /\ OpenedBeside' = OpenedBeside
    BY <1>3 DEF Tick, Logs, OpenedBeside, Opened
  <2> USE <1>3, <2>1 DEF Tick, MaintIInv, maintVars
  <2>2. TypeOK'
    BY LogAssumption DEF TypeOK
  <2>3. Shapes' /\ Stages'
    BY DEF Shapes, Stages
  <2>4. LockHeld' /\ NothingThrown' /\ BeatenBySome'
    BY DEF LockHeld, NothingThrown, BeatenBySome
  <2>5. Listed' /\ Victim' /\ Passed1' /\ VisitedGone'
    BY DEF Listed, Victim, Passed1, VisitedGone
  <2> QED
    BY <2>2, <2>3, <2>4, <2>5
<1>4. CASE UNCHANGED managedVars
  <2>1. Logs' = Logs /\ OpenedBeside' = OpenedBeside
    BY <1>4 DEF managedVars, dirVars, maintVars, Logs, OpenedBeside, Opened
  <2> USE <1>4, <2>1 DEF MaintIInv, managedVars, dirVars, maintVars
  <2>2. TypeOK'
    BY DEF TypeOK
  <2>3. Shapes' /\ Stages'
    BY DEF Shapes, Stages
  <2>4. LockHeld' /\ NothingThrown' /\ BeatenBySome'
    BY DEF LockHeld, NothingThrown, BeatenBySome
  <2>5. Listed' /\ Victim' /\ Passed1' /\ VisitedGone'
    BY DEF Listed, Victim, Passed1, VisitedGone
  <2> QED
    BY <2>2, <2>3, <2>4, <2>5
<1> QED
  BY <1>1, <1>2, <1>3, <1>4 DEF MaintNext

-----------------------------------------------------------------------------
(* The theorems.                                                            *)

\* The invariant holds in every state.
THEOREM MaintInvariant == MaintSpec => []MaintIInv
<1>1. MaintInit => MaintIInv
  BY TypesAtFirst
<1>2. MaintIInv /\ [MaintNext]_managedVars => MaintIInv'
  BY MaintStep
<1> QED
  BY <1>1, <1>2, PTL DEF MaintSpec

\* Every variable of the log's maintenance has its type.
THEOREM MaintTypes == MaintSpec => []TypeOK
<1>1. MaintIInv => TypeOK
  BY DEF MaintIInv
<1> QED
  BY <1>1, MaintInvariant, PTL

\* No thread finds a log gone that it has listed: checkLog and the sort never
\* throw, for any number of programs, ended or killed at any step.
THEOREM NoLogGoesMissing == MaintSpec => []NothingThrown
<1>1. MaintIInv => NothingThrown
  BY DEF MaintIInv
<1> QED
  BY <1>1, MaintInvariant, PTL

\* A thread that gives up because another holds the lock is right to.
THEOREM WorkIsDone == MaintSpec => []SomebodyMaintained
<1>1. MaintIInv => SomebodyMaintained
  <2> SUFFICES ASSUME MaintIInv, \A p \in Programs : main[p] = "ended",
                      \E p \in Programs : maint[p] = "beaten"
               PROVE  \E p \in Programs : maint[p] = "done"
    BY DEF SomebodyMaintained
  <2>1. PICK p \in Programs : maint[p] \in Maintaining \cup {"done"} \/ main[p] = "crashed"
    BY DEF MaintIInv, BeatenBySome
  <2>2. maint[p] \notin Maintaining
    BY DEF MaintIInv, Stages
  <2> QED
    BY <2>1, <2>2
<1> QED
  BY <1>1, MaintInvariant, PTL

\* Only the ends of the two passes take a thread that maintains to "done".
LEMMA ReturnsFrom ==
    ASSUME MaintIInv, MaintNext, NEW p \in Programs,
           maint[p] \in Maintaining, maint'[p] = "done"
    PROVE  (EndPass1(p) /\ Excess(p) <= 0) \/ EndPass2(p)
<1> USE DEF MaintIInv, Shapes, Maintaining
<1>1. maint' # maint
  OBVIOUS
<1>2. ~ Tick
  BY <1>1 DEF Tick, maintVars
<1>3. \A q \in Programs : ~ Main(q)
  <2> SUFFICES ASSUME NEW q \in Programs, Main(q)
               PROVE  FALSE
    OBVIOUS
  <2> QED
    BY MainLeaves
<1>4. PICK q \in Programs : logMaintWorker(q)
  BY <1>2, <1>3 DEF MaintNext
<1>5. p = q
  <2> SUFFICES ASSUME p # q
               PROVE  maint'[p] = maint[p]
    OBVIOUS
  <2> USE DEF MaintTo, dirVars
  <2>1. CASE openLogCtrl(q) \/ TryAcquire(q)
    BY <2>1 DEF openLogCtrl, TryAcquire, Begin, Crash
  <2>2. CASE \E l \in work[q].listed \cup Logs : checkLog(q, l)
    BY <2>2 DEF checkLog
  <2>3. CASE RemoveOutOfDate(q) \/ Sort(q) \/ deleteOldestLogs(q)
    BY <2>3 DEF RemoveOutOfDate, Sort, deleteOldestLogs
  <2>4. CASE EndPass1(q) \/ EndPass2(q)
    BY <2>4 DEF EndPass1, EndPass2, Return
  <2> QED
    BY <1>4, <2>1, <2>2, <2>3, <2>4 DEF logMaintWorker
<1> USE DEF MaintTo, dirVars
<1>6. ~ openLogCtrl(p) /\ ~ TryAcquire(p)
  BY DEF openLogCtrl, TryAcquire
<1>7. \A l : ~ checkLog(p, l)
  BY DEF checkLog
<1>8. ~ RemoveOutOfDate(p) /\ ~ Sort(p) /\ ~ deleteOldestLogs(p)
  BY DEF RemoveOutOfDate, Sort, deleteOldestLogs
<1>9. CASE EndPass1(p)
  <2>1. Excess(p) \in Int
    <3>1. ctrl.maxLogs \in Nat
      BY ControlTypes DEF LockHeld, TypeOK
    <3>2. work[p].files \in Seq(Names)
      BY DEF Works
    <3> QED
      BY <3>1, <3>2 DEF Excess
  <2>2. ~ (Excess(p) > 0)
    BY <1>9 DEF EndPass1
  <2> QED
    BY <1>9, <2>1, <2>2
<1> QED
  BY <1>4, <1>5, <1>6, <1>7, <1>8, <1>9 DEF logMaintWorker

\* What a thread has still to keep is there when it deletes a log, and no fewer
\* than maxLogs.
THEOREM EnoughLogsStay == MaintSpec => KeepsEnough
<1>1. MaintIInv /\ [MaintNext]_managedVars =>
          [\A p \in Programs :
              deleteOldestLogs(p) => Cardinality(Logs') >= ctrl.maxLogs]_managedVars
  <2> SUFFICES ASSUME MaintIInv, [MaintNext]_managedVars,
                      NEW p \in Programs, deleteOldestLogs(p)
               PROVE  Cardinality(Logs') >= ctrl.maxLogs
    OBVIOUS
  <2>1. MaintIInv'
    BY MaintStep
  <2> DEFINE kept == work'[p].files
  <2>2. /\ maint'[p] = "pass2" /\ ctrl' = ctrl /\ ctrl # Malformed
    BY DeletesHead DEF MaintIInv, LockHeld, Maintaining
  <2>3. kept \in Seq(Names) /\ work'[p].count \in Nat
    BY <2>1 DEF MaintIInv, Shapes, Works
  <2>4. /\ IsInjective(kept) /\ Range(kept) \subseteq Logs' /\ IsFiniteSet(Logs')
        /\ Len(kept) - work'[p].count = ctrl.maxLogs
    BY <2>1, <2>2 DEF MaintIInv, Shapes, Listed, Passed1, Maintaining
  <2> HIDE DEF kept
  <2>5. ctrl.maxLogs \in Nat
    BY <2>2, ControlTypes DEF MaintIInv, TypeOK
  <2>6. Cardinality(Range(kept)) = Len(kept) /\ Len(kept) \in Nat
    BY <2>3, <2>4, RangeCount
  <2>7. Cardinality(Range(kept)) <= Cardinality(Logs') /\ Cardinality(Logs') \in Nat
    BY <2>4, FS_Subset, FS_CardinalityType
  <2> QED
    BY <2>3, <2>4, <2>5, <2>6, <2>7
<1> QED
  BY <1>1, MaintInvariant, PTL DEF MaintSpec, KeepsEnough

\* Whatever other programs do meanwhile, a thread that ends has left no more
\* than maxLogs of the logs it listed, but those that were opened again.
THEOREM OldLogsGo == MaintSpec => KeepsNoMore
<1>1. MaintIInv /\ [MaintNext]_managedVars =>
          [\A p \in Programs :
              (maint[p] \in Maintaining /\ maint'[p] = "done")
                  => LET others == {log[q] : q \in Programs \ {p}}
                     IN  Cardinality((work[p].listed \ others) \cap Logs') <= ctrl.maxLogs]_managedVars
  <2> SUFFICES ASSUME MaintIInv, MaintNext,
                      NEW p \in Programs, maint[p] \in Maintaining, maint'[p] = "done"
               PROVE  Cardinality((work[p].listed \ {log[q] : q \in Programs \ {p}}) \cap Logs')
                          <= ctrl.maxLogs
    OBVIOUS
  <2> DEFINE others == {log[q] : q \in Programs \ {p}}
             left == (work[p].listed \ others) \cap Logs'
             kept == work[p].files
  <2>1. (EndPass1(p) /\ Excess(p) <= 0) \/ EndPass2(p)
    BY ReturnsFrom
  <2>2. /\ written' = written /\ maint[p] \in {"pass1", "pass2"}
    BY <2>1 DEF EndPass1, EndPass2
  <2>3. kept \in Seq(Names) /\ work[p].count \in Nat
    BY DEF MaintIInv, Shapes, Works
  <2>4. ctrl.maxLogs \in Nat
    BY ControlTypes DEF MaintIInv, LockHeld, TypeOK
  <2>5. /\ work[p].listed \subseteq work[p].visited
        /\ Len(kept) <= ctrl.maxLogs
    <3>1. CASE EndPass1(p) /\ Excess(p) <= 0
      BY <2>3, <2>4, <3>1 DEF EndPass1, Excess
    <3>2. CASE EndPass2(p)
      BY <2>3, <2>4, <3>2 DEF EndPass2, MaintIInv, Passed1
    <3> QED
      BY <2>1, <3>1, <3>2
  <2>6. left \subseteq Range(kept)
    <3>1. OpenedBeside[p] \subseteq others
      BY DEF OpenedBeside, Opened
    <3> QED
      BY <2>2, <2>5, <3>1 DEF MaintIInv, VisitedGone, Logs
  <2> HIDE DEF left, kept
  <2>7. /\ IsFiniteSet(Range(kept)) /\ Cardinality(Range(kept)) <= Len(kept)
        /\ Len(kept) \in Nat
    BY <2>3, RangeCount
  <2>8. /\ Cardinality(left) <= Cardinality(Range(kept)) /\ Cardinality(left) \in Nat
        /\ Cardinality(Range(kept)) \in Nat
    BY <2>6, <2>7, FS_Subset, FS_CardinalityType
  <2> QED
    BY <2>4, <2>5, <2>7, <2>8 DEF left
<1> QED
  BY <1>1, MaintInvariant, PTL DEF MaintSpec, KeepsNoMore

=============================================================================
