\* Two programs at a time, a clock that ticks once, at midnight; two threads and
\* three operations on the sinks; errors of up to four frames; control files of up
\* to nine tokens, with one call of Set before or after.
CONSTANTS
    Programs = {p1, p2}
    NoProgram = NoProgram
    NoLog = NoLog
    Malformed = Malformed
    OldLogs <- MCOldLogs
    Controls <- MCControls
    MaxClock = 1
    Day <- MCDay
    Threads = {t1, t2}
    NoThread = NoThread
    FirstSinks <- MCFirstSinks
    MoreSinks <- MCMoreSinks
    Levels = {1, 4, 5}
    Reports <- MCReports
    NewLevels = {2, 6}
    MaxOps = 3
    MaxFrames = 4
    Keys = {"max_file", "max_age"}
    TypeOfKey <- MCTypeOfKey
    OtherNames = {"other"}
    Ints = {"5", "7"}
    TooLarge = {"2147483648"}
    Negatives = {"-2"}
    MaxConfTokens = 9
    MaxSets = 1

SYMMETRY ThreadSymmetry

SPECIFICATION Spec

INVARIANTS
    TypeOK
    NothingThrown
    SomebodyMaintained
    DeliveredExactly
    LinesWhole
    ReportTellsAll
    ConfExact
    ConfRoundTrip

PROPERTIES
    KeepsEnough
    KeepsNoMore

\* The programs end, the threads have done all their operations, and an error is
\* reported once.
CHECK_DEADLOCK FALSE
