\* Up to two images, every command line; all graphs on at most four tasks, where
\* three dependencies of a task are no restriction.
CONSTANTS
    Names <- MCNames
    Blocks <- MCBlocks
    OptionSets <- MCOptionSets
    Anonymous = ""
    Plain = "plain"
    MaxImages = 2
    Sizes = {"s1"}
    NoValue = NoValue
    MaxTasks = 4
    MaxPreds = 3

SPECIFICATION ProgramSpec

INVARIANTS
    DoneIsReady
    ExplicitFileUsed
    Acyclic
    InDegreeExact
    SearchesCorrect
    RefusesOnlyCycles
