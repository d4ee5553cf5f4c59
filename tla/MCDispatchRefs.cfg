\* An image that refers to another.
CONSTANTS
    Names <- MCNames
    Blocks <- MCBlocks
    OptionSets <- MCOptionSets
    Anonymous = ""
    Plain = "plain"
    MaxImages = 2
    Sizes = {"s1"}
    NoValue = NoValue
    MaxTasks = 1
    MaxPreds = 0

SPECIFICATION ProgramSpec

INVARIANTS
    ReferencesResolved
