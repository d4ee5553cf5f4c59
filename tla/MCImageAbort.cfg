\* An ISO9660 image of an operation that applies no defaults.
CONSTANTS
    Names <- MCNames
    TypeOf <- MCTypeOf
    Sizes = {s1}
    NoValue = NoValue
    MaxSettings = 3
    Readers = {r1}
    NoReader = NoReader
    MainProps = {}
    SubProps = {}
    OtherProps = {}
    MaxGets = 0
    ImageNames = {}
    PartNames = {}
    Nothing = Nothing
    MaxBlocks = 0
    MaxCalls = 0

SPECIFICATION Spec

INVARIANTS
    NeverAborts
