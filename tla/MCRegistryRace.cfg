\* Two threads that get a property of one component for the first time.
CONSTANTS
    Names <- MCNames
    TypeOf <- MCTypeOf
    Sizes = {s1}
    NoValue = NoValue
    MaxSettings = 0
    Readers = {r1, r2}
    NoReader = NoReader
    MainProps = {"kind"}
    SubProps = {"emu"}
    OtherProps = {"other"}
    MaxGets = 2
    ImageNames = {}
    PartNames = {}
    Nothing = Nothing
    MaxBlocks = 0
    MaxCalls = 0

SPECIFICATION Spec

INVARIANTS
    GetsAreSafe
