\* Up to four settings of any properties, in every order; three threads and four
\* gets of a component with three properties; a file of up to four blocks and four
\* calls on the set it gives.
CONSTANTS
    Names <- MCNames
    TypeOf <- MCTypeOf
    Sizes = {s1}
    NoValue = NoValue
    MaxSettings = 4
    Readers = {r1, r2, r3}
    NoReader = NoReader
    MainProps = {"kind"}
    SubProps = {"emu", "image"}
    OtherProps = {"other"}
    MaxGets = 4
    ImageNames = {i1, i2}
    PartNames = {p1, p2}
    Nothing = Nothing
    MaxBlocks = 4
    MaxCalls = 4

SYMMETRY PartSymmetry

SPECIFICATION Spec

INVARIANTS
    NothingLost
    DeferredIsStuck
    DefaultsPreventAbort
    VerdictOrderFree
    SoleReaderFinds
    RefsAlive

PROPERTIES
    SlotsKeep
