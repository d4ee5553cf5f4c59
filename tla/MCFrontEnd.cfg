\* Texts of up to six characters, of up to thirteen tokens, command lines of up to
\* two texts, and pairs of up to eight characters.
CONSTANTS
    Chars <- MCChars
    MaxChars = 6
    Limit = 70
    Reserved <- MCReserved
    Identifiers = {"image", "partition", "size"}
    Scalars = {"42"}
    BadNumIds = {"1Q"}
    BlockTypes = {"image", "partition"}
    MaxTokens = 13
    Names = {"iso9660", "none", "noemu", "efi"}
    Sizes = {"1GiB"}
    NoValue = NoValue
    CmdIds = {"iso9660", "none", "noemu", "efi"}
    GoodNumIds = {"1GiB"}
    RefusedNumIds = {"1Q"}
    OtherVals = {"string", "number", "bool"}
    MaxCmdTokens = 4
    MaxTexts = 2
    MaxPairChars = 8

SPECIFICATION Spec

INVARIANTS
    TokensAreText
    LinesExact
    BlocksFaithful
    AcceptsExactly
    CommandExact
    KeyValExact

\* Each stops at the end of its text and after an error.
CHECK_DEADLOCK FALSE
