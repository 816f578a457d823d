SPECIFICATION Spec
CONSTANTS
    PublishRate = 1000
    MaxHistorySamples = 200
    Strings <- MCStrings
    Empty = ""
    Trim <- MCTrim
    KeyOrder <- MCKeyOrder
    Containing <- MCContaining
    HasPrefix <- MCHasPrefix
    RegexMatches <- MCRegexMatches
    ValidRegexes <- MCValidRegexes
    Canonical <- MCCanonical
    Identity = Identity
    Malformed = Malformed
    Setups <- MCSetups
INVARIANTS
    ExplicitMappingWins
    ModesAreExclusive
    TransformPrecedence
    LaunchArgumentsWin
CHECK_DEADLOCK FALSE
