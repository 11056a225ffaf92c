CONSTANTS
    NoEntryValue = NoEntryValue
    NoEntry = NoEntryValue
    Null = Null
    Raw <- MCRaw
    RateKeys <- MCRateKeys
    PosRateKeys <- MCPosRateKeys
    RawFloat <- MCRawFloat
    RawGrids <- MCRawGrids
    DefaultMaxLevel = 60
    MaxLevel = 100
    MaxVisibility = 333
    DefaultVisibility = 90
    DefaultVisibilityInstance = 120
    DefaultVisibilityBG = 180
SPECIFICATION Spec
INVARIANT TypeOK ConfigConsistent
